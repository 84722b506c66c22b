------------------------ MODULE MCHeartbeatLiveness ------------------------
(* Small instances of HeartbeatLiveness for TLC.                           *)
EXTENDS HeartbeatLiveness, TLC

ModelSymmetry == Permutations(Handlers) \cup Permutations(Identities)
=============================================================================
