-------------------------- MODULE MCHeartbeatAssets --------------------------
(* A small instance of HeartbeatAssets for TLC.                            *)
EXTENDS HeartbeatAssets

CONSTANTS a1, a2, h1

On  == [kw |-> 1, v2g |-> "true"]
Off == [kw |-> 1, v2g |-> "false"]
Bat == [kw |-> 2, v2g |-> "null"]

Ev(a, c) == [id |-> a, type |-> "ev", caps |-> c]
Bess(a) == [id |-> a, type |-> "bess", caps |-> Bat]

\* Both orders of two assets, new capabilities, another type, no asset.
SomePayloads ==
  {<<>>, <<Ev(a1, On), Ev(a2, On)>>, <<Ev(a2, On), Ev(a1, Off)>>,
   <<Bess(a1)>>}

\* The registry gives a1 to h1.
OneRegistration ==
  {[id |-> a1, row |-> [house |-> h1, type |-> "ev", caps |-> Off, seen |-> 0]]}
=============================================================================
