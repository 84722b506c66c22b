---------------------------- MODULE MCConsumer ----------------------------
(* Small instances of Consumer for TLC.                                    *)
EXTENDS Consumer, TLC

\* Worker identities are interchangeable (safety runs only).
WorkerSymmetry == Permutations(Workers)
=============================================================================
