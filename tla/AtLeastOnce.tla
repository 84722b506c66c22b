----------------------------- MODULE AtLeastOnce -----------------------------
(***************************************************************************)
(* What the ingestion consumer promises the producers of a topic, without  *)
(* workers, queues, callbacks or generations: the records of a partition   *)
(* are finished in order (handled, or their failure durably recorded), any *)
(* of them again and again, and the group's offset only ever names a point *)
(* below which everything is finished.  A restart may move the offset back *)
(* and so repeat work; it never skips a record.                            *)
(***************************************************************************)
EXTENDS Naturals

CONSTANTS
  Partitions,  \* the topic-partitions of the group's topics
  LogEnd       \* records per partition, a natural number

VARIABLES
  done,        \* records finished: pairs <<partition, offset>>
  offset       \* [Partitions -> 0..LogEnd]: the group's committed offsets

aloVars == <<done, offset>>

\* Everything of p before offset n is in D.
Prefix(D, p, n) == \A o \in 0..(n - 1) : <<p, o>> \in D

AloInit ==
  /\ done = {}
  /\ offset = [p \in Partitions |-> 0]

\* One record is finished, never before the records it follows.
FinishNext(p) ==
  \E o \in 0..(LogEnd - 1) :
    /\ Prefix(done, p, o)
    /\ done' = done \cup {<<p, o>>}

\* The offset moves, forward or back, to a point the finished records reach.
MoveOffset(p) ==
  \E n \in 0..LogEnd :
    /\ Prefix(done', p, n)
    /\ offset' = [offset EXCEPT ![p] = n]

\* A member may finish a record and commit it in one step, as seen from here.
AloNext ==
  \E p \in Partitions :
    \/ FinishNext(p) /\ UNCHANGED offset
    \/ MoveOffset(p) /\ UNCHANGED done
    \/ FinishNext(p) /\ MoveOffset(p)

AloSpec == AloInit /\ [][AloNext]_aloVars
=============================================================================
