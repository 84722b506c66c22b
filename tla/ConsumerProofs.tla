--------------------------- MODULE ConsumerProofs ---------------------------
(***************************************************************************)
(* Proofs about Consumer for any partitions, workers, log length, queue    *)
(* depth, slot count, retry budget and number of faults.                   *)
(***************************************************************************)
EXTENDS Consumer, FiniteSetTheorems, SequenceTheorems, TLAPS

\* A record is in hand: it is inside the worker's batch, and a backoff wait
\* leaves an attempt to make.
BatchBounds ==
  \A w \in Workers :
    /\ pc[w] \in {"handle", "backoff", "record"} => lo[w] <= at[w] /\ at[w] < hi[w]
    /\ pc[w] = "backoff" => tries[w] < MaxTries
    /\ pc[w] = "slot" => at[w] = lo[w] /\ lo[w] < hi[w]
    /\ \A i \in DOMAIN queue[w] : queue[w][i].lo < queue[w][i].hi

\* The poll loop: only dispatch has an enqueue in progress, for records it
\* has not handed over, and no newer worker has taken the target's place.
LoopInv ==
  /\ target # None => run = "dispatch"
  /\ target # None => fetch[part[target]].lo < fetch[part[target]].hi
  /\ target # None => worker[part[target]] \in {target, None}
  /\ \A p \in Partitions : fetch[p].lo <= fetch[p].hi
  /\ run # "dispatch" => \A p \in Partitions : fetch[p].lo = fetch[p].hi

\* A worker that runs and was not asked to stop is the one in the map, and a
\* partition in the map is assigned, hence owned unless the session expired.
MapInv ==
  /\ \A p \in Partitions : worker[p] # None => part[worker[p]] = p
  /\ \A p \in Partitions : worker[p] # None => p \in assigned
  /\ \A p \in assigned : owner[p] = "self" \/ fenced
  /\ callback = "lost" => assigned = {}
  /\ \A w \in Workers : (pc[w] # "exited" /\ ~Stopped(w)) => worker[part[w]] = w

\* Where the records after the ones a worker has in hand begin.
Tip(w) == IF pc[w] = "idle" THEN at[w] ELSE hi[w]

\* The batches queued for w continue each other, from Tip(w) on.
Contiguous(w) ==
  /\ queue[w] # <<>> => queue[w][1].lo = Tip(w)
  /\ \A i \in DOMAIN queue[w] : i + 1 \in DOMAIN queue[w] =>
       queue[w][i].hi = queue[w][i + 1].lo

\* What the poll loop hands over next continues what w has.
Continues(w) ==
  fetch[part[w]].lo = IF queue[w] = <<>> THEN Tip(w)
                      ELSE queue[w][Len(queue[w])].hi

\* No gap between what a worker has finished, what it holds, what is queued
\* and what is fetched next, until it is asked to stop.
ChainInv ==
  \A w \in Workers : (pc[w] # "exited" /\ ~Stopped(w)) =>
    /\ Contiguous(w)
    /\ run # "returned" => Continues(w)
    /\ (pc[w] \in {"checked", "sent"} /\ w \notin doomed) => at[w] = hi[w]
    /\ pc[w] \in {"idle", "slot"} =>
         \A o \in 0..(at[w] - 1) : <<part[w], o>> \in finished

\* The inductive invariant.
IInv ==
  /\ TypeOK
  /\ SlotsAccounted
  /\ BatchBounds
  /\ LoopInv
  /\ MapInv
  /\ ChainInv
  /\ HandledInOrder
  /\ CommittedFinished

-----------------------------------------------------------------------------
(* The shared limiter: how one worker's move changes the slots in use.     *)

Held(f) == {w \in Workers : f[w] \in Holding}

\* The workers that hold a slot are finitely many.
LEMMA HeldFinite ==
  ASSUME NEW f
  PROVE  IsFiniteSet(Held(f)) /\ Cardinality(Held(f)) \in Nat
BY ConsumerAssumption, FS_Subset, FS_CardinalityType DEF ConsumerAssumption, Held

\* Moving a worker within or outside Holding leaves the holders alone.
LEMMA HeldSame ==
  ASSUME NEW f \in [Workers -> PC], NEW w \in Workers, NEW x \in PC,
         f[w] \in Holding <=> x \in Holding
  PROVE  Held(Set(f, w, x)) = Held(f)
BY DEF Held, Set

\* A worker that enters Holding adds one holder.
LEMMA HeldMore ==
  ASSUME NEW f \in [Workers -> PC], NEW w \in Workers, NEW x \in Holding,
         f[w] \notin Holding
  PROVE  Cardinality(Held(Set(f, w, x))) = Cardinality(Held(f)) + 1
<1>1. Held(Set(f, w, x)) = Held(f) \cup {w}
  BY DEF Held, Set
<1>2. w \notin Held(f)
  BY DEF Held
<1>3. QED
  BY <1>1, <1>2, HeldFinite, FS_AddElement

\* A worker that leaves Holding removes one holder.
LEMMA HeldFewer ==
  ASSUME NEW f \in [Workers -> PC], NEW w \in Workers, NEW x \in PC \ Holding,
         f[w] \in Holding
  PROVE  /\ Cardinality(Held(Set(f, w, x))) = Cardinality(Held(f)) - 1
         /\ Cardinality(Held(f)) > 0
<1>1. Held(Set(f, w, x)) = Held(f) \ {w}
  BY DEF Held, Set
<1>2. w \in Held(f)
  BY DEF Held
<1>3. Cardinality(Held(f)) # 0
  BY <1>2, HeldFinite, FS_EmptySet
<1>4. Cardinality(Held(f) \ {w}) = Cardinality(Held(f)) - 1
  BY <1>2, HeldFinite, FS_RemoveElement
<1>5. Cardinality(Held(f)) > 0
  BY <1>3, HeldFinite
<1>6. QED
  BY <1>1, <1>4, <1>5

\* SlotsAccounted, restated with Held.
LEMMA SlotsHeld == SlotsAccounted <=> /\ slots = Cardinality(Held(pc))
                                     /\ slots <= MaxConcurrentHandlers
BY DEF SlotsAccounted, Held

-----------------------------------------------------------------------------
(* Steps of a worker that holds a slot.  HoldStep is what they have in     *)
(* common; the invariant is shown to survive it once.                      *)

InHand == {"handle", "backoff", "record"}

HoldFrame == UNCHANGED <<owner, fenced, loopVars, groupVars, part, queue, lo,
                         hi, quit, abandoned, stop>>

\* It goes on with a record of its batch.
GoesOn(w) ==
  /\ pc[w] \in InHand
  /\ \E x \in InHand : /\ pc' = Set(pc, w, x)
                       /\ x = "backoff" => tries'[w] < MaxTries
  /\ at'[w] < hi[w]
  /\ UNCHANGED <<slots, cancelled, doomed>>

\* It ends the batch with a prefix to commit.
GoesToCommit(w) ==
  /\ pc' = Set(pc, w, "checked")
  /\ w \in doomed' \/ Stopped(w) \/ at'[w] = hi[w]
  /\ \A v \in Workers \ {w} : v \in doomed' <=> v \in doomed
  /\ UNCHANGED <<slots, cancelled>>

Sends(w) ==
  /\ pc[w] = "checked"
  /\ pc' = Set(pc, w, "sent")
  /\ UNCHANGED <<at, slots, cancelled, doomed>>

\* It gives the slot back and takes another batch, or exits.
GoesIdle(w) ==
  /\ pc' = Set(pc, w, "idle")
  /\ slots' = slots - 1
  /\ Stopped(w) \/ at'[w] = hi[w]
  /\ UNCHANGED <<cancelled, doomed>>

GoesAway(w) ==
  /\ pc' = Set(pc, w, "exited")
  /\ slots' = slots - 1
  /\ cancelled' = cancelled \cup {w}
  /\ UNCHANGED doomed

HoldStep(w) ==
  /\ HoldFrame
  /\ pc[w] \in Holding
  /\ \/ committed' = committed
     \/ pc[w] = "sent" /\ committed' = [committed EXCEPT ![part[w]] = at[w]]
  /\ \/ finished' = finished /\ at' = at
     \/ /\ pc[w] \in {"handle", "record"}
        /\ finished' = finished \cup {<<part[w], at[w]>>}
        /\ at' = Set(at, w, at[w] + 1)
  /\ GoesOn(w) \/ GoesToCommit(w) \/ Sends(w) \/ GoesIdle(w) \/ GoesAway(w)
  /\ faults' \in 0..MaxFaults
  /\ fatal' \in BOOLEAN
  /\ tries' \in [Workers -> 0..MaxTries]
  /\ \A v \in Workers \ {w} : tries'[v] = tries[v]
  /\ doomed' \in SUBSET Workers
  /\ fresh' \in SUBSET Workers

\* A step of a slot holder keeps the slot count right.
LEMMA HoldSlots ==
  ASSUME TypeOK, SlotsAccounted, NEW w \in Workers, HoldStep(w)
  PROVE  SlotsAccounted' /\ slots' \in 0..MaxConcurrentHandlers
<1>1. pc \in [Workers -> PC] /\ slots \in 0..MaxConcurrentHandlers /\ pc[w] \in Holding
  BY DEF TypeOK, HoldStep
<1>2. slots = Cardinality(Held(pc)) /\ slots <= MaxConcurrentHandlers
  BY SlotsHeld
<1>3. SUFFICES slots' = Cardinality(Held(pc')) /\ slots' \in 0..MaxConcurrentHandlers
  BY ConsumerAssumption DEF SlotsAccounted, Held, ConsumerAssumption
<1>4. CASE GoesOn(w) \/ GoesToCommit(w) \/ Sends(w)
  <2>1. slots' = slots /\ \E x \in Holding : pc' = Set(pc, w, x)
    BY <1>4 DEF GoesOn, GoesToCommit, Sends, Holding, InHand
  <2>2. Held(pc') = Held(pc)
    BY <2>1, <1>1, HeldSame DEF PC
  <2>3. QED
    BY <1>1, <1>2, <2>1, <2>2
<1>5. CASE GoesIdle(w) \/ GoesAway(w)
  <2>1. slots' = slots - 1 /\ \E x \in {"idle", "exited"} : pc' = Set(pc, w, x)
    BY <1>5 DEF GoesIdle, GoesAway
  <2>2. {"idle", "exited"} \subseteq PC \ Holding
    BY DEF PC, Holding
  <2>3. /\ Cardinality(Held(pc')) = Cardinality(Held(pc)) - 1
        /\ Cardinality(Held(pc)) > 0
    BY <1>1, <2>1, <2>2, HeldFewer
  <2>4. QED
    BY <1>1, <1>2, <2>1, <2>3, ConsumerAssumption DEF ConsumerAssumption
<1>6. QED
  BY <1>4, <1>5 DEF HoldStep

\* A step of a slot holder keeps the types.
LEMMA HoldType ==
  ASSUME TypeOK, SlotsAccounted, BatchBounds, NEW w \in Workers, HoldStep(w)
  PROVE  TypeOK'
<1>1. slots' \in 0..MaxConcurrentHandlers
  BY HoldSlots
<1>2. \E x \in PC : pc' = Set(pc, w, x)
  BY DEF HoldStep, GoesOn, GoesToCommit, Sends, GoesIdle, GoesAway, InHand, PC, Holding
<1>3. pc' \in [Workers -> PC]
  BY <1>2 DEF TypeOK, Set
<1>4. committed' \in [Partitions -> Offsets]
  BY DEF HoldStep, TypeOK
<1>5. at' \in [Workers -> Offsets] /\ finished' \in SUBSET (Partitions \X Offsets)
  <2>1. CASE at' = at /\ finished' = finished
    BY <2>1 DEF TypeOK
  <2>2. CASE /\ pc[w] \in {"handle", "record"}
             /\ finished' = finished \cup {<<part[w], at[w]>>}
             /\ at' = Set(at, w, at[w] + 1)
    <3>1. at[w] \in Offsets /\ hi[w] \in Offsets /\ at[w] < hi[w] /\ part[w] \in Partitions
      BY <2>2 DEF TypeOK, BatchBounds
    <3>2. at[w] + 1 \in Offsets
      BY <3>1, ConsumerAssumption DEF ConsumerAssumption, Offsets
    <3>3. QED
      BY <2>2, <3>1, <3>2 DEF TypeOK, Set
  <2>3. QED
    BY <2>1, <2>2 DEF HoldStep
<1>6. cancelled' \in SUBSET Workers
  BY DEF HoldStep, GoesOn, GoesToCommit, Sends, GoesIdle, GoesAway, TypeOK
<1>7. QED
  BY <1>1, <1>3, <1>4, <1>5, <1>6 DEF HoldStep, HoldFrame, loopVars, groupVars, TypeOK

\* A step of a slot holder keeps its position inside its batch.
LEMMA HoldBatch ==
  ASSUME TypeOK, BatchBounds, NEW w \in Workers, HoldStep(w)
  PROVE  BatchBounds'
<1>1. SUFFICES ASSUME NEW v \in Workers
               PROVE  /\ pc'[v] \in InHand => lo'[v] <= at'[v] /\ at'[v] < hi'[v]
                      /\ pc'[v] = "backoff" => tries'[v] < MaxTries
                      /\ pc'[v] = "slot" => at'[v] = lo'[v] /\ lo'[v] < hi'[v]
                      /\ \A i \in DOMAIN queue'[v] : queue'[v][i].lo < queue'[v][i].hi
  BY DEF BatchBounds, InHand
<1>2. lo' = lo /\ hi' = hi /\ queue' = queue
  BY DEF HoldStep, HoldFrame
<1>3. \E x \in PC : pc' = Set(pc, w, x)
  BY DEF HoldStep, GoesOn, GoesToCommit, Sends, GoesIdle, GoesAway, InHand, PC, Holding
<1>4. CASE v # w
  <2>1. pc'[v] = pc[v] /\ at'[v] = at[v] /\ tries'[v] = tries[v]
    BY <1>3, <1>4 DEF HoldStep, TypeOK, Set
  <2>2. QED
    BY <1>2, <2>1 DEF BatchBounds, InHand
<1>5. CASE v = w
  <2>1. CASE GoesOn(w)
    <3>1. \E x \in InHand : pc'[w] = x /\ (x = "backoff" => tries'[w] < MaxTries)
      BY <2>1 DEF GoesOn, Set, TypeOK
    <3>2. at'[w] < hi[w] /\ pc[w] \in InHand
      BY <2>1 DEF GoesOn
    <3>3. lo[w] \in Nat /\ at[w] \in Nat /\ (at'[w] = at[w] \/ at'[w] = at[w] + 1)
      <4>1. at \in [Workers -> Offsets] /\ lo \in [Workers -> Offsets]
        BY DEF TypeOK
      <4>2. lo[w] \in Nat /\ at[w] \in Nat
        BY <4>1, ConsumerAssumption DEF ConsumerAssumption, Offsets
      <4>3. at' = at \/ at' = Set(at, w, at[w] + 1)
        BY DEF HoldStep
      <4>4. at'[w] = at[w] \/ at'[w] = at[w] + 1
        BY <4>1, <4>3 DEF Set
      <4>5. QED
        BY <4>2, <4>4
    <3>4. lo[w] <= at'[w]
      BY <3>2, <3>3 DEF BatchBounds, InHand
    <3>5. QED
      BY <1>2, <1>5, <3>1, <3>2, <3>4 DEF BatchBounds, InHand
  <2>2. CASE ~GoesOn(w)
    <3>1. pc'[w] \in {"checked", "sent", "idle", "exited"}
      BY <2>2 DEF HoldStep, GoesToCommit, Sends, GoesIdle, GoesAway, Set, TypeOK
    <3>2. QED
      BY <1>2, <1>5, <3>1 DEF BatchBounds, InHand
  <2>3. QED
    BY <2>1, <2>2
<1>6. QED
  BY <1>4, <1>5

\* A step of a slot holder leaves the poll loop alone.
LEMMA HoldLoop ==
  ASSUME LoopInv, NEW w \in Workers, HoldStep(w)
  PROVE  LoopInv'
BY DEF LoopInv, HoldStep, HoldFrame, loopVars, groupVars

\* A step of a slot holder leaves the workers map consistent.
LEMMA HoldMap ==
  ASSUME TypeOK, MapInv, NEW w \in Workers, HoldStep(w)
  PROVE  MapInv'
<1>1. UNCHANGED <<worker, part, assigned, owner, fenced, callback, quit>>
  BY DEF HoldStep, HoldFrame, groupVars
<1>2. cancelled \subseteq cancelled'
  BY DEF HoldStep, GoesOn, GoesToCommit, Sends, GoesIdle, GoesAway
<1>3. \A v \in Workers : pc'[v] # "exited" => pc[v] # "exited"
  <2>1. pc[w] # "exited"
    BY DEF HoldStep, Holding
  <2>2. \E x \in PC : pc' = Set(pc, w, x)
    BY DEF HoldStep, GoesOn, GoesToCommit, Sends, GoesIdle, GoesAway, InHand, PC, Holding
  <2>3. QED
    BY <2>1, <2>2 DEF Set, TypeOK
<1>4. \A v \in Workers : (pc'[v] # "exited" /\ v \notin quit' \cup cancelled') => worker'[part'[v]] = v
  BY <1>1, <1>2, <1>3 DEF MapInv, Stopped
<1>5. QED
  BY <1>1, <1>4 DEF MapInv, Stopped

\* A step of a slot holder finishes records in offset order.
LEMMA HoldOrder ==
  ASSUME TypeOK, HandledInOrder, NEW w \in Workers, HoldStep(w)
  PROVE  /\ HandledInOrder'
         /\ \A o \in 0..(at'[w] - 1) : <<part[w], o>> \in finished'
<1>1. part' = part /\ finished \subseteq finished'
  BY DEF HoldStep, HoldFrame
<1>2. \A o \in 0..(at'[w] - 1) : <<part[w], o>> \in finished'
  <2>1. at[w] \in Nat
    BY DEF TypeOK, Offsets
  <2>2. \A o \in 0..(at[w] - 1) : <<part[w], o>> \in finished'
    BY <1>1 DEF HoldStep, HandledInOrder
  <2>3. at'[w] = at[w] \/ (at'[w] = at[w] + 1 /\ <<part[w], at[w]>> \in finished')
    BY DEF HoldStep, Set, TypeOK
  <2>4. QED
    BY <2>1, <2>2, <2>3
<1>3. ASSUME NEW v \in Workers \ {w}
      PROVE  (pc'[v] \in Holding => pc[v] \in Holding) /\ at'[v] = at[v]
  <2>1. \E x \in PC : pc' = Set(pc, w, x)
    BY DEF HoldStep, GoesOn, GoesToCommit, Sends, GoesIdle, GoesAway, InHand, PC, Holding
  <2>2. QED
    BY <2>1 DEF Set, TypeOK, HoldStep
<1>4. QED
  BY <1>1, <1>2, <1>3 DEF HandledInOrder

\* A commit of a slot holder covers only finished records.
LEMMA HoldCommitted ==
  ASSUME TypeOK, HandledInOrder, CommittedFinished, NEW w \in Workers, HoldStep(w)
  PROVE  CommittedFinished'
<1>1. finished \subseteq finished'
  BY DEF HoldStep
<1>2. CASE committed' = committed
  BY <1>1, <1>2 DEF CommittedFinished
<1>3. CASE pc[w] = "sent" /\ committed' = [committed EXCEPT ![part[w]] = at[w]]
  <2>1. \A o \in 0..(at[w] - 1) : <<part[w], o>> \in finished
    BY DEF HoldStep, HandledInOrder
  <2>2. part[w] \in Partitions /\ committed \in [Partitions -> Offsets]
    BY DEF TypeOK
  <2>3. QED
    BY <1>1, <1>3, <2>1, <2>2 DEF CommittedFinished
<1>4. QED
  BY <1>2, <1>3 DEF HoldStep

\* A step of a slot holder leaves no gap before the next batch.
LEMMA HoldChain ==
  ASSUME TypeOK, ChainInv, MapInv, HandledInOrder, NEW w \in Workers, HoldStep(w)
  PROVE  ChainInv'
<1>1. SUFFICES ASSUME NEW v \in Workers, pc'[v] # "exited", v \notin quit' \cup cancelled'
               PROVE  /\ Contiguous(v)'
                      /\ run' # "returned" => Continues(v)'
                      /\ (pc'[v] \in {"checked", "sent"} /\ v \notin doomed') => at'[v] = hi'[v]
                      /\ pc'[v] \in {"idle", "slot"} =>
                           \A o \in 0..(at'[v] - 1) : <<part'[v], o>> \in finished'
  BY DEF ChainInv, Stopped
<1>2. UNCHANGED <<run, fetch, part, queue, hi, quit>> /\ finished \subseteq finished'
  BY DEF HoldStep, HoldFrame, loopVars
<1>3. cancelled \subseteq cancelled'
  BY DEF HoldStep, GoesOn, GoesToCommit, Sends, GoesIdle, GoesAway
<1>4. \E x \in PC : pc' = Set(pc, w, x)
  BY DEF HoldStep, GoesOn, GoesToCommit, Sends, GoesIdle, GoesAway, InHand, PC, Holding
<1>5. v \notin quit \cup cancelled
  BY <1>1, <1>2, <1>3
<1>6. CASE v # w
  <2>1. pc'[v] = pc[v] /\ at'[v] = at[v] /\ (v \in doomed' <=> v \in doomed)
    BY <1>4, <1>6 DEF HoldStep, GoesOn, GoesToCommit, Sends, GoesIdle, GoesAway, Set, TypeOK
  <2>2. Tip(v)' = Tip(v)
    BY <1>2, <2>1 DEF Tip
  <2>3. QED
    BY <1>1, <1>2, <1>5, <2>1, <2>2 DEF ChainInv, Stopped, Contiguous, Continues
<1>7. CASE v = w
  <2>1. pc[w] \in Holding /\ pc[w] # "exited" /\ pc[w] # "idle"
    BY DEF HoldStep, Holding
  <2>2. Contiguous(w) /\ (run # "returned" => Continues(w)) /\ Tip(w) = hi[w]
        /\ ((pc[w] \in {"checked", "sent"} /\ w \notin doomed) => at[w] = hi[w])
    BY <1>5, <1>7, <2>1 DEF ChainInv, Stopped, Tip
  <2>3. Tip(w)' = hi[w]
    BY <1>1, <1>2, <1>4, <1>5, <1>7 DEF HoldStep, GoesOn, GoesToCommit, Sends, GoesIdle,
       GoesAway, Set, TypeOK, Tip, InHand, Stopped
  <2>4. (pc'[w] \in {"checked", "sent"} /\ w \notin doomed') => at'[w] = hi'[w]
    BY <1>1, <1>2, <1>5, <1>7, <2>2 DEF HoldStep, GoesOn, GoesToCommit, Sends, GoesIdle,
       GoesAway, Set, TypeOK, InHand, Stopped
  <2>5. \A o \in 0..(at'[w] - 1) : <<part[w], o>> \in finished'
    BY HoldOrder
  <2>6. QED
    BY <1>2, <1>7, <2>2, <2>3, <2>4, <2>5 DEF Contiguous, Continues
<1>8. QED
  BY <1>6, <1>7

-----------------------------------------------------------------------------
(* Every step of a worker with a slot is a HoldStep.                       *)

\* The prefix recs[:n] ends the batch: nothing is left of it, or the worker
\* was stopped, or it reports a fatal error.
LEMMA CommitEnds ==
  ASSUME TypeOK, NEW w \in Workers, NEW n, NEW doom \in BOOLEAN,
         Commit(w, n, doom), doom \/ Stopped(w) \/ n = hi[w]
  PROVE  /\ at' = Set(at, w, n)
         /\ fatal' \in BOOLEAN
         /\ doomed' \in SUBSET Workers
         /\ GoesToCommit(w) \/ GoesIdle(w) \/ GoesAway(w)
<1>1. at' = Set(at, w, n) /\ at'[w] = n
  BY DEF Commit, Set, TypeOK
<1>2. CASE n = lo[w] \/ w \in abandoned
  <2>1. Leave(w, doom) /\ doomed' = doomed
    BY <1>2 DEF Commit
  <2>2. CASE doom
    BY <1>1, <2>1, <2>2 DEF Leave, GoesAway, TypeOK
  <2>3. CASE ~doom
    BY <1>1, <2>1, <2>3 DEF Leave, GoesIdle, TypeOK
  <2>4. QED
    BY <2>2, <2>3
<1>3. CASE ~(n = lo[w] \/ w \in abandoned)
  <2>1. /\ pc' = Set(pc, w, "checked")
        /\ doomed' = Mark(doomed, w, doom)
        /\ UNCHANGED <<slots, cancelled, fatal>>
    BY <1>3 DEF Commit
  <2>2. GoesToCommit(w)
    BY <1>1, <2>1 DEF GoesToCommit, Mark
  <2>3. QED
    BY <1>1, <2>1, <2>2 DEF Mark, TypeOK
<1>4. QED
  BY <1>2, <1>3

\* Finishing the record in hand is a HoldStep.
LEMMA FinishHolds ==
  ASSUME TypeOK, BatchBounds, NEW w \in Workers, pc[w] \in {"handle", "record"},
         Finish(w), WorkerFrame, UNCHANGED <<committed, faults>>
  PROVE  HoldStep(w)
<1>1. HoldFrame /\ fresh' = fresh
  BY DEF WorkerFrame, HoldFrame
<1>2. at[w] \in Nat /\ hi[w] \in Nat /\ at[w] < hi[w]
  BY DEF TypeOK, BatchBounds, Offsets
<1>3. finished' = finished \cup {<<part[w], at[w]>>}
  BY DEF Finish
<1>4. /\ tries' \in [Workers -> 0..MaxTries]
      /\ \A v \in Workers \ {w} : tries'[v] = tries[v]
  <2>1. tries' = tries \/ tries' = Set(tries, w, 1)
    BY DEF Finish
  <2>2. MaxTries \in Nat /\ MaxTries > 0
    BY ConsumerAssumption DEF ConsumerAssumption
  <2>3. tries \in [Workers -> 0..MaxTries]
    BY DEF TypeOK
  <2>4. QED
    BY <2>1, <2>2, <2>3 DEF Set
<1>5. /\ at' = Set(at, w, at[w] + 1)
      /\ fatal' \in BOOLEAN
      /\ doomed' \in SUBSET Workers
      /\ GoesOn(w) \/ GoesToCommit(w) \/ GoesIdle(w) \/ GoesAway(w)
  <2>1. CASE at[w] + 1 < hi[w] /\ ~Stopped(w)
    <3>1. /\ at' = Set(at, w, at[w] + 1)
          /\ pc' = Set(pc, w, "handle")
          /\ UNCHANGED <<slots, cancelled, fatal, doomed>>
      BY <2>1 DEF Finish
    <3>2. GoesOn(w)
      BY <2>1, <3>1 DEF GoesOn, InHand, Set, TypeOK
    <3>3. QED
      BY <3>1, <3>2 DEF TypeOK
  <2>2. CASE ~(at[w] + 1 < hi[w] /\ ~Stopped(w))
    <3>1. Commit(w, at[w] + 1, FALSE)
      BY <2>2 DEF Finish
    <3>2. Stopped(w) \/ at[w] + 1 = hi[w]
      BY <1>2, <2>2
    <3>3. QED
      BY <3>1, <3>2, CommitEnds
  <2>3. QED
    BY <2>1, <2>2
<1>6. QED
  BY <1>1, <1>3, <1>4, <1>5 DEF HoldStep, Holding, TypeOK

\* A step that only ends the batch, at the record in hand.
LEMMA EndHolds ==
  ASSUME TypeOK, NEW w \in Workers, pc[w] \in Holding, NEW doom \in BOOLEAN,
         Commit(w, at[w], doom), doom \/ Stopped(w),
         WorkerFrame, UNCHANGED <<committed, finished, tries>>,
         faults' \in 0..MaxFaults
  PROVE  HoldStep(w)
<1>1. HoldFrame /\ fresh' = fresh
  BY DEF WorkerFrame, HoldFrame
<1>2. /\ at' = Set(at, w, at[w])
      /\ fatal' \in BOOLEAN
      /\ doomed' \in SUBSET Workers
      /\ GoesToCommit(w) \/ GoesIdle(w) \/ GoesAway(w)
  BY CommitEnds
<1>3. at' = at
  BY <1>2 DEF Set, TypeOK
<1>4. QED
  BY <1>1, <1>2, <1>3 DEF HoldStep, TypeOK

\* A step that goes on with the record in hand.
LEMMA OnHolds ==
  ASSUME TypeOK, BatchBounds, NEW w \in Workers, pc[w] \in InHand,
         NEW x \in InHand, pc' = Set(pc, w, x),
         x = "backoff" => tries'[w] < MaxTries,
         WorkerFrame, UNCHANGED <<committed, finished, faults, fatal, slots,
                                  cancelled, at, doomed>>,
         tries' \in [Workers -> 0..MaxTries],
         \A v \in Workers \ {w} : tries'[v] = tries[v]
  PROVE  HoldStep(w)
<1>1. HoldFrame /\ fresh' = fresh
  BY DEF WorkerFrame, HoldFrame
<1>2. GoesOn(w)
  BY DEF GoesOn, BatchBounds, InHand
<1>3. QED
  BY <1>1, <1>2 DEF HoldStep, TypeOK, InHand, Holding

\* A fault uses up one of the bounded faults.
LEMMA FaultType ==
  ASSUME TypeOK, Fault
  PROVE  faults' \in 0..MaxFaults
<1>1. faults \in 0..MaxFaults /\ faults > 0 /\ faults' = faults - 1
  BY DEF Fault, TypeOK
<1>2. QED
  BY <1>1, ConsumerAssumption DEF ConsumerAssumption

\* The steps taken by a worker that holds a slot.
SlotStep(w) ==
  \/ HandlerOk(w) \/ HandlerPermanent(w) \/ HandlerTransient(w)
  \/ HandlerMissing(w) \/ BackoffElapsed(w) \/ BackoffInterrupted(w)
  \/ RecordOk(w) \/ RecordError(w)
  \/ SendCommit(w) \/ CommitReturns(w) \/ WorkerPanic(w)

\* Every action of a slot holder is a HoldStep.
LEMMA SlotStepHolds ==
  ASSUME TypeOK, BatchBounds, ChainInv, NEW w \in Workers, SlotStep(w)
  PROVE  HoldStep(w)
<1>1. CASE HandlerOk(w)
  BY <1>1, FinishHolds DEF HandlerOk
<1>2. CASE RecordOk(w)
  BY <1>2, FinishHolds DEF RecordOk
<1>3. tries \in [Workers -> 0..MaxTries] /\ faults \in 0..MaxFaults
  BY DEF TypeOK
<1>4. ASSUME pc[w] = "handle", Fail(w), WorkerFrame,
             UNCHANGED <<committed, finished, faults, tries>>
      PROVE  HoldStep(w)
  <2>1. CASE Stopped(w)
    <3>1. Commit(w, at[w], FALSE)
      BY <1>4, <2>1 DEF Fail
    <3>2. QED
      BY <1>3, <1>4, <2>1, <3>1, EndHolds DEF Holding
  <2>2. CASE ~Stopped(w)
    <3>1. pc' = Set(pc, w, "record") /\ UNCHANGED <<at, slots, cancelled, fatal, doomed>>
      BY <1>4, <2>2 DEF Fail
    <3>2. QED
      BY <1>3, <1>4, <3>1, OnHolds DEF InHand
  <2>3. QED
    BY <2>1, <2>2
<1>5. CASE HandlerPermanent(w)
  BY <1>4, <1>5 DEF HandlerPermanent
<1>6. CASE HandlerTransient(w)
  <2>1. CASE tries[w] < MaxTries /\ ~Stopped(w)
    <3>1. pc' = Set(pc, w, "backoff") /\ UNCHANGED <<at, slots, cancelled, fatal, doomed>>
      BY <1>6, <2>1 DEF HandlerTransient
    <3>2. /\ pc[w] = "handle" /\ WorkerFrame
          /\ UNCHANGED <<committed, finished, faults, tries>>
      BY <1>6 DEF HandlerTransient
    <3>3. QED
      BY <1>3, <2>1, <3>1, <3>2, OnHolds DEF InHand
  <2>2. CASE ~(tries[w] < MaxTries /\ ~Stopped(w))
    BY <1>4, <1>6, <2>2 DEF HandlerTransient
  <2>3. QED
    BY <2>1, <2>2
<1>7. CASE HandlerMissing(w)
  <2>1. faults' \in 0..MaxFaults
    BY <1>7, FaultType DEF HandlerMissing
  <2>2. (~Stopped(w)) \in BOOLEAN /\ (~Stopped(w) \/ Stopped(w))
    OBVIOUS
  <2>3. QED
    BY <1>7, <2>1, <2>2, EndHolds DEF HandlerMissing, Holding
<1>8. CASE BackoffElapsed(w)
  <2>1. /\ pc[w] = "backoff" /\ pc' = Set(pc, w, "handle") /\ WorkerFrame
        /\ UNCHANGED <<committed, finished, faults, fatal, slots, cancelled, at, doomed>>
        /\ tries' = Set(tries, w, tries[w] + 1)
    BY <1>8 DEF BackoffElapsed
  <2>2. tries[w] \in Nat /\ tries[w] < MaxTries /\ MaxTries \in Nat
    BY <1>3, <2>1, ConsumerAssumption DEF BatchBounds, ConsumerAssumption
  <2>3. /\ tries' \in [Workers -> 0..MaxTries]
        /\ \A v \in Workers \ {w} : tries'[v] = tries[v]
    BY <1>3, <2>1, <2>2 DEF Set
  <2>4. QED
    BY <2>1, <2>3, OnHolds DEF InHand
<1>9. CASE BackoffInterrupted(w)
  BY <1>3, <1>9, EndHolds DEF BackoffInterrupted, Holding
<1>10. CASE RecordError(w)
  <2>1. faults' \in 0..MaxFaults
    BY <1>3, <1>10, FaultType DEF RecordError
  <2>2. (w \notin cancelled) \in BOOLEAN /\ (w \notin cancelled \/ Stopped(w))
    BY DEF Stopped
  <2>3. QED
    BY <1>10, <2>1, <2>2, EndHolds DEF RecordError, Holding
<1>11. CASE SendCommit(w)
  <2>1. Sends(w) /\ HoldFrame
    BY <1>11 DEF SendCommit, Sends, HoldFrame, batchVars, stopVars, brokerVars
  <2>2. fresh' \in SUBSET Workers
    BY <1>11 DEF SendCommit, TypeOK
  <2>3. pc[w] \in Holding /\ UNCHANGED <<committed, finished, at, tries, faults, fatal, doomed>>
    BY <1>11 DEF SendCommit, Holding, batchVars, brokerVars
  <2>4. QED
    BY <2>1, <2>2, <2>3 DEF HoldStep, TypeOK
<1>12. ASSUME pc[w] \in Holding, NEW doom \in BOOLEAN, Leave(w, doom),
              doom \/ Stopped(w) \/ at[w] = hi[w],
              \/ committed' = committed
              \/ pc[w] = "sent" /\ committed' = [committed EXCEPT ![part[w]] = at[w]],
              WorkerFrame, UNCHANGED <<finished, at, tries, doomed>>,
              faults' \in 0..MaxFaults
       PROVE  HoldStep(w)
  <2>1. HoldFrame /\ fresh' = fresh
    BY <1>12 DEF WorkerFrame, HoldFrame
  <2>2. GoesIdle(w) \/ GoesAway(w)
    <3>1. CASE doom
      BY <1>12, <3>1 DEF Leave, GoesAway
    <3>2. CASE ~doom
      BY <1>12, <3>2 DEF Leave, GoesIdle, TypeOK
    <3>3. QED
      BY <3>1, <3>2
  <2>3. fatal' \in BOOLEAN
    BY <1>12 DEF Leave, TypeOK
  <2>4. QED
    BY <1>12, <2>1, <2>2, <2>3 DEF HoldStep, TypeOK
<1>13. CASE CommitReturns(w)
  <2>1. pc[w] = "sent" /\ Leave(w, w \in doomed) /\ WorkerFrame
        /\ UNCHANGED <<finished, faults, at, tries, doomed>>
        /\ (committed' = committed \/ committed' = [committed EXCEPT ![part[w]] = at[w]])
    BY <1>13 DEF CommitReturns
  <2>2. w \in doomed \/ Stopped(w) \/ at[w] = hi[w]
    BY <2>1 DEF ChainInv
  <2>3. (w \in doomed) \in BOOLEAN /\ faults' \in 0..MaxFaults
    BY <1>3, <2>1
  <2>4. QED
    BY <1>12, <2>1, <2>2, <2>3 DEF Holding
<1>14. CASE WorkerPanic(w)
  <2>1. faults' \in 0..MaxFaults
    BY <1>14, FaultType DEF WorkerPanic
  <2>2. QED
    BY <1>12, <1>14, <2>1 DEF WorkerPanic, Holding
<1>15. QED
  BY <1>1, <1>2, <1>5, <1>6, <1>7, <1>8, <1>9, <1>10, <1>11, <1>13, <1>14 DEF SlotStep

\* Every action of a slot holder preserves the invariant.
LEMMA SlotStepInv ==
  ASSUME IInv, NEW w \in Workers, SlotStep(w)
  PROVE  IInv'
<1>1. HoldStep(w)
  BY SlotStepHolds DEF IInv
<1>2. QED
  BY <1>1, HoldType, HoldSlots, HoldBatch, HoldLoop, HoldMap, HoldChain, HoldOrder,
     HoldCommitted DEF IInv

-----------------------------------------------------------------------------
(* Steps of a worker without a slot.                                       *)

\* Taking a batch off the queue preserves the invariant.
LEMMA ReceiveInv ==
  ASSUME IInv, NEW w \in Workers, Receive(w)
  PROVE  IInv'
<1> DEFINE b == Head(queue[w])
<1>1. /\ pc[w] = "idle" /\ w \notin quit /\ queue[w] # <<>>
      /\ queue' = Set(queue, w, Tail(queue[w]))
      /\ lo' = Set(lo, w, b.lo) /\ hi' = Set(hi, w, b.hi) /\ at' = Set(at, w, b.lo)
      /\ pc' = Set(pc, w, "slot")
      /\ UNCHANGED <<brokerVars, faults, loopVars, fatal, groupVars, slots, part,
                     tries, stopVars, doomed, fresh>>
  BY DEF Receive
<1>2. queue[w] \in Seq(Batch) /\ b \in Batch /\ b = queue[w][1] /\ Tail(queue[w]) \in Seq(Batch)
      /\ b.lo < b.hi /\ 1 \in DOMAIN queue[w]
  BY <1>1 DEF IInv, TypeOK, BatchBounds
<1>3. b.lo \in Offsets /\ b.hi \in Offsets
  BY <1>2 DEF Batch
<1>4. TypeOK'
  <2>1. queue' \in [Workers -> Seq(Batch)]
    BY <1>1, <1>2 DEF IInv, TypeOK, Set
  <2>2. lo' \in [Workers -> Offsets] /\ hi' \in [Workers -> Offsets] /\ at' \in [Workers -> Offsets]
    BY <1>1, <1>3 DEF IInv, TypeOK, Set
  <2>3. pc' \in [Workers -> PC]
    BY <1>1 DEF IInv, TypeOK, Set, PC
  <2>4. QED
    BY <1>1, <2>1, <2>2, <2>3 DEF IInv, TypeOK, brokerVars, loopVars, groupVars, stopVars
<1>5. SlotsAccounted'
  <2>1. Held(pc') = Held(pc)
    BY <1>1, HeldSame DEF IInv, TypeOK, PC, Holding
  <2>2. QED
    BY <1>1, <2>1 DEF IInv, SlotsAccounted, Held
<1>6. BatchBounds'
  <2>1. SUFFICES ASSUME NEW v \in Workers
                 PROVE  /\ pc'[v] \in {"handle", "backoff", "record"} =>
                             lo'[v] <= at'[v] /\ at'[v] < hi'[v]
                        /\ pc'[v] = "backoff" => tries'[v] < MaxTries
                        /\ pc'[v] = "slot" => at'[v] = lo'[v] /\ lo'[v] < hi'[v]
                        /\ \A i \in DOMAIN queue'[v] : queue'[v][i].lo < queue'[v][i].hi
    BY DEF BatchBounds
  <2>2. CASE v # w
    BY <1>1, <2>2 DEF IInv, TypeOK, BatchBounds, Set
  <2>3. CASE v = w
    <3>1. pc'[w] = "slot" /\ at'[w] = lo'[w] /\ lo'[w] < hi'[w] /\ queue'[w] = Tail(queue[w])
      BY <1>1, <1>2 DEF IInv, TypeOK, Set
    <3>2. ASSUME NEW i \in DOMAIN Tail(queue[w])
          PROVE  Tail(queue[w])[i].lo < Tail(queue[w])[i].hi
      <4>1. i + 1 \in DOMAIN queue[w] /\ Tail(queue[w])[i] = queue[w][i + 1]
        BY <1>1, <1>2, <3>2
      <4>2. QED
        BY <4>1 DEF IInv, BatchBounds
    <3>3. QED
      BY <2>3, <3>1, <3>2
  <2>4. QED
    BY <2>2, <2>3
<1>7. LoopInv'
  BY <1>1 DEF IInv, LoopInv, loopVars, groupVars
<1>8. MapInv'
  <2>1. UNCHANGED <<worker, part, assigned, owner, fenced, callback, quit, cancelled>>
    BY <1>1 DEF groupVars, brokerVars, stopVars
  <2>2. \A v \in Workers : pc'[v] # "exited" => pc[v] # "exited"
    BY <1>1 DEF IInv, TypeOK, Set
  <2>3. QED
    BY <2>1, <2>2 DEF IInv, MapInv, Stopped
<1>9. ChainInv'
  <2>1. SUFFICES ASSUME NEW v \in Workers, pc'[v] # "exited", v \notin quit' \cup cancelled'
                 PROVE  /\ Contiguous(v)'
                        /\ run' # "returned" => Continues(v)'
                        /\ (pc'[v] \in {"checked", "sent"} /\ v \notin doomed') => at'[v] = hi'[v]
                        /\ pc'[v] \in {"idle", "slot"} =>
                             \A o \in 0..(at'[v] - 1) : <<part'[v], o>> \in finished'
    BY DEF ChainInv, Stopped
  <2>2. UNCHANGED <<run, fetch, part, finished, quit, cancelled, doomed>>
    BY <1>1 DEF brokerVars, loopVars, stopVars
  <2>3. CASE v # w
    <3>1. pc'[v] = pc[v] /\ at'[v] = at[v] /\ hi'[v] = hi[v] /\ queue'[v] = queue[v]
      BY <1>1, <2>3 DEF IInv, TypeOK, Set
    <3>2. QED
      BY <2>1, <2>2, <3>1 DEF IInv, ChainInv, Stopped, Contiguous, Continues, Tip
  <2>4. CASE v = w
    <3>1. /\ pc'[w] = "slot" /\ at'[w] = b.lo /\ hi'[w] = b.hi /\ queue'[w] = Tail(queue[w])
      BY <1>1 DEF IInv, TypeOK, Set
    <3>2. /\ Contiguous(w) /\ (run # "returned" => Continues(w)) /\ Tip(w) = at[w]
          /\ \A o \in 0..(at[w] - 1) : <<part[w], o>> \in finished
      BY <1>1, <2>1, <2>2, <2>4 DEF IInv, ChainInv, Stopped, Tip
    <3>3. b.lo = at[w]
      BY <1>1, <1>2, <3>2 DEF Contiguous
    <3>4. Tip(w)' = b.hi
      BY <3>1 DEF Tip
    <3>5. Contiguous(w)'
      <4>1. Tail(queue[w]) # <<>> => Tail(queue[w])[1].lo = b.hi
        <5>1. HAVE Tail(queue[w]) # <<>>
        <5>2. 2 \in DOMAIN queue[w] /\ Tail(queue[w])[1] = queue[w][2]
          BY <1>1, <1>2, <5>1
        <5>3. queue[w][1].hi = queue[w][1 + 1].lo
          BY <1>2, <3>2, <5>2 DEF Contiguous
        <5>4. QED
          BY <1>2, <5>2, <5>3
      <4>2. ASSUME NEW i \in DOMAIN Tail(queue[w]), i + 1 \in DOMAIN Tail(queue[w])
            PROVE  Tail(queue[w])[i].hi = Tail(queue[w])[i + 1].lo
        <5>1. /\ i + 1 \in DOMAIN queue[w] /\ (i + 1) + 1 \in DOMAIN queue[w]
              /\ Tail(queue[w])[i] = queue[w][i + 1]
              /\ Tail(queue[w])[i + 1] = queue[w][(i + 1) + 1]
          BY <1>1, <1>2, <4>2
        <5>2. QED
          BY <3>2, <5>1 DEF Contiguous
      <4>3. QED
        BY <3>1, <3>4, <4>1, <4>2 DEF Contiguous
    <3>6. run' # "returned" => Continues(w)'
      <4>1. HAVE run' # "returned"
      <4>2. fetch[part[w]].lo = queue[w][Len(queue[w])].hi
        BY <1>1, <2>2, <3>2, <4>1 DEF Continues
      <4>3. CASE Tail(queue[w]) = <<>>
        <5>1. Len(queue[w]) = 1
          <6>1. Len(Tail(queue[w])) = 0
            BY <1>2, <4>3, EmptySeq
          <6>2. Len(queue[w]) \in Nat /\ Len(queue[w]) # 0
            BY <1>1, <1>2
          <6>3. Len(Tail(queue[w])) = Len(queue[w]) - 1
            BY <1>1, <1>2
          <6>4. QED
            BY <6>1, <6>2, <6>3
        <5>2. QED
          BY <1>2, <2>2, <3>1, <3>4, <4>2, <4>3, <5>1 DEF Continues
      <4>4. CASE Tail(queue[w]) # <<>>
        <5>1. Tail(queue[w])[Len(Tail(queue[w]))] = queue[w][Len(queue[w])]
          BY <1>1, <1>2, <4>4
        <5>2. QED
          BY <2>2, <3>1, <4>2, <4>4, <5>1 DEF Continues
      <4>5. QED
        BY <4>3, <4>4
    <3>7. QED
      BY <2>2, <2>4, <3>1, <3>2, <3>3, <3>5, <3>6
  <2>5. QED
    BY <2>3, <2>4
<1>10. HandledInOrder' /\ CommittedFinished'
  <2>1. UNCHANGED <<committed, finished, part>>
    BY <1>1 DEF brokerVars
  <2>2. \A v \in Workers : pc'[v] \in Holding => pc[v] \in Holding /\ at'[v] = at[v]
    BY <1>1 DEF IInv, TypeOK, Set, Holding
  <2>3. QED
    BY <2>1, <2>2 DEF IInv, HandledInOrder, CommittedFinished
<1>11. QED
  BY <1>4, <1>5, <1>6, <1>7, <1>8, <1>9, <1>10 DEF IInv

\* Leaving the run loop preserves the invariant.
LEMMA ExitInv ==
  ASSUME IInv, NEW w \in Workers, Exit(w)
  PROVE  IInv'
<1>1. /\ pc[w] = "idle"
      /\ pc' = Set(pc, w, "exited")
      /\ cancelled' = cancelled \cup {w}
      /\ WorkerFrame
      /\ UNCHANGED <<committed, finished, faults, fatal, slots, at, tries, doomed>>
  BY DEF Exit
<1>2. pc' \in [Workers -> PC] /\ \A v \in Workers : v # w => pc'[v] = pc[v]
  BY <1>1 DEF IInv, TypeOK, Set, PC
<1>3. pc'[w] = "exited"
  BY <1>1 DEF IInv, TypeOK, Set
<1>4. TypeOK'
  BY <1>1, <1>2 DEF IInv, TypeOK, WorkerFrame, loopVars, groupVars
<1>5. SlotsAccounted'
  <2>1. Held(pc') = Held(pc)
    BY <1>1, HeldSame DEF IInv, TypeOK, PC, Holding
  <2>2. QED
    BY <1>1, <2>1 DEF IInv, SlotsAccounted, Held
<1>6. BatchBounds'
  BY <1>1, <1>2, <1>3 DEF IInv, BatchBounds, WorkerFrame
<1>7. LoopInv'
  BY <1>1 DEF IInv, LoopInv, WorkerFrame, loopVars, groupVars
<1>8. MapInv'
  BY <1>1, <1>2, <1>3 DEF IInv, MapInv, Stopped, WorkerFrame, groupVars
<1>9. ChainInv'
  BY <1>1, <1>2, <1>3 DEF IInv, ChainInv, Stopped, Contiguous, Continues, Tip,
     WorkerFrame, loopVars
<1>10. HandledInOrder' /\ CommittedFinished'
  BY <1>1, <1>2, <1>3 DEF IInv, HandledInOrder, CommittedFinished, WorkerFrame, Holding
<1>11. QED
  BY <1>4, <1>5, <1>6, <1>7, <1>8, <1>9, <1>10 DEF IInv

\* Taking a slot preserves the invariant.
LEMMA AcquireSlotInv ==
  ASSUME IInv, NEW w \in Workers, AcquireSlot(w)
  PROVE  IInv'
<1>1. /\ pc[w] = "slot"
      /\ slots < MaxConcurrentHandlers
      /\ ~Stopped(w)
      /\ slots' = slots + 1
      /\ pc' = Set(pc, w, "handle")
      /\ tries' = Set(tries, w, 1)
      /\ WorkerFrame
      /\ UNCHANGED <<committed, finished, faults, fatal, cancelled, at, doomed>>
  BY DEF AcquireSlot
<1>2. pc' \in [Workers -> PC] /\ \A v \in Workers : v # w => pc'[v] = pc[v]
  BY <1>1 DEF IInv, TypeOK, Set, PC, Holding
<1>3. pc'[w] = "handle"
  BY <1>1 DEF IInv, TypeOK, Set
<1>4. tries' \in [Workers -> 0..MaxTries] /\ \A v \in Workers : v # w => tries'[v] = tries[v]
  <2>1. MaxTries \in Nat /\ MaxTries > 0
    BY ConsumerAssumption DEF ConsumerAssumption
  <2>2. tries \in [Workers -> 0..MaxTries]
    BY DEF IInv, TypeOK
  <2>3. QED
    BY <1>1, <2>1, <2>2 DEF Set
<1>5. SlotsAccounted' /\ slots' \in 0..MaxConcurrentHandlers
  <2>1. Cardinality(Held(pc')) = Cardinality(Held(pc)) + 1
    BY <1>1, HeldMore DEF IInv, TypeOK, Holding
  <2>2. slots = Cardinality(Held(pc)) /\ slots \in 0..MaxConcurrentHandlers
    BY DEF IInv, SlotsAccounted, Held, TypeOK
  <2>3. slots' \in 0..MaxConcurrentHandlers /\ slots' <= MaxConcurrentHandlers
    BY <1>1, <2>2, ConsumerAssumption DEF ConsumerAssumption
  <2>4. QED
    BY <1>1, <2>1, <2>2, <2>3 DEF SlotsAccounted, Held
<1>6. TypeOK'
  BY <1>1, <1>2, <1>4, <1>5 DEF IInv, TypeOK, WorkerFrame, loopVars, groupVars
<1>7. BatchBounds'
  <2>1. lo[w] <= at[w] /\ at[w] < hi[w]
    BY <1>1 DEF IInv, BatchBounds, TypeOK, Offsets
  <2>2. UNCHANGED <<lo, hi, at, queue>>
    BY <1>1 DEF WorkerFrame
  <2>3. QED
    BY <1>2, <1>3, <1>4, <2>1, <2>2 DEF IInv, BatchBounds
<1>8. LoopInv'
  BY <1>1 DEF IInv, LoopInv, WorkerFrame, loopVars, groupVars
<1>9. MapInv'
  BY <1>1, <1>2, <1>3 DEF IInv, MapInv, Stopped, WorkerFrame, groupVars
<1>10. ChainInv'
  BY <1>1, <1>2, <1>3 DEF IInv, ChainInv, Stopped, Contiguous, Continues, Tip,
     WorkerFrame, loopVars
<1>11. HandledInOrder' /\ CommittedFinished'
  <2>1. \A o \in 0..(at[w] - 1) : <<part[w], o>> \in finished
    BY <1>1 DEF IInv, ChainInv
  <2>2. QED
    BY <1>1, <1>2, <1>3, <2>1 DEF IInv, HandledInOrder, CommittedFinished, WorkerFrame
<1>12. QED
  BY <1>5, <1>6, <1>7, <1>8, <1>9, <1>10, <1>11 DEF IInv

\* Dropping a batch on a stop preserves the invariant.
LEMMA DropBatchInv ==
  ASSUME IInv, NEW w \in Workers, DropBatch(w)
  PROVE  IInv'
<1>1. /\ pc[w] = "slot"
      /\ w \in quit \cup cancelled
      /\ pc' = Set(pc, w, "idle")
      /\ WorkerFrame
      /\ UNCHANGED <<committed, finished, faults, fatal, slots, cancelled, at,
                     tries, doomed>>
  BY DEF DropBatch, Stopped
<1>2. pc' \in [Workers -> PC] /\ \A v \in Workers : v # w => pc'[v] = pc[v]
  BY <1>1 DEF IInv, TypeOK, Set, PC
<1>3. pc'[w] = "idle"
  BY <1>1 DEF IInv, TypeOK, Set
<1>4. TypeOK'
  BY <1>1, <1>2 DEF IInv, TypeOK, WorkerFrame, loopVars, groupVars
<1>5. SlotsAccounted'
  <2>1. Held(pc') = Held(pc)
    BY <1>1, HeldSame DEF IInv, TypeOK, PC, Holding
  <2>2. QED
    BY <1>1, <2>1 DEF IInv, SlotsAccounted, Held
<1>6. BatchBounds'
  BY <1>1, <1>2, <1>3 DEF IInv, BatchBounds, WorkerFrame
<1>7. LoopInv'
  BY <1>1 DEF IInv, LoopInv, WorkerFrame, loopVars, groupVars
<1>8. MapInv'
  BY <1>1, <1>2, <1>3 DEF IInv, MapInv, Stopped, WorkerFrame, groupVars
<1>9. ChainInv'
  BY <1>1, <1>2, <1>3 DEF IInv, ChainInv, Stopped, Contiguous, Continues, Tip,
     WorkerFrame, loopVars
<1>10. HandledInOrder' /\ CommittedFinished'
  BY <1>1, <1>2, <1>3 DEF IInv, HandledInOrder, CommittedFinished, WorkerFrame, Holding
<1>11. QED
  BY <1>4, <1>5, <1>6, <1>7, <1>8, <1>9, <1>10 DEF IInv

\* Every step of a worker preserves the invariant.
LEMMA WorkerStepInv ==
  ASSUME IInv, NEW w \in Workers, WorkerStep(w)
  PROVE  IInv'
BY ReceiveInv, ExitInv, AcquireSlotInv, DropBatchInv, SlotStepInv DEF WorkerStep, SlotStep

-----------------------------------------------------------------------------
(* Steps that leave the workers' batches and the poll loop alone: stop,    *)
(* the group callbacks, other members, shutdown and Close.                 *)

\* What a step that moves no worker and no batch preserves.
LEMMA QuietStep ==
  ASSUME IInv, UNCHANGED <<pc, slots, batchVars, run, fetch, target, doomed>>,
         finished \subseteq finished', quit \subseteq quit', cancelled \subseteq cancelled',
         \A p \in Partitions : worker'[p] \in {worker[p], None}
  PROVE  SlotsAccounted' /\ BatchBounds' /\ LoopInv' /\ ChainInv' /\ HandledInOrder'
<1>1. SlotsAccounted' /\ BatchBounds'
  BY DEF IInv, SlotsAccounted, BatchBounds, batchVars
<1>2. LoopInv'
  <2>1. target # None => part[target] \in Partitions
    BY DEF IInv, TypeOK
  <2>2. QED
    BY <2>1 DEF IInv, LoopInv, batchVars
<1>3. ChainInv'
  <2>1. \A w \in Workers : Tip(w)' = Tip(w) /\ Contiguous(w)' = Contiguous(w)
                           /\ Continues(w)' = Continues(w)
    BY DEF Tip, Contiguous, Continues, batchVars
  <2>2. UNCHANGED <<pc, run, at, hi, part, doomed>>
    BY DEF batchVars
  <2>3. QED
    BY <2>1, <2>2 DEF IInv, ChainInv, Stopped
<1>4. HandledInOrder'
  BY DEF IInv, HandledInOrder, batchVars
<1>5. QED
  BY <1>1, <1>2, <1>3, <1>4

\* Every step of a stop call preserves the invariant.
LEMMA StopStepInv ==
  ASSUME IInv, NEW w \in Workers, StopStep(w)
  PROVE  IInv'
<1>1. /\ StopFrame
      /\ \E x \in {"none", "grace"} : stop' = Set(stop, w, x)
      /\ cbWorkers' \in {cbWorkers, cbWorkers \ {w}}
      /\ closeWorkers' \in {closeWorkers, closeWorkers \ {w}}
      /\ cancelled' \in {cancelled, cancelled \cup {w}}
      /\ abandoned' \in {abandoned, abandoned \cup {w}}
  BY DEF StopStep, StopReturns, DrainTimeout, GraceTimeout, Release
<1>2. SlotsAccounted' /\ BatchBounds' /\ LoopInv' /\ ChainInv' /\ HandledInOrder'
  BY <1>1, QuietStep DEF StopFrame, brokerVars, loopVars
<1>3. stop' \in [Workers -> {"none", "drain", "grace"}]
  BY <1>1 DEF IInv, TypeOK, Set
<1>4. TypeOK'
  BY <1>1, <1>3 DEF IInv, TypeOK, StopFrame, brokerVars, loopVars, batchVars
<1>5. MapInv'
  BY <1>1 DEF IInv, MapInv, Stopped, StopFrame, brokerVars, batchVars
<1>6. CommittedFinished'
  BY <1>1 DEF IInv, CommittedFinished, StopFrame, brokerVars
<1>7. QED
  BY <1>2, <1>4, <1>5, <1>6 DEF IInv

\* Starting a revoke, lost or leave callback preserves the invariant.
LEMMA CallbackInv ==
  ASSUME IInv, NEW kind \in {"revoke", "lost", "leave"}, NEW P \in SUBSET Partitions,
         NEW abort \in BOOLEAN, Callback(kind, P, abort), faults' \in 0..MaxFaults,
         kind = "lost" => P = assigned
  PROVE  IInv'
<1> DEFINE taken == {worker[p] : p \in P} \ {None}
<1>1. /\ callback' = kind
      /\ assigned' = assigned \ P
      /\ worker' = [p \in Partitions |-> IF p \in P THEN None ELSE worker[p]]
      /\ cbWorkers' = taken
      /\ quit' = quit \cup taken
      /\ stop' = [w \in Workers |-> IF w \notin taken THEN stop[w]
                                    ELSE IF abort THEN "grace" ELSE "drain"]
      /\ cancelled' = IF abort THEN cancelled \cup taken ELSE cancelled
      /\ abandoned' = abandoned
      /\ UNCHANGED <<brokerVars, loopVars, fatal, closing, closeWorkers, slots,
                     batchVars, pc, doomed, fresh>>
  BY DEF Callback, BeginStop
<1>2. taken \in SUBSET Workers
  BY DEF IInv, TypeOK
<1>3. SlotsAccounted' /\ BatchBounds' /\ LoopInv' /\ ChainInv' /\ HandledInOrder'
  <2>1. \A p \in Partitions : worker'[p] \in {worker[p], None}
    BY <1>1
  <2>2. UNCHANGED <<pc, slots, batchVars, run, fetch, target, doomed, finished>>
    BY <1>1 DEF loopVars, brokerVars
  <2>3. quit \subseteq quit' /\ cancelled \subseteq cancelled'
    BY <1>1
  <2>4. QED
    BY <2>1, <2>2, <2>3, QuietStep
<1>4. TypeOK'
  <2>1. worker' \in [Partitions -> Workers \cup {None}] /\ assigned' \in SUBSET Partitions
    BY <1>1 DEF IInv, TypeOK
  <2>2. cbWorkers' \in SUBSET Workers /\ quit' \in SUBSET Workers /\ cancelled' \in SUBSET Workers
    BY <1>1, <1>2 DEF IInv, TypeOK
  <2>3. stop' \in [Workers -> {"none", "drain", "grace"}]
    BY <1>1 DEF IInv, TypeOK
  <2>4. callback' \in {"none", "revoke", "lost", "leave"}
    BY <1>1
  <2>5. UNCHANGED <<brokerVars, loopVars, fatal, closing, closeWorkers, slots,
                     batchVars, pc, abandoned, doomed, fresh>>
    BY <1>1
  <2> HIDE DEF taken
  <2>6. QED
    BY <2>1, <2>2, <2>3, <2>4, <2>5 DEF IInv, TypeOK, brokerVars, loopVars, batchVars
<1>5. MapInv'
  <2>1. UNCHANGED <<pc, part, owner, fenced>>
    BY <1>1 DEF brokerVars, batchVars
  <2>2. /\ \A p \in Partitions : worker'[p] # None => worker'[p] = worker[p] /\ p \notin P
        /\ \A p \in Partitions : p \notin P => worker'[p] = worker[p]
    BY <1>1
  <2>3. callback' = "lost" => assigned' = {}
    BY <1>1
  <2>4. ASSUME NEW v \in Workers, pc'[v] # "exited", v \notin quit' \cup cancelled'
        PROVE  worker'[part'[v]] = v
    <3>1. worker[part[v]] = v /\ part[v] \in Partitions
      BY <1>1, <2>1, <2>4 DEF IInv, MapInv, Stopped, TypeOK
    <3>2. v # None
      BY ConsumerAssumption DEF ConsumerAssumption
    <3>3. v \notin taken
      BY <1>1, <2>4
    <3>4. part[v] \notin P
      BY <3>1, <3>2, <3>3
    <3>5. QED
      BY <2>1, <2>2, <3>1, <3>4
  <2>5. QED
    BY <1>1, <2>1, <2>2, <2>3, <2>4 DEF IInv, MapInv, Stopped
<1>6. CommittedFinished'
  BY <1>1 DEF IInv, CommittedFinished, brokerVars
<1>7. QED
  BY <1>3, <1>4, <1>5, <1>6 DEF IInv

\* The return of a callback preserves the invariant.
LEMMA CallbackReturnsInv ==
  ASSUME IInv, CallbackReturns
  PROVE  IInv'
<1>1. /\ callback' = "none"
      /\ owner' = [p \in Partitions |-> IF owner[p] = "self" /\ p \notin assigned
                                        THEN "none" ELSE owner[p]]
      /\ fresh' = {}
      /\ fenced' = IF callback = "lost" THEN FALSE ELSE fenced
      /\ closing' = IF callback = "leave" THEN "closed" ELSE closing
      /\ UNCHANGED <<committed, finished, faults, loopVars, fatal, assigned,
                     worker, cbWorkers, closeWorkers, slots, batchVars, pc,
                     stopVars, doomed>>
  BY DEF CallbackReturns, GiveUp, NewGeneration
<1>2. SlotsAccounted' /\ BatchBounds' /\ LoopInv' /\ ChainInv' /\ HandledInOrder'
  BY <1>1, QuietStep DEF loopVars, stopVars
<1>3. TypeOK'
  <2>1. owner' \in [Partitions -> {"self", "other", "none"}]
    BY <1>1 DEF IInv, TypeOK
  <2>2. fenced' \in BOOLEAN /\ closing' \in {"open", "stopping", "leaving", "closed"}
    BY <1>1 DEF IInv, TypeOK
  <2>3. QED
    BY <1>1, <2>1, <2>2 DEF IInv, TypeOK, loopVars, batchVars, stopVars
<1>4. MapInv'
  <2>1. \A p \in assigned : p \in Partitions /\ owner'[p] = owner[p]
    BY <1>1 DEF IInv, TypeOK
  <2>2. \A p \in assigned' : owner'[p] = "self" \/ fenced'
    BY <1>1, <2>1 DEF IInv, MapInv
  <2>3. UNCHANGED <<worker, part, assigned, pc, quit, cancelled>>
    BY <1>1 DEF batchVars, stopVars
  <2>4. QED
    BY <1>1, <2>2, <2>3 DEF IInv, MapInv, Stopped
<1>5. CommittedFinished'
  BY <1>1 DEF IInv, CommittedFinished
<1>6. QED
  BY <1>2, <1>3, <1>4, <1>5 DEF IInv

\* An expiring session preserves the invariant.
LEMMA SessionExpiresInv ==
  ASSUME IInv, SessionExpires
  PROVE  IInv'
<1>1. /\ fenced' = TRUE
      /\ owner' = [p \in Partitions |-> IF owner[p] = "self" THEN "none" ELSE owner[p]]
      /\ UNCHANGED <<committed, finished, loopVars, fatal, groupVars, slots,
                     batchVars, pc, stopVars, doomed, fresh>>
  BY DEF SessionExpires
<1>2. faults' \in 0..MaxFaults
  BY FaultType DEF SessionExpires, IInv
<1>3. SlotsAccounted' /\ BatchBounds' /\ LoopInv' /\ ChainInv' /\ HandledInOrder'
  BY <1>1, QuietStep DEF loopVars, groupVars, stopVars
<1>4. owner' \in [Partitions -> {"self", "other", "none"}]
  BY <1>1 DEF IInv, TypeOK
<1>5. TypeOK'
  BY <1>1, <1>2, <1>4 DEF IInv, TypeOK, loopVars, groupVars, batchVars, stopVars
<1>6. MapInv'
  BY <1>1 DEF IInv, MapInv, Stopped, groupVars, batchVars, stopVars
<1>7. CommittedFinished'
  BY <1>1 DEF IInv, CommittedFinished
<1>8. QED
  BY <1>3, <1>5, <1>6, <1>7 DEF IInv

\* Steps of other group members preserve the invariant.
LEMMA OthersInv ==
  ASSUME IInv, NEW p \in Partitions,
         OtherTakes(p) \/ OtherFinishes(p) \/ OtherLeaves(p)
  PROVE  IInv'
<1>1. OthersFrame
  BY DEF OtherTakes, OtherFinishes, OtherLeaves
<1>2. UNCHANGED <<fenced, loopVars, fatal, groupVars, slots, batchVars, pc, stopVars, doomed>>
  BY <1>1 DEF OthersFrame
<1>3. /\ faults' \in 0..MaxFaults
      /\ fresh' \in SUBSET Workers
      /\ finished \subseteq finished'
  BY FaultType DEF OtherTakes, OtherFinishes, OtherLeaves, NewGeneration, IInv, TypeOK
<1>4. /\ owner' = owner \/ owner' = [owner EXCEPT ![p] = "other"]
         \/ owner' = [owner EXCEPT ![p] = "none"]
      /\ owner' = owner \/ owner[p] # "self"
  BY DEF OtherTakes, OtherFinishes, OtherLeaves
<1>5. /\ committed' \in [Partitions -> Offsets]
      /\ finished' \in SUBSET (Partitions \X Offsets)
      /\ CommittedFinished'
  <2>1. CASE committed' = committed /\ finished' = finished
    BY <2>1 DEF IInv, TypeOK, CommittedFinished
  <2>2. CASE /\ committed[p] < LogEnd
             /\ finished' = finished \cup {<<p, committed[p]>>}
             /\ committed' = [committed EXCEPT ![p] = committed[p] + 1]
    <3>1. committed \in [Partitions -> Offsets] /\ committed[p] \in Offsets
      BY DEF IInv, TypeOK
    <3>2. committed[p] + 1 \in Offsets
      BY <2>2, <3>1, ConsumerAssumption DEF Offsets, ConsumerAssumption
    <3>3. committed' \in [Partitions -> Offsets]
      BY <2>2, <3>1, <3>2
    <3>4. finished' \in SUBSET (Partitions \X Offsets)
      BY <2>2, <3>1 DEF IInv, TypeOK
    <3>5. ASSUME NEW q \in Partitions, NEW o \in 0..(committed'[q] - 1)
          PROVE  <<q, o>> \in finished'
      <4>1. CASE q # p
        BY <2>2, <3>1, <3>5, <4>1 DEF IInv, CommittedFinished
      <4>2. CASE q = p /\ o = committed[p]
        BY <2>2, <4>2
      <4>3. CASE q = p /\ o # committed[p]
        <5>1. o \in 0..(committed[p] - 1)
          BY <2>2, <3>1, <3>5, <4>3 DEF Offsets
        <5>2. QED
          BY <2>2, <4>3, <5>1 DEF IInv, CommittedFinished
      <4>4. QED
        BY <4>1, <4>2, <4>3
    <3>6. QED
      BY <3>3, <3>4, <3>5 DEF CommittedFinished
  <2>3. QED
    BY <2>1, <2>2 DEF OtherTakes, OtherFinishes, OtherLeaves
<1>6. SlotsAccounted' /\ BatchBounds' /\ LoopInv' /\ ChainInv' /\ HandledInOrder'
  BY <1>2, <1>3, QuietStep DEF loopVars, groupVars, stopVars
<1>7. owner' \in [Partitions -> {"self", "other", "none"}]
  BY <1>4 DEF IInv, TypeOK
<1>8. TypeOK'
  BY <1>2, <1>3, <1>5, <1>7 DEF IInv, TypeOK, loopVars, groupVars, batchVars, stopVars
<1>9. MapInv'
  <2>1. UNCHANGED <<worker, part, assigned, callback, fenced, pc, quit, cancelled>>
    BY <1>2 DEF groupVars, batchVars, stopVars
  <2>2. \A q \in assigned : owner'[q] = "self" \/ fenced
    BY <1>4 DEF IInv, MapInv, TypeOK
  <2>3. QED
    BY <2>1, <2>2 DEF IInv, MapInv, Stopped
<1>10. QED
  BY <1>5, <1>6, <1>8, <1>9 DEF IInv

\* A partition that is free in the group has no worker in the map, so a new
\* worker starts at the offset the client fetches from.
LEMMA OnAssignedInv ==
  ASSUME IInv, NEW p \in Partitions, OnAssigned(p)
  PROVE  IInv'
<1>1. /\ callback = "none" /\ run # "dispatch" /\ ~fenced /\ owner[p] = "none"
      /\ owner' = [owner EXCEPT ![p] = "self"]
      /\ assigned' = assigned \cup {p}
      /\ fetch' = [fetch EXCEPT ![p] = [lo |-> committed[p], hi |-> committed[p]]]
      /\ fresh' = {}
      /\ UNCHANGED <<committed, finished, fenced, faults, run, target, sig, fatal,
                     callback, cbWorkers, closing, closeWorkers, slots, stop, doomed>>
  BY DEF OnAssigned, AssignFrom, MayRebalance, NewGeneration
<1>2. worker[p] = None
  BY <1>1 DEF IInv, MapInv
<1>3. PICK w \in Workers : Unused(w) /\ NewWorker(w, p)
  BY <1>2 DEF OnAssigned, AssignFrom
<1>4. committed[p] \in Offsets /\ target = None
  BY <1>1 DEF IInv, TypeOK, LoopInv
<1>5. /\ pc[w] = "exited"
      /\ \A q \in Partitions : worker[q] # w
      /\ worker' = [worker EXCEPT ![p] = w]
      /\ part' = Set(part, w, p) /\ pc' = Set(pc, w, "idle") /\ queue' = Set(queue, w, <<>>)
      /\ lo' = Set(lo, w, committed[p]) /\ hi' = Set(hi, w, committed[p])
      /\ at' = Set(at, w, committed[p]) /\ tries' = Set(tries, w, 0)
      /\ quit' = quit \ {w} /\ abandoned' = abandoned \ {w}
      /\ cancelled' = Mark(cancelled, w, closing = "leaving")
  BY <1>3 DEF Unused, NewWorker
<1>6. ASSUME NEW v \in Workers, v # w
      PROVE  /\ part'[v] = part[v] /\ pc'[v] = pc[v] /\ queue'[v] = queue[v]
             /\ lo'[v] = lo[v] /\ hi'[v] = hi[v] /\ at'[v] = at[v] /\ tries'[v] = tries[v]
             /\ (v \in quit' <=> v \in quit) /\ (v \in cancelled' <=> v \in cancelled)
  BY <1>5, <1>6 DEF IInv, TypeOK, Set, Mark
<1>7. /\ part'[w] = p /\ pc'[w] = "idle" /\ queue'[w] = <<>> /\ lo'[w] = committed[p]
      /\ hi'[w] = committed[p] /\ at'[w] = committed[p]
  BY <1>5 DEF IInv, TypeOK, Set
<1>8. TypeOK'
  <2>1. /\ owner' \in [Partitions -> {"self", "other", "none"}]
        /\ assigned' \in SUBSET Partitions
        /\ worker' \in [Partitions -> Workers \cup {None}]
    BY <1>1, <1>5 DEF IInv, TypeOK
  <2>2. fetch' \in [Partitions -> Batch]
    BY <1>1, <1>4 DEF IInv, TypeOK, Batch
  <2>3. /\ part' \in [Workers -> Partitions] /\ pc' \in [Workers -> PC]
        /\ queue' \in [Workers -> Seq(Batch)]
    BY <1>5 DEF IInv, TypeOK, Set, PC
  <2>4. /\ lo' \in [Workers -> Offsets] /\ hi' \in [Workers -> Offsets]
        /\ at' \in [Workers -> Offsets]
    BY <1>4, <1>5 DEF IInv, TypeOK, Set
  <2>5. tries' \in [Workers -> 0..MaxTries]
    BY <1>5, ConsumerAssumption DEF IInv, TypeOK, Set, ConsumerAssumption
  <2>6. quit' \in SUBSET Workers /\ abandoned' \in SUBSET Workers /\ cancelled' \in SUBSET Workers
    BY <1>5 DEF IInv, TypeOK, Mark
  <2>7. QED
    BY <1>1, <2>1, <2>2, <2>3, <2>4, <2>5, <2>6 DEF IInv, TypeOK
<1>9. SlotsAccounted'
  <2>1. Held(pc') = Held(pc)
    BY <1>5, HeldSame DEF IInv, TypeOK, PC, Holding
  <2>2. QED
    BY <1>1, <2>1 DEF IInv, SlotsAccounted, Held
<1>10. BatchBounds'
  <2>1. ASSUME NEW i \in DOMAIN queue'[w] PROVE FALSE
    BY <1>7, <2>1
  <2>2. QED
    BY <1>6, <1>7, <2>1 DEF IInv, BatchBounds
<1>11. LoopInv'
  <2>1. \A q \in Partitions : fetch'[q].lo = fetch'[q].hi
    BY <1>1 DEF IInv, LoopInv, TypeOK
  <2>2. \A q \in Partitions : fetch'[q].lo \in Nat
    BY <1>8 DEF TypeOK, Batch, Offsets
  <2>3. QED
    BY <1>1, <1>4, <2>1, <2>2 DEF IInv, LoopInv
<1>12. MapInv'
  <2>1. ASSUME NEW q \in Partitions
        PROVE  worker'[q] = IF q = p THEN w ELSE worker[q]
    BY <1>5 DEF IInv, TypeOK
  <2>2. \A q \in Partitions : worker'[q] # None => part'[worker'[q]] = q /\ q \in assigned'
    BY <1>1, <1>5, <1>6, <1>7, <2>1 DEF IInv, MapInv, TypeOK
  <2>3. \A q \in assigned' : owner'[q] = "self" \/ fenced'
    BY <1>1 DEF IInv, MapInv, TypeOK
  <2>4. ASSUME NEW v \in Workers, pc'[v] # "exited", v \notin quit' \cup cancelled'
        PROVE  worker'[part'[v]] = v
    <3>1. CASE v = w
      BY <1>7, <2>1, <3>1
    <3>2. CASE v # w
      <4>1. worker[part[v]] = v /\ part[v] \in Partitions
        BY <1>6, <2>4, <3>2 DEF IInv, MapInv, Stopped, TypeOK
      <4>2. part[v] # p
        BY <1>2, <4>1, ConsumerAssumption DEF ConsumerAssumption
      <4>3. QED
        BY <1>6, <2>1, <3>2, <4>1, <4>2
    <3>3. QED
      BY <3>1, <3>2
  <2>5. QED
    BY <1>1, <2>2, <2>3, <2>4 DEF MapInv, Stopped
<1>13. ChainInv'
  <2>1. SUFFICES ASSUME NEW v \in Workers, pc'[v] # "exited", v \notin quit' \cup cancelled'
                 PROVE  /\ Contiguous(v)'
                        /\ run' # "returned" => Continues(v)'
                        /\ (pc'[v] \in {"checked", "sent"} /\ v \notin doomed') => at'[v] = hi'[v]
                        /\ pc'[v] \in {"idle", "slot"} =>
                             \A o \in 0..(at'[v] - 1) : <<part'[v], o>> \in finished'
    BY DEF ChainInv, Stopped
  <2>2. CASE v = w
    <3>1. fetch'[p].lo = committed[p]
      BY <1>1 DEF IInv, TypeOK
    <3>2. Tip(w)' = committed[p]
      BY <1>7 DEF Tip
    <3>3. \A o \in 0..(committed[p] - 1) : <<p, o>> \in finished
      BY DEF IInv, CommittedFinished
    <3>4. Contiguous(w)'
      BY <1>7 DEF Contiguous
    <3>5. QED
      BY <1>1, <1>7, <2>2, <3>1, <3>2, <3>3, <3>4 DEF Continues
  <2>3. CASE v # w
    <3>1. worker[part[v]] = v /\ part[v] \in Partitions
      BY <1>6, <2>1, <2>3 DEF IInv, MapInv, Stopped, TypeOK
    <3>2. part[v] # p
      BY <1>2, <3>1, ConsumerAssumption DEF ConsumerAssumption
    <3>3. fetch'[part[v]] = fetch[part[v]]
      BY <1>1, <3>1, <3>2 DEF IInv, TypeOK
    <3>4. QED
      BY <1>1, <1>6, <2>1, <2>3, <3>3 DEF IInv, ChainInv, Stopped, Contiguous, Continues, Tip
  <2>4. QED
    BY <2>2, <2>3
<1>14. HandledInOrder' /\ CommittedFinished'
  BY <1>1, <1>6, <1>7 DEF IInv, HandledInOrder, CommittedFinished, Holding
<1>15. QED
  BY <1>8, <1>9, <1>10, <1>11, <1>12, <1>13, <1>14 DEF IInv

\* Every step of the group preserves the invariant.
LEMMA GroupStepInv ==
  ASSUME IInv, GroupStep
  PROVE  IInv'
<1>1. CASE OnRevoked
  <2>1. faults' \in 0..MaxFaults
    BY <1>1, FaultType DEF OnRevoked, IInv
  <2>2. PICK P \in SUBSET assigned : Callback("revoke", P, FALSE)
    BY <1>1 DEF OnRevoked
  <2>3. P \in SUBSET Partitions
    BY DEF IInv, TypeOK
  <2>4. QED
    BY <2>1, <2>2, <2>3, CallbackInv
<1>2. CASE OnLost
  <2>1. Callback("lost", assigned, TRUE) /\ faults' = faults
    BY <1>2 DEF OnLost
  <2>2. assigned \in SUBSET Partitions /\ faults \in 0..MaxFaults
    BY DEF IInv, TypeOK
  <2>3. QED
    BY <2>1, <2>2, CallbackInv
<1>3. QED
  BY <1>1, <1>2, CallbackReturnsInv, SessionExpiresInv, OthersInv, OnAssignedInv DEF GroupStep

-----------------------------------------------------------------------------
(* The poll loop.                                                          *)

\* What a step of the loop leaves alone keeps every part of the invariant
\* that speaks of workers, slots and offsets only.
LEMMA LoopFrameInv ==
  ASSUME IInv, LoopFrame, UNCHANGED sig, run' \in {"poll", "dispatch", "returned"},
         fetch' \in [Partitions -> Batch], target' \in Workers \cup {None},
         queue' \in [Workers -> Seq(Batch)]
  PROVE  /\ TypeOK' /\ SlotsAccounted' /\ MapInv' /\ HandledInOrder' /\ CommittedFinished'
<1>1. TypeOK'
  BY DEF IInv, TypeOK, LoopFrame, brokerVars, groupVars, stopVars
<1>2. SlotsAccounted'
  BY DEF IInv, SlotsAccounted, LoopFrame
<1>3. MapInv'
  BY DEF IInv, MapInv, Stopped, LoopFrame, brokerVars, groupVars, stopVars
<1>4. HandledInOrder' /\ CommittedFinished'
  BY DEF IInv, HandledInOrder, CommittedFinished, LoopFrame, brokerVars
<1>5. QED
  BY <1>1, <1>2, <1>3, <1>4

\* The queues are left alone, and the next records still continue what each
\* worker that was not stopped has.
LEMMA SameQueues ==
  ASSUME IInv, LoopFrame, queue' = queue,
         \A w \in Workers : (pc[w] # "exited" /\ ~Stopped(w) /\ run' # "returned") =>
            fetch'[part[w]].lo = fetch[part[w]].lo /\ run # "returned"
  PROVE  BatchBounds' /\ ChainInv'
<1>1. UNCHANGED <<pc, part, lo, hi, at, tries, quit, cancelled, doomed, finished>>
  BY DEF LoopFrame, brokerVars, stopVars
<1>2. BatchBounds'
  BY <1>1 DEF IInv, BatchBounds
<1>3. \A w \in Workers : Tip(w)' = Tip(w) /\ Contiguous(w)' = Contiguous(w)
  BY <1>1 DEF Tip, Contiguous
<1>4. ASSUME NEW w \in Workers, pc[w] # "exited", ~Stopped(w), run' # "returned"
      PROVE  Continues(w)'
  <2>1. Continues(w)
    BY <1>4 DEF IInv, ChainInv
  <2>2. QED
    BY <1>1, <1>3, <1>4, <2>1 DEF Continues
<1>5. ChainInv'
  BY <1>1, <1>3, <1>4 DEF IInv, ChainInv, Stopped
<1>6. QED
  BY <1>2, <1>5

\* A poll preserves the invariant.
LEMMA PollFetchesInv ==
  ASSUME IInv, PollFetches
  PROVE  IInv'
<1>1. PICK to \in [Partitions -> Offsets] :
        /\ \A p \in Partitions : to[p] >= fetch[p].hi
        /\ fetch' = [p \in Partitions |-> [lo |-> fetch[p].hi, hi |-> to[p]]]
  BY DEF PollFetches
<1>2. run = "poll" /\ run' = "dispatch" /\ LoopFrame /\ UNCHANGED <<target, sig, queue>>
  BY DEF PollFetches
<1>3. \A p \in Partitions : fetch[p].lo = fetch[p].hi
  BY <1>2 DEF IInv, LoopInv
<1>4. target = None
  BY <1>2 DEF IInv, LoopInv
<1>5. fetch' \in [Partitions -> Batch]
  BY <1>1 DEF IInv, TypeOK, Batch
<1>6. TypeOK' /\ SlotsAccounted' /\ MapInv' /\ HandledInOrder' /\ CommittedFinished'
  <2>1. target' \in Workers \cup {None} /\ queue' \in [Workers -> Seq(Batch)]
    BY <1>2 DEF IInv, TypeOK
  <2>2. QED
    BY <1>2, <1>5, <2>1, LoopFrameInv
<1>7. \A p \in Partitions : fetch'[p].lo = fetch[p].lo /\ fetch'[p].lo <= fetch'[p].hi
  BY <1>1, <1>3
<1>8. LoopInv'
  BY <1>2, <1>4, <1>7 DEF LoopInv
<1>9. BatchBounds' /\ ChainInv'
  <2>1. \A w \in Workers : part[w] \in Partitions
    BY DEF IInv, TypeOK
  <2>2. QED
    BY <1>2, <1>7, <2>1, SameQueues
<1>10. QED
  BY <1>6, <1>8, <1>9 DEF IInv

\* Records are skipped only when no worker of the partition can still
\* handle later ones.
LEMMA SkipInv ==
  ASSUME IInv, LoopFrame, NEW p \in Partitions, TakeFetched(p),
         UNCHANGED <<run, sig, queue>>, run = "dispatch", target' = None,
         \A w \in Workers : (part[w] = p /\ pc[w] # "exited") => Stopped(w)
  PROVE  IInv'
<1>1. fetch \in [Partitions -> Batch] /\ fetch' = [fetch EXCEPT ![p].lo = fetch[p].hi]
  BY DEF IInv, TypeOK, TakeFetched
<1>2. /\ fetch' \in [Partitions -> Batch]
      /\ \A q \in Partitions : q # p => fetch'[q] = fetch[q]
      /\ fetch'[p].lo = fetch[p].hi /\ fetch'[p].hi = fetch[p].hi
  BY <1>1 DEF Batch
<1>3. TypeOK' /\ SlotsAccounted' /\ MapInv' /\ HandledInOrder' /\ CommittedFinished'
  <2>1. run' \in {"poll", "dispatch", "returned"} /\ queue' \in [Workers -> Seq(Batch)]
    BY DEF IInv, TypeOK
  <2>2. QED
    BY <1>2, <2>1, LoopFrameInv
<1>4. LoopInv'
  <2>1. fetch[p].hi \in Nat
    BY <1>1 DEF Batch, Offsets
  <2>2. QED
    BY <1>2, <2>1 DEF IInv, LoopInv
<1>5. BatchBounds' /\ ChainInv'
  <2>1. \A w \in Workers : part[w] \in Partitions
    BY DEF IInv, TypeOK
  <2>2. QED
    BY <1>2, <2>1, SameQueues
<1>6. QED
  BY <1>3, <1>4, <1>5 DEF IInv

\* Choosing the worker for a partition preserves the invariant.
LEMMA DispatchInv ==
  ASSUME IInv, NEW p \in Partitions, Dispatch(p)
  PROVE  IInv'
<1>1. /\ run = "dispatch" /\ target = None /\ fetch[p].lo < fetch[p].hi
      /\ LoopFrame /\ UNCHANGED <<run, sig, queue>>
  BY DEF Dispatch
<1>2. CASE worker[p] = None \/ worker[p] \in quit \/ pc[worker[p]] = "exited"
  <2>1. TakeFetched(p) /\ target' = None
    BY <1>1, <1>2 DEF Dispatch
  <2>2. ASSUME NEW w \in Workers, part[w] = p, pc[w] # "exited", ~Stopped(w) PROVE FALSE
    BY <1>2, <2>2, ConsumerAssumption DEF IInv, MapInv, Stopped, ConsumerAssumption
  <2>3. QED
    BY <1>1, <2>1, <2>2, SkipInv
<1>3. CASE ~(worker[p] = None \/ worker[p] \in quit \/ pc[worker[p]] = "exited")
  <2>1. target' = worker[p] /\ fetch' = fetch /\ worker[p] \in Workers
    BY <1>3 DEF Dispatch, IInv, TypeOK
  <2>2. TypeOK' /\ SlotsAccounted' /\ MapInv' /\ HandledInOrder' /\ CommittedFinished'
    <3>1. /\ run' \in {"poll", "dispatch", "returned"} /\ queue' \in [Workers -> Seq(Batch)]
          /\ fetch' \in [Partitions -> Batch] /\ target' \in Workers \cup {None}
      BY <1>1, <2>1 DEF IInv, TypeOK
    <3>2. QED
      BY <1>1, <3>1, LoopFrameInv
  <2>3. LoopInv'
    <3>1. part[worker[p]] = p
      BY <1>3 DEF IInv, MapInv
    <3>2. UNCHANGED <<worker, part, fetch, run>>
      BY <1>1, <2>1 DEF LoopFrame, groupVars
    <3>3. QED
      BY <1>1, <2>1, <3>1, <3>2 DEF IInv, LoopInv
  <2>4. BatchBounds' /\ ChainInv'
    BY <1>1, <2>1, SameQueues
  <2>5. QED
    BY <2>2, <2>3, <2>4 DEF IInv
<1>4. QED
  BY <1>2, <1>3

\* A worker that was not stopped and shares the target's partition is the
\* target.
LEMMA TargetUnique ==
  ASSUME IInv, target # None, NEW w \in Workers, part[w] = part[target],
         pc[w] # "exited", ~Stopped(w)
  PROVE  w = target
BY ConsumerAssumption DEF IInv, MapInv, LoopInv, ConsumerAssumption

\* Skipping the records of a stopped worker preserves the invariant.
LEMMA EnqueueStoppedInv ==
  ASSUME IInv, EnqueueStopped
  PROVE  IInv'
<1>1. /\ target # None
      /\ target \in quit \/ pc[target] = "exited"
      /\ TakeFetched(part[target])
      /\ target' = None /\ LoopFrame /\ UNCHANGED <<run, sig, queue>>
  BY DEF EnqueueStopped
<1>2. target \in Workers /\ part[target] \in Partitions /\ run = "dispatch"
  BY <1>1 DEF IInv, TypeOK, LoopInv
<1>3. \A w \in Workers : (part[w] = part[target] /\ pc[w] # "exited") => Stopped(w)
  BY <1>1, TargetUnique DEF Stopped
<1>4. QED
  BY <1>1, <1>2, <1>3, SkipInv

\* Handing a batch over preserves the invariant.
LEMMA EnqueueInv ==
  ASSUME IInv, Enqueue
  PROVE  IInv'
<1> DEFINE b == fetch[part[target]]
<1>1. /\ target # None
      /\ queue' = Set(queue, target, Append(queue[target], b))
      /\ fetch' = [fetch EXCEPT ![part[target]].lo = b.hi]
      /\ target' = None /\ LoopFrame /\ UNCHANGED <<run, sig>>
  BY DEF Enqueue, TakeFetched
<1>2. target \in Workers /\ part[target] \in Partitions /\ run = "dispatch" /\ b.lo < b.hi
  BY <1>1 DEF IInv, TypeOK, LoopInv
<1>3. fetch \in [Partitions -> Batch] /\ b \in Batch /\ b.hi \in Offsets
  BY <1>2 DEF IInv, TypeOK, Batch
<1>4. /\ fetch' \in [Partitions -> Batch]
      /\ \A q \in Partitions : q # part[target] => fetch'[q] = fetch[q]
      /\ fetch'[part[target]].lo = b.hi /\ fetch'[part[target]].hi = b.hi
  BY <1>1, <1>2, <1>3 DEF Batch
<1>5. /\ queue[target] \in Seq(Batch)
      /\ Append(queue[target], b) \in Seq(Batch)
      /\ Len(Append(queue[target], b)) = Len(queue[target]) + 1
      /\ \A i \in DOMAIN queue[target] : Append(queue[target], b)[i] = queue[target][i]
      /\ Append(queue[target], b)[Len(queue[target]) + 1] = b
      /\ Append(queue[target], b) # <<>>
  <2>1. queue[target] \in Seq(Batch)
    BY <1>2 DEF IInv, TypeOK
  <2>2. QED
    BY <1>3, <2>1, AppendProperties
<1>6. /\ queue' \in [Workers -> Seq(Batch)]
      /\ queue'[target] = Append(queue[target], b)
      /\ \A w \in Workers : w # target => queue'[w] = queue[w]
  BY <1>1, <1>2, <1>5 DEF IInv, TypeOK, Set
<1>7. UNCHANGED <<pc, part, lo, hi, at, tries, quit, cancelled, doomed, finished>>
  BY <1>1 DEF LoopFrame, brokerVars, stopVars
<1>8. TypeOK' /\ SlotsAccounted' /\ MapInv' /\ HandledInOrder' /\ CommittedFinished'
  <2>1. run' \in {"poll", "dispatch", "returned"}
    BY <1>1 DEF IInv, TypeOK
  <2>2. QED
    BY <1>1, <1>4, <1>6, <2>1, LoopFrameInv
<1>9. LoopInv'
  <2>1. b.hi \in Nat
    BY <1>3 DEF Offsets
  <2>2. QED
    BY <1>1, <1>2, <1>4, <2>1 DEF IInv, LoopInv
<1>10. DOMAIN queue[target] = 1..Len(queue[target]) /\ Len(queue[target]) \in Nat
       /\ DOMAIN queue'[target] = 1..(Len(queue[target]) + 1)
  BY <1>5, <1>6
<1>11. BatchBounds'
  <2>1. ASSUME NEW i \in DOMAIN queue'[target]
        PROVE  queue'[target][i].lo < queue'[target][i].hi
    <3>1. CASE i \in DOMAIN queue[target]
      BY <1>2, <1>5, <1>6, <3>1 DEF IInv, BatchBounds
    <3>2. CASE i = Len(queue[target]) + 1
      BY <1>2, <1>5, <1>6, <3>2
    <3>3. QED
      BY <1>10, <2>1, <3>1, <3>2
  <2>2. \A w \in Workers : \A i \in DOMAIN queue'[w] : queue'[w][i].lo < queue'[w][i].hi
    BY <1>6, <2>1 DEF IInv, BatchBounds
  <2>3. QED
    BY <1>7, <2>2 DEF IInv, BatchBounds
<1>12. ChainInv'
  <2>1. SUFFICES ASSUME NEW w \in Workers, pc[w] # "exited", ~Stopped(w)
                 PROVE  Contiguous(w)' /\ (run' # "returned" => Continues(w)')
    BY <1>7 DEF IInv, ChainInv, Stopped
  <2>2. Tip(w)' = Tip(w) /\ Contiguous(w) /\ Continues(w) /\ part[w] \in Partitions
    BY <1>2, <1>7, <2>1 DEF IInv, ChainInv, Tip, TypeOK
  <2>3. CASE w # target
    <3>1. part[w] # part[target]
      BY <1>1, <2>1, <2>3, TargetUnique
    <3>2. queue'[w] = queue[w] /\ fetch'[part[w]] = fetch[part[w]]
      BY <1>4, <1>6, <2>2, <2>3, <3>1
    <3>3. QED
      BY <1>7, <2>2, <3>2 DEF Contiguous, Continues
  <2>4. CASE w = target
    <3>1. CASE queue[w] = <<>>
      <4>1. Len(queue[w]) = 0 /\ b.lo = Tip(w)
        BY <2>2, <2>4, <3>1, EmptySeq DEF Continues
      <4>2. queue'[w][1] = b /\ DOMAIN queue'[w] = 1..1 /\ Len(queue'[w]) = 1 /\ queue'[w] # <<>>
        BY <1>5, <1>6, <1>10, <2>4, <4>1
      <4>3. QED
        BY <1>4, <1>7, <2>2, <2>4, <4>1, <4>2 DEF Contiguous, Continues
    <3>2. CASE queue[w] # <<>>
      <4>1. Len(queue[w]) \in Nat \ {0} /\ b.lo = queue[w][Len(queue[w])].hi
        BY <1>5, <2>2, <2>4, <3>2, EmptySeq DEF Continues
      <4>2. queue'[w][1] = queue[w][1] /\ queue'[w] # <<>>
        BY <1>5, <1>6, <1>10, <2>4, <4>1
      <4>3. ASSUME NEW i \in DOMAIN queue'[w], i + 1 \in DOMAIN queue'[w]
            PROVE  queue'[w][i].hi = queue'[w][i + 1].lo
        <5>1. i \in DOMAIN queue[w] /\ queue'[w][i] = queue[w][i]
          BY <1>5, <1>6, <1>10, <2>4, <4>3
        <5>2. CASE i + 1 \in DOMAIN queue[w]
          <6>1. queue'[w][i + 1] = queue[w][i + 1]
            BY <1>5, <1>6, <1>10, <2>4, <5>2
          <6>2. queue[w][i].hi = queue[w][i + 1].lo
            BY <2>2, <5>1, <5>2 DEF Contiguous
          <6>3. QED
            BY <5>1, <6>1, <6>2
        <5>3. CASE i = Len(queue[w])
          BY <1>5, <1>6, <2>4, <4>1, <5>1, <5>3
        <5>4. QED
          BY <1>10, <2>4, <5>1, <5>2, <5>3
      <4>4. queue'[w][Len(queue'[w])] = b
        BY <1>5, <1>6, <2>4
      <4>5. QED
        BY <1>4, <1>7, <2>2, <2>4, <3>2, <4>2, <4>3, <4>4 DEF Contiguous, Continues
    <3>3. QED
      BY <3>1, <3>2
  <2>5. QED
    BY <2>3, <2>4
<1>13. QED
  BY <1>8, <1>9, <1>11, <1>12 DEF IInv

\* Ending a dispatch or the loop preserves the invariant.
LEMMA LoopEndsInv ==
  ASSUME IInv, EnqueueCancelled \/ DispatchDone \/ RunReturns
  PROVE  IInv'
<1>1. /\ LoopFrame /\ UNCHANGED <<sig, queue>> /\ target' = None
      /\ run' = "returned" \/ (run = "dispatch" /\ run' = "poll" /\ fetch' = fetch)
  BY DEF EnqueueCancelled, DispatchDone, RunReturns, IInv, LoopInv
<1>2. /\ fetch' \in [Partitions -> Batch]
      /\ \A p \in Partitions : fetch'[p].lo = fetch'[p].hi
  <2>1. CASE EnqueueCancelled
    BY <2>1 DEF EnqueueCancelled, IInv, TypeOK, Batch
  <2>2. CASE DispatchDone
    BY <2>2 DEF DispatchDone, IInv, TypeOK
  <2>3. CASE RunReturns
    BY <2>3 DEF RunReturns, IInv, TypeOK, LoopInv
  <2>4. QED
    BY <2>1, <2>2, <2>3
<1>3. TypeOK' /\ SlotsAccounted' /\ MapInv' /\ HandledInOrder' /\ CommittedFinished'
  <2>1. run' \in {"poll", "dispatch", "returned"} /\ queue' \in [Workers -> Seq(Batch)]
    BY <1>1 DEF IInv, TypeOK
  <2>2. QED
    BY <1>1, <1>2, <2>1, LoopFrameInv
<1>4. LoopInv'
  <2>1. \A p \in Partitions : fetch'[p].lo \in Nat
    BY <1>2 DEF Batch, Offsets
  <2>2. QED
    BY <1>1, <1>2, <2>1 DEF LoopInv
<1>5. BatchBounds' /\ ChainInv'
  BY <1>1, SameQueues
<1>6. QED
  BY <1>3, <1>4, <1>5 DEF IInv

\* Every step of the poll loop preserves the invariant.
LEMMA LoopStepInv ==
  ASSUME IInv, LoopStep
  PROVE  IInv'
BY PollFetchesInv, DispatchInv, EnqueueInv, EnqueueStoppedInv, LoopEndsInv DEF LoopStep

-----------------------------------------------------------------------------
(* Shutdown, Close and restarts.                                           *)

\* A shutdown signal and Close preserve the invariant.
LEMMA CloseInv ==
  ASSUME IInv, ShutdownSignal \/ CloseBegins \/ CloseCancels
  PROVE  IInv'
<1>1. /\ UNCHANGED <<committed, finished, owner, fenced, run, fetch, target, fatal, assigned,
                     callback, cbWorkers, slots, batchVars, pc, abandoned, doomed, fresh>>
      /\ quit \subseteq quit' /\ cancelled \subseteq cancelled'
  BY DEF ShutdownSignal, CloseBegins, CloseCancels, BeginStop, brokerVars, loopVars, groupVars,
     stopVars, IInv, TypeOK
<1>2. \A p \in Partitions : worker'[p] \in {worker[p], None}
  BY DEF ShutdownSignal, CloseBegins, CloseCancels, groupVars
<1>3. SlotsAccounted' /\ BatchBounds' /\ LoopInv' /\ ChainInv' /\ HandledInOrder'
  BY <1>1, <1>2, QuietStep
<1>4. /\ faults' \in 0..MaxFaults
      /\ sig' \in BOOLEAN
      /\ worker' \in [Partitions -> Workers \cup {None}]
      /\ closing' \in {"open", "stopping", "leaving", "closed"}
      /\ closeWorkers' \in SUBSET Workers
      /\ quit' \in SUBSET Workers
      /\ cancelled' \in SUBSET Workers
      /\ stop' \in [Workers -> {"none", "drain", "grace"}]
  <2>1. CASE ShutdownSignal
    <3>1. faults' \in 0..MaxFaults
      BY <2>1, FaultType DEF ShutdownSignal, IInv
    <3>2. QED
      BY <2>1, <3>1 DEF ShutdownSignal, IInv, TypeOK, groupVars, stopVars
  <2>2. CASE CloseBegins
    BY <2>2 DEF CloseBegins, BeginStop, IInv, TypeOK, loopVars
  <2>3. CASE CloseCancels
    BY <2>3 DEF CloseCancels, IInv, TypeOK
  <2>4. QED
    BY <2>1, <2>2, <2>3
<1>5. TypeOK'
  BY <1>1, <1>4 DEF IInv, TypeOK, batchVars
<1>6. MapInv'
  <2>1. UNCHANGED <<pc, part, owner, fenced, assigned, callback>>
    BY <1>1 DEF batchVars
  <2>2. ASSUME NEW v \in Workers, pc'[v] # "exited", v \notin quit' \cup cancelled'
        PROVE  worker'[part'[v]] = v
    <3>1. worker[part[v]] = v /\ part[v] \in Partitions /\ v # None
      BY <1>1, <2>1, <2>2, ConsumerAssumption
         DEF IInv, MapInv, Stopped, TypeOK, ConsumerAssumption
    <3>2. CASE CloseBegins
      <4>1. v \in quit'
        BY <3>1, <3>2 DEF CloseBegins, BeginStop
      <4>2. QED
        BY <2>2, <4>1
    <3>3. CASE ShutdownSignal \/ CloseCancels
      BY <2>1, <3>1, <3>3 DEF ShutdownSignal, CloseCancels, groupVars
    <3>4. QED
      BY <3>2, <3>3
  <2>3. QED
    BY <1>2, <2>1, <2>2 DEF IInv, MapInv, Stopped
<1>7. CommittedFinished'
  BY <1>1 DEF IInv, CommittedFinished
<1>8. QED
  BY <1>3, <1>5, <1>6, <1>7 DEF IInv

\* With no goroutine running, nothing is left to hold.
LEMMA NoHolders == Held(Every("exited")) = {} /\ Cardinality({}) = 0
BY FS_EmptySet DEF Held, Every, Holding

\* A restart of the process preserves the invariant.
LEMMA NewProcessInv ==
  ASSUME IInv, NewProcess, faults' \in 0..MaxFaults
  PROVE  IInv'
<1>1. (CHOOSE p \in Partitions : TRUE) \in Partitions
  BY ConsumerAssumption DEF ConsumerAssumption
<1>2. TypeOK'
  <2>1. part' \in [Workers -> Partitions]
    BY <1>1 DEF NewProcess, Every
  <2>2. owner' \in [Partitions -> {"self", "other", "none"}]
    BY DEF NewProcess, IInv, TypeOK
  <2>3. /\ fetch' \in [Partitions -> Batch]
        /\ lo' \in [Workers -> Offsets] /\ hi' \in [Workers -> Offsets]
        /\ at' \in [Workers -> Offsets] /\ tries' \in [Workers -> 0..MaxTries]
        /\ slots' \in 0..MaxConcurrentHandlers
    BY ConsumerAssumption DEF NewProcess, Every, Batch, Offsets, ConsumerAssumption
  <2>4. /\ worker' \in [Partitions -> Workers \cup {None}]
        /\ pc' \in [Workers -> PC]
        /\ stop' \in [Workers -> {"none", "drain", "grace"}]
    BY DEF NewProcess, Every, PC
  <2>5. queue' \in [Workers -> Seq(Batch)]
    BY DEF NewProcess, Every
  <2>6. QED
    BY <2>1, <2>2, <2>3, <2>4, <2>5 DEF NewProcess, IInv, TypeOK
<1>3. \A w \in Workers : pc'[w] = "exited" /\ queue'[w] = <<>>
  BY DEF NewProcess, Every
<1>4. SlotsAccounted'
  <2>1. pc' = Every("exited") /\ slots' = 0
    BY DEF NewProcess
  <2>2. QED
    BY <2>1, NoHolders, ConsumerAssumption DEF SlotsAccounted, Held, ConsumerAssumption
<1>5. BatchBounds'
  BY <1>3 DEF BatchBounds
<1>6. LoopInv'
  BY DEF NewProcess, LoopInv
<1>7. MapInv'
  BY <1>3 DEF NewProcess, MapInv
<1>8. ChainInv' /\ HandledInOrder'
  BY <1>3 DEF ChainInv, HandledInOrder, Holding
<1>9. CommittedFinished'
  BY DEF NewProcess, IInv, CommittedFinished
<1>10. QED
  BY <1>2, <1>4, <1>5, <1>6, <1>7, <1>8, <1>9 DEF IInv

\* Every step of the process lifecycle preserves the invariant.
LEMMA LifecycleStepInv ==
  ASSUME IInv, LifecycleStep
  PROVE  IInv'
<1>1. CASE LeaveGroup
  <2>1. Callback("leave", Partitions, FALSE) /\ faults' \in 0..MaxFaults
    BY <1>1 DEF LeaveGroup, IInv, TypeOK
  <2>2. QED
    BY <2>1, CallbackInv
<1>2. CASE ProcessExits
  BY <1>2, NewProcessInv DEF ProcessExits, IInv, TypeOK
<1>3. CASE Crash
  BY <1>3, NewProcessInv, FaultType DEF Crash, IInv
<1>4. QED
  BY <1>1, <1>2, <1>3, CloseInv DEF LifecycleStep

-----------------------------------------------------------------------------
(* The theorems.                                                           *)

\* The invariant holds initially.
LEMMA InitInv ==
  ASSUME Init
  PROVE  IInv
<1>1. (CHOOSE p \in Partitions : TRUE) \in Partitions
  BY ConsumerAssumption DEF ConsumerAssumption
<1>2. TypeOK
  <2>1. part \in [Workers -> Partitions]
    BY <1>1 DEF Init, Every
  <2>2. /\ fetch \in [Partitions -> Batch]
        /\ committed \in [Partitions -> Offsets]
        /\ lo \in [Workers -> Offsets] /\ hi \in [Workers -> Offsets]
        /\ at \in [Workers -> Offsets] /\ tries \in [Workers -> 0..MaxTries]
        /\ slots \in 0..MaxConcurrentHandlers /\ faults \in 0..MaxFaults
    BY ConsumerAssumption DEF Init, Every, Batch, Offsets, ConsumerAssumption
  <2>3. /\ worker \in [Partitions -> Workers \cup {None}]
        /\ owner \in [Partitions -> {"self", "other", "none"}]
        /\ pc \in [Workers -> PC]
        /\ stop \in [Workers -> {"none", "drain", "grace"}]
    BY DEF Init, Every, PC
  <2>4. queue \in [Workers -> Seq(Batch)]
    BY DEF Init, Every
  <2>5. QED
    BY <2>1, <2>2, <2>3, <2>4 DEF Init, TypeOK
<1>3. \A w \in Workers : pc[w] = "exited" /\ queue[w] = <<>>
  BY DEF Init, Every
<1>4. SlotsAccounted
  <2>1. pc = Every("exited") /\ slots = 0
    BY DEF Init
  <2>2. QED
    BY <2>1, NoHolders, ConsumerAssumption DEF SlotsAccounted, Held, ConsumerAssumption
<1>5. BatchBounds
  BY <1>3 DEF BatchBounds
<1>6. LoopInv /\ MapInv
  BY <1>3 DEF Init, LoopInv, MapInv
<1>7. ChainInv /\ HandledInOrder
  BY <1>3 DEF ChainInv, HandledInOrder, Holding
<1>8. CommittedFinished
  BY DEF Init, CommittedFinished
<1>9. QED
  BY <1>2, <1>4, <1>5, <1>6, <1>7, <1>8 DEF IInv

\* A stuttering step preserves the invariant.
LEMMA StutterInv ==
  ASSUME IInv, UNCHANGED vars
  PROVE  IInv'
<1>1. UNCHANGED <<committed, finished, owner, fenced, faults, run, fetch, target, sig, fatal,
                  assigned, worker, callback, cbWorkers, closing, closeWorkers, slots, part,
                  queue, lo, hi, at, tries, pc, quit, cancelled, abandoned, stop, doomed, fresh>>
  BY DEF vars, brokerVars, loopVars, groupVars, batchVars, stopVars
<1>2. TypeOK' /\ SlotsAccounted' /\ BatchBounds' /\ LoopInv'
  BY <1>1 DEF IInv, TypeOK, SlotsAccounted, BatchBounds, LoopInv
<1>3. MapInv' /\ ChainInv' /\ HandledInOrder' /\ CommittedFinished'
  BY <1>1 DEF IInv, MapInv, ChainInv, HandledInOrder, CommittedFinished, Stopped, Contiguous,
     Continues, Tip
<1>4. QED
  BY <1>2, <1>3 DEF IInv

\* The inductive invariant holds in every reachable state.
THEOREM InductiveInvariant ==
  Spec => []IInv
<1>1. Init => IInv
  BY InitInv
<1>2. IInv /\ [Next]_vars => IInv'
  BY WorkerStepInv, StopStepInv, GroupStepInv, LoopStepInv, LifecycleStepInv, StutterInv
     DEF Next
<1>3. QED
  BY <1>1, <1>2, PTL DEF Spec

\* Every state component keeps its type; in particular the slot counter never
\* goes below zero and a record is never tried more often than MaxTries.
THEOREM TypeCorrect ==
  Spec => []TypeOK
<1>1. IInv => TypeOK
  BY DEF IInv
<1>2. QED
  BY <1>1, InductiveInvariant, PTL

\* The offset rule of processBatch for any number of partitions, workers,
\* records and faults: nothing below a committed offset is unfinished.
THEOREM OffsetRule ==
  Spec => []CommittedFinished
<1>1. IInv => CommittedFinished
  BY DEF IInv
<1>2. QED
  BY <1>1, InductiveInvariant, PTL

\* A worker handles a record only after every earlier record of its partition
\* is finished.
THEOREM InOrder ==
  Spec => []HandledInOrder
<1>1. IInv => HandledInOrder
  BY DEF IInv
<1>2. QED
  BY <1>1, InductiveInvariant, PTL

\* No path out of processBatch leaks or returns twice a handler slot.
THEOREM NoSlotLeak ==
  Spec => []SlotsAccounted
<1>1. IInv => SlotsAccounted
  BY DEF IInv
<1>2. QED
  BY <1>1, InductiveInvariant, PTL

-----------------------------------------------------------------------------
(* The consumer implements AtLeastOnce.                                    *)

\* A step of a slot holder finishes the next record of its partition, or moves
\* the partition's offset to where its records are finished.
LEMMA HoldImplements ==
  ASSUME IInv, NEW w \in Workers, HoldStep(w)
  PROVE  ALO!AloNext \/ UNCHANGED <<finished, committed>>
<1>1. /\ part[w] \in Partitions /\ at[w] \in 0..LogEnd /\ hi[w] \in 0..LogEnd
      /\ pc[w] \in Holding
  BY DEF IInv, TypeOK, HoldStep, Offsets
<1>2. ALO!Prefix(finished, part[w], at[w])
  BY <1>1 DEF IInv, HandledInOrder, ALO!Prefix
<1>3. CASE pc[w] = "sent" /\ committed' = [committed EXCEPT ![part[w]] = at[w]]
  <2>1. finished' = finished
    BY <1>3 DEF HoldStep
  <2>2. ALO!MoveOffset(part[w])
    BY <1>1, <1>2, <1>3, <2>1 DEF ALO!MoveOffset
  <2>3. QED
    BY <1>1, <2>1, <2>2 DEF ALO!AloNext
<1>4. CASE committed' = committed /\ finished' # finished
  <2>1. pc[w] \in {"handle", "record"} /\ finished' = finished \cup {<<part[w], at[w]>>}
    BY <1>4 DEF HoldStep
  <2>2. at[w] < hi[w]
    BY <2>1 DEF IInv, BatchBounds
  <2>3. at[w] \in 0..(LogEnd - 1)
    BY <1>1, <2>2, ConsumerAssumption DEF ConsumerAssumption
  <2>4. ALO!FinishNext(part[w])
    BY <1>2, <2>1, <2>3 DEF ALO!FinishNext
  <2>5. QED
    BY <1>1, <1>4, <2>4 DEF ALO!AloNext
<1>5. QED
  BY <1>3, <1>4 DEF HoldStep

\* Another member finishes the record after its committed offset and commits
\* it, in one step.
LEMMA OtherImplements ==
  ASSUME IInv, NEW p \in Partitions, OtherFinishes(p)
  PROVE  ALO!AloNext
<1>1. /\ committed[p] \in 0..LogEnd /\ committed[p] < LogEnd
      /\ finished' = finished \cup {<<p, committed[p]>>}
      /\ committed' = [committed EXCEPT ![p] = committed[p] + 1]
  BY DEF IInv, TypeOK, OtherFinishes, Offsets
<1>2. committed[p] \in 0..(LogEnd - 1) /\ committed[p] + 1 \in 0..LogEnd
  BY <1>1, ConsumerAssumption DEF ConsumerAssumption
<1>3. ALO!Prefix(finished, p, committed[p])
  BY DEF IInv, CommittedFinished, ALO!Prefix
<1>4. ALO!Prefix(finished', p, committed[p] + 1)
  <2>1. \A o \in 0..((committed[p] + 1) - 1) : o = committed[p] \/ o \in 0..(committed[p] - 1)
    BY <1>1
  <2>2. \A o \in 0..((committed[p] + 1) - 1) : <<p, o>> \in finished'
    BY <1>1, <1>3, <2>1 DEF ALO!Prefix
  <2>3. QED
    BY <2>2 DEF ALO!Prefix
<1>5. ALO!FinishNext(p) /\ ALO!MoveOffset(p)
  BY <1>1, <1>2, <1>3, <1>4 DEF ALO!FinishNext, ALO!MoveOffset
<1>6. QED
  BY <1>5 DEF ALO!AloNext

\* No other step finishes a record or moves an offset.
LEMMA RestImplements ==
  ASSUME \/ \E w \in Workers :
              Receive(w) \/ Exit(w) \/ AcquireSlot(w) \/ DropBatch(w) \/ StopStep(w)
         \/ OnRevoked \/ OnLost \/ CallbackReturns \/ SessionExpires
         \/ \E p \in Partitions : OnAssigned(p) \/ OtherTakes(p) \/ OtherLeaves(p)
         \/ LoopStep \/ LifecycleStep
  PROVE  UNCHANGED <<finished, committed>>
<1>1. CASE \E w \in Workers : Receive(w) \/ Exit(w) \/ AcquireSlot(w) \/ DropBatch(w)
  BY <1>1 DEF Receive, Exit, AcquireSlot, DropBatch, brokerVars
<1>2. CASE \E w \in Workers : StopStep(w)
  BY <1>2 DEF StopStep, StopReturns, DrainTimeout, GraceTimeout, StopFrame, brokerVars
<1>3. CASE OnRevoked \/ OnLost \/ CallbackReturns \/ SessionExpires
  BY <1>3 DEF OnRevoked, OnLost, CallbackReturns, SessionExpires, Callback, brokerVars
<1>4. CASE \E p \in Partitions : OnAssigned(p) \/ OtherTakes(p) \/ OtherLeaves(p)
  BY <1>4 DEF OnAssigned, AssignFrom, OtherTakes, OtherLeaves
<1>5. CASE LoopStep
  BY <1>5 DEF LoopStep, PollFetches, Enqueue, EnqueueStopped, EnqueueCancelled, DispatchDone,
     RunReturns, Dispatch, LoopFrame, brokerVars
<1>6. CASE LifecycleStep
  BY <1>6 DEF LifecycleStep, ShutdownSignal, CloseBegins, CloseCancels, LeaveGroup,
     ProcessExits, Crash, NewProcess, Callback, brokerVars
<1>7. QED
  BY <1>1, <1>2, <1>3, <1>4, <1>5, <1>6

\* ImplementsAtLeastOnce: hidden behind the finished records and the committed
\* offsets, the poll loop, its workers, the callbacks, Close, other members,
\* crashes and restarts do nothing that AtLeastOnce does not allow.
THEOREM Refinement ==
  Spec => ImplementsAtLeastOnce
<1>1. Init => ALO!AloInit
  BY DEF Init, ALO!AloInit
<1>2. ASSUME IInv, [Next]_vars
      PROVE  [ALO!AloNext]_(ALO!aloVars)
  <2>1. ASSUME NEW w \in Workers, SlotStep(w)
        PROVE  ALO!AloNext \/ UNCHANGED <<finished, committed>>
    BY <1>2, <2>1, SlotStepHolds, HoldImplements DEF IInv
  <2>2. CASE UNCHANGED vars
    BY <2>2 DEF vars, brokerVars, ALO!aloVars
  <2>3. CASE \E w \in Workers : WorkerStep(w) \/ StopStep(w)
    BY <2>1, <2>3, RestImplements DEF WorkerStep, SlotStep, ALO!aloVars
  <2>4. CASE GroupStep
    BY <1>2, <2>4, OtherImplements, RestImplements DEF GroupStep, ALO!aloVars
  <2>5. CASE LoopStep \/ LifecycleStep
    BY <2>5, RestImplements DEF ALO!aloVars
  <2>6. QED
    BY <1>2, <2>2, <2>3, <2>4, <2>5 DEF Next
<1>3. QED
  BY <1>1, <1>2, InductiveInvariant, PTL DEF Spec, ImplementsAtLeastOnce, ALO!AloSpec

-----------------------------------------------------------------------------
(* Handing a partition over.                                               *)

\* The workers a callback waits for come from partitions the client gave up
\* and still owns in the group until the callback returns, one for each; and
\* until Close, a goroutine that runs and was not abandoned is in the map or
\* waited for.
HandoverInv ==
  /\ callback = "none" => cbWorkers = {}
  /\ \A w \in cbWorkers :
       /\ worker[part[w]] = None
       /\ owner[part[w]] = "self" \/ fenced
       /\ \A v \in cbWorkers : part[v] = part[w] => v = w
  /\ closing = "open" =>
       \A w \in Workers : (pc[w] # "exited" /\ w \notin abandoned) =>
         worker[part[w]] = w \/ w \in cbWorkers

\* Steps that move nothing between the map and a callback, other than ending
\* the wait for a worker that has exited or is given up.
HandoverKept ==
  /\ UNCHANGED <<worker, part, callback>>
  /\ fenced => fenced'
  /\ \A p \in Partitions : owner[p] = "self" => owner'[p] = "self" \/ fenced'
  /\ closing' = "open" => closing = "open"
  /\ abandoned \subseteq abandoned'
  /\ \A w \in Workers : pc'[w] # "exited" => pc[w] # "exited"
  /\ cbWorkers' \subseteq cbWorkers
  /\ \A w \in cbWorkers \ cbWorkers' : pc'[w] = "exited" \/ w \in abandoned'

\* Such steps preserve the handover.
LEMMA HandoverKeptInv ==
  ASSUME TypeOK, HandoverInv, HandoverKept
  PROVE  HandoverInv'
<1>1. \A w \in cbWorkers : w \in Workers /\ part[w] \in Partitions
  BY DEF TypeOK
<1>2. callback' = "none" => cbWorkers' = {}
  BY DEF HandoverInv, HandoverKept
<1>3. \A w \in cbWorkers' :
        /\ worker'[part'[w]] = None
        /\ owner'[part'[w]] = "self" \/ fenced'
        /\ \A v \in cbWorkers' : part'[v] = part'[w] => v = w
  BY <1>1 DEF HandoverInv, HandoverKept
<1>4. closing' = "open" =>
        \A w \in Workers : (pc'[w] # "exited" /\ w \notin abandoned') =>
          worker'[part'[w]] = w \/ w \in cbWorkers'
  BY DEF HandoverInv, HandoverKept
<1>5. QED
  BY <1>2, <1>3, <1>4 DEF HandoverInv

\* The goroutines' own steps, stop calls, other members, an expired session,
\* the poll loop and Close's cancellation are such steps.
LEMMA MostStepsKeep ==
  ASSUME IInv,
         \/ \E w \in Workers : WorkerStep(w) \/ StopStep(w)
         \/ SessionExpires
         \/ \E p \in Partitions : OtherTakes(p) \/ OtherFinishes(p) \/ OtherLeaves(p)
         \/ LoopStep \/ ShutdownSignal \/ CloseCancels
         \/ UNCHANGED vars
  PROVE  HandoverKept
<1>1. ASSUME NEW w \in Workers, WorkerStep(w)
      PROVE  HandoverKept
  <2>1. pc \in [Workers -> PC]
    BY DEF IInv, TypeOK
  <2>2. ASSUME SlotStep(w)
        PROVE  HandoverKept
    <3>1. HoldStep(w)
      BY <2>2, SlotStepHolds DEF IInv
    <3>2. pc[w] # "exited" /\ \E x \in PC : pc' = Set(pc, w, x)
      BY <3>1 DEF HoldStep, GoesOn, GoesToCommit, Sends, GoesIdle, GoesAway, InHand, PC, Holding
    <3>3. \A v \in Workers : pc'[v] # "exited" => pc[v] # "exited"
      BY <2>1, <3>2 DEF Set
    <3>4. UNCHANGED <<worker, part, callback, fenced, owner, closing, abandoned, cbWorkers>>
      BY <3>1 DEF HoldStep, HoldFrame, groupVars
    <3>5. QED
      BY <3>3, <3>4 DEF HandoverKept
  <2>3. ASSUME Receive(w) \/ Exit(w) \/ AcquireSlot(w) \/ DropBatch(w)
        PROVE  HandoverKept
    <3>1. pc[w] # "exited" /\ \E x \in PC : pc' = Set(pc, w, x)
      BY <2>3 DEF Receive, Exit, AcquireSlot, DropBatch, PC, Holding
    <3>2. \A v \in Workers : pc'[v] # "exited" => pc[v] # "exited"
      BY <2>1, <3>1 DEF Set
    <3>3. UNCHANGED <<worker, part, callback, fenced, owner, closing, abandoned, cbWorkers>>
      BY <2>3 DEF Receive, Exit, AcquireSlot, DropBatch, WorkerFrame, brokerVars, groupVars,
                  stopVars
    <3>4. QED
      BY <3>2, <3>3 DEF HandoverKept
  <2>4. QED
    BY <1>1, <2>2, <2>3 DEF WorkerStep, SlotStep
<1>2. ASSUME NEW w \in Workers, StopStep(w)
      PROVE  HandoverKept
  <2>1. UNCHANGED <<worker, part, callback, fenced, owner, closing, pc>>
    BY <1>2 DEF StopStep, StopReturns, DrainTimeout, GraceTimeout, StopFrame, brokerVars,
                batchVars
  <2>2. /\ abandoned \subseteq abandoned'
        /\ cbWorkers' \subseteq cbWorkers
        /\ \A v \in cbWorkers \ cbWorkers' : pc[v] = "exited" \/ v \in abandoned'
    BY <1>2 DEF StopStep, StopReturns, DrainTimeout, GraceTimeout, Release
  <2>3. QED
    BY <2>1, <2>2 DEF HandoverKept
<1>3. CASE SessionExpires \/ \E p \in Partitions : OtherTakes(p) \/ OtherFinishes(p) \/ OtherLeaves(p)
  <2>1. UNCHANGED <<worker, part, callback, closing, pc, abandoned, cbWorkers>>
    BY <1>3 DEF SessionExpires, OtherTakes, OtherFinishes, OtherLeaves, OthersFrame, groupVars,
                batchVars, stopVars
  <2>2. /\ fenced => fenced'
        /\ \A p \in Partitions : owner[p] = "self" => owner'[p] = "self" \/ fenced'
    BY <1>3 DEF SessionExpires, OtherTakes, OtherFinishes, OtherLeaves, OthersFrame, IInv, TypeOK
  <2>3. QED
    BY <2>1, <2>2 DEF HandoverKept
<1>4. CASE LoopStep
  BY <1>4 DEF HandoverKept, LoopStep, PollFetches, Enqueue, EnqueueStopped, EnqueueCancelled,
     DispatchDone, RunReturns, Dispatch, LoopFrame, brokerVars, groupVars, stopVars
<1>5. CASE ShutdownSignal \/ CloseCancels \/ UNCHANGED vars
  BY <1>5 DEF HandoverKept, ShutdownSignal, CloseCancels, vars, brokerVars, groupVars,
     batchVars, stopVars
<1>6. QED
  BY <1>1, <1>2, <1>3, <1>4, <1>5

\* A callback takes the workers of the partitions it gives up out of the map.
LEMMA CallbackHandover ==
  ASSUME IInv, HandoverInv, callback = "none", NEW kind \in {"revoke", "lost", "leave"},
         NEW P \in SUBSET Partitions, NEW abort \in BOOLEAN, Callback(kind, P, abort)
  PROVE  HandoverInv'
<1> DEFINE taken == {worker[p] : p \in P} \ {None}
<1>1. /\ callback' = kind
      /\ worker' = [p \in Partitions |-> IF p \in P THEN None ELSE worker[p]]
      /\ cbWorkers' = taken
      /\ UNCHANGED <<owner, fenced, closing, part, pc, abandoned>>
  BY DEF Callback, BeginStop, brokerVars, batchVars
<1>2. cbWorkers = {}
  BY DEF HandoverInv
<1>3. \A w \in taken : part[w] \in P /\ worker[part[w]] = w
  BY DEF IInv, MapInv
<1>4. \A w \in taken :
        /\ worker'[part[w]] = None
        /\ owner[part[w]] = "self" \/ fenced
        /\ \A v \in taken : part[v] = part[w] => v = w
  BY <1>1, <1>3 DEF IInv, MapInv
<1>5. \A w \in Workers : part[w] \in Partitions
  BY DEF IInv, TypeOK
<1>6. closing = "open" =>
        \A w \in Workers : (pc[w] # "exited" /\ w \notin abandoned) =>
          worker'[part[w]] = w \/ w \in taken
  BY <1>1, <1>2, <1>5, ConsumerAssumption DEF HandoverInv, ConsumerAssumption
<1>7. QED
  BY <1>1, <1>4, <1>6 DEF HandoverInv

\* A new worker takes a partition that no callback still hands over.
LEMMA AssignHandover ==
  ASSUME IInv, HandoverInv, NEW p \in Partitions, OnAssigned(p)
  PROVE  HandoverInv'
<1>1. /\ UNCHANGED <<callback, cbWorkers, fenced, closing>>
      /\ callback = "none" /\ cbWorkers = {}
  BY DEF OnAssigned, AssignFrom, MayRebalance, HandoverInv
<1>2. CASE worker[p] # None
  BY <1>1, <1>2 DEF OnAssigned, AssignFrom, HandoverInv, batchVars
<1>3. CASE worker[p] = None
  <2>1. PICK w \in Workers : Unused(w) /\ NewWorker(w, p)
    BY <1>3 DEF OnAssigned, AssignFrom
  <2>2. /\ worker' = [worker EXCEPT ![p] = w]
        /\ part' = [part EXCEPT ![w] = p]
        /\ pc' = [pc EXCEPT ![w] = "idle"]
        /\ abandoned' = abandoned \ {w}
        /\ worker \in [Partitions -> Workers \cup {None}]
        /\ part \in [Workers -> Partitions] /\ pc \in [Workers -> PC]
    BY <2>1 DEF NewWorker, Set, IInv, TypeOK
  <2>3. ASSUME closing = "open", NEW v \in Workers, pc'[v] # "exited", v \notin abandoned'
        PROVE  worker'[part'[v]] = v
    <3>1. CASE v = w
      BY <2>2, <3>1
    <3>2. CASE v # w
      <4>1. part'[v] = part[v] /\ pc[v] # "exited" /\ v \notin abandoned
        BY <2>2, <2>3, <3>2
      <4>2. worker[part[v]] = v
        BY <1>1, <2>3, <4>1 DEF HandoverInv
      <4>3. part[v] # p
        BY <1>3, <4>2, ConsumerAssumption DEF ConsumerAssumption
      <4>4. QED
        BY <2>2, <4>1, <4>2, <4>3
    <3>3. QED
      BY <3>1, <3>2
  <2>4. QED
    BY <1>1, <2>3 DEF HandoverInv
<1>4. QED
  BY <1>2, <1>3

\* Every step preserves the handover.
LEMMA HandoverStep ==
  ASSUME IInv, HandoverInv, [Next]_vars
  PROVE  HandoverInv'
<1>1. CASE HandoverKept
  BY <1>1, HandoverKeptInv DEF IInv
<1>2. CASE \E p \in Partitions : OnAssigned(p)
  BY <1>2, AssignHandover
<1>3. CASE OnRevoked
  <2>1. PICK P \in SUBSET assigned \ {{}} : Callback("revoke", P, FALSE)
    BY <1>3 DEF OnRevoked
  <2>2. P \in SUBSET Partitions
    BY DEF IInv, TypeOK
  <2>3. QED
    BY <1>3, <2>1, <2>2, CallbackHandover DEF OnRevoked, MayRebalance
<1>4. CASE OnLost
  <2>1. assigned \in SUBSET Partitions
    BY DEF IInv, TypeOK
  <2>2. QED
    BY <1>4, <2>1, CallbackHandover DEF OnLost, MayRebalance
<1>5. CASE LeaveGroup
  BY <1>5, CallbackHandover DEF LeaveGroup
<1>6. CASE CallbackReturns
  BY <1>6 DEF CallbackReturns, HandoverInv, batchVars, stopVars
<1>7. CASE CloseBegins
  <2>1. /\ worker' = [p \in Partitions |-> None]
        /\ closing' = "stopping"
        /\ UNCHANGED <<callback, cbWorkers, owner, fenced, part>>
    BY <1>7 DEF CloseBegins, brokerVars, batchVars
  <2>2. \A w \in cbWorkers : part[w] \in Partitions
    BY DEF IInv, TypeOK
  <2>3. QED
    BY <2>1, <2>2 DEF HandoverInv
<1>8. CASE ProcessExits \/ Crash
  <2>1. callback' = "none" /\ cbWorkers' = {} /\ \A w \in Workers : pc'[w] = "exited"
    BY <1>8 DEF ProcessExits, Crash, NewProcess, Every
  <2>2. QED
    BY <2>1 DEF HandoverInv
<1>9. QED
  BY <1>1, <1>2, <1>3, <1>4, <1>5, <1>6, <1>7, <1>8, MostStepsKeep
     DEF Next, GroupStep, LifecycleStep

\* The handover invariant holds throughout.
THEOREM HandoverSound ==
  Spec => []HandoverInv
<1>1. Init => HandoverInv
  <2>1. Init => callback = "none" /\ cbWorkers = {} /\ \A w \in Workers : pc[w] = "exited"
    BY DEF Init, Every
  <2>2. QED
    BY <2>1 DEF HandoverInv
<1>2. IInv /\ HandoverInv /\ [Next]_vars => HandoverInv'
  BY HandoverStep
<1>3. QED
  BY <1>1, <1>2, InductiveInvariant, PTL DEF Spec

\* OneWorkerPerPartition, for any number of partitions, workers and
\* rebalances: two goroutines work on one partition only if stop gave up on
\* one of them or Close is draining.
THEOREM OneWorker ==
  Spec => []OneWorkerPerPartition
<1>1. HandoverInv => OneWorkerPerPartition
  <2>1. SUFFICES ASSUME HandoverInv, closing = "open", NEW v \in Workers, NEW w \in Workers,
                        v # w, part[v] = part[w], pc[v] # "exited", pc[w] # "exited",
                        v \notin abandoned, w \notin abandoned
                 PROVE  FALSE
    BY DEF OneWorkerPerPartition
  <2>2. /\ worker[part[v]] = v \/ v \in cbWorkers
        /\ worker[part[w]] = w \/ w \in cbWorkers
    BY <2>1 DEF HandoverInv
  <2>3. QED
    BY <2>1, <2>2, ConsumerAssumption DEF HandoverInv, ConsumerAssumption
<1>2. QED
  BY <1>1, HandoverSound, PTL

\* CommitOnlyByOwner: a commit that the broker applies for a worker that was
\* not abandoned, before Close, is for a partition the member still owns.
THEOREM OwnerCommits ==
  Spec => CommitOnlyByOwner
<1>1. ASSUME IInv, HandoverInv, [Next]_vars, NEW w \in Workers, pc[w] = "sent",
             pc'[w] # "sent", committed'[part[w]] # committed[part[w]],
             w \notin abandoned, closing = "open"
      PROVE  owner[part[w]] = "self"
  <2>1. pc \in [Workers -> PC] /\ part[w] \in Partitions
    BY <1>1 DEF IInv, TypeOK
  <2>2. ~fenced
    <3>1. ~(UNCHANGED <<finished, committed>>)
      BY <1>1
    <3>2. CASE \E p \in Partitions : OtherFinishes(p)
      BY <1>1, <3>2 DEF OtherFinishes, OthersFrame
    <3>3. ASSUME NEW v \in Workers, SlotStep(v)
          PROVE  ~fenced
      <4>1. HoldStep(v)
        BY <1>1, <3>3, SlotStepHolds DEF IInv
      <4>2. v = w
        <5>1. \E x \in PC : pc' = Set(pc, v, x)
          BY <4>1 DEF HoldStep, GoesOn, GoesToCommit, Sends, GoesIdle, GoesAway, InHand, PC, Holding
        <5>2. QED
          BY <1>1, <2>1, <5>1 DEF Set
      <4>3. CommitReturns(w)
        BY <1>1, <3>3, <4>2 DEF SlotStep, HandlerOk, HandlerPermanent, HandlerTransient,
           HandlerMissing, BackoffElapsed, BackoffInterrupted, RecordOk, RecordError,
           SendCommit, WorkerPanic
      <4>4. QED
        BY <1>1, <4>3 DEF CommitReturns
    <3>4. QED
      BY <1>1, <3>1, <3>2, <3>3, RestImplements DEF Next, GroupStep, WorkerStep, SlotStep, vars,
         brokerVars
  <2>3. worker[part[w]] = w \/ w \in cbWorkers
    BY <1>1 DEF HandoverInv
  <2>4. CASE worker[part[w]] = w
    BY <1>1, <2>1, <2>2, <2>4, ConsumerAssumption DEF IInv, MapInv, ConsumerAssumption
  <2>5. CASE w \in cbWorkers
    BY <1>1, <2>2, <2>5 DEF HandoverInv
  <2>6. QED
    BY <2>3, <2>4, <2>5
<1>2. IInv /\ HandoverInv /\ [Next]_vars =>
        [\A w \in Workers :
           (/\ pc[w] = "sent"
            /\ pc'[w] # "sent"
            /\ committed'[part[w]] # committed[part[w]]
            /\ w \notin abandoned
            /\ closing = "open")
           => owner[part[w]] = "self"]_vars
  BY <1>1
<1>3. QED
  BY <1>2, InductiveInvariant, HandoverSound, PTL DEF Spec, CommitOnlyByOwner

=============================================================================
