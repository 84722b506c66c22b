------------------------------ MODULE Consumer ------------------------------
(***************************************************************************)
(* The Kafka consumer of internal/ingestion: the poll loop (Consumer.Run), *)
(* one partitionWorker goroutine per assigned partition, the group         *)
(* callbacks that create and stop workers, and Close.  The broker, the     *)
(* consumer-group protocol as franz-go presents it, the other members of   *)
(* the group and the topic handlers are external and nondeterministic.     *)
(*                                                                         *)
(* A record is a pair <<p, o>>: offset o of partition p.  A batch is the   *)
(* interval lo .. hi-1 of offsets.  Steps of one goroutine that touch no   *)
(* shared state are merged with the step before them.                      *)
(***************************************************************************)
EXTENDS Naturals, Sequences, FiniteSets

CONSTANTS
  Partitions,             \* the topic-partitions of the group's topics
  Workers,                \* identities of partitionWorker goroutines
  None,                   \* no worker
  LogEnd,                 \* records per partition
  MaxPoll,                \* records one fetch may return per partition
  QueueDepth,             \* Config.PartitionQueueDepth
  MaxConcurrentHandlers,  \* Config.MaxConcurrentHandlers, size of slots
  MaxTries,               \* RetryPolicy.MaxTries
  MaxFaults               \* bound on environment faults in one behaviour

ASSUME ConsumerAssumption ==
  /\ Partitions # {}
  /\ IsFiniteSet(Workers)
  /\ None \notin Workers
  /\ LogEnd \in Nat
  /\ MaxPoll \in Nat \ {0}
  /\ QueueDepth \in Nat \ {0}
  /\ MaxConcurrentHandlers \in Nat \ {0}
  /\ MaxTries \in 1..10
  /\ MaxFaults \in Nat

VARIABLES
  \* The broker and the group, as seen from outside the process.
  committed,   \* [Partitions -> offset]: the group's committed offsets
  finished,    \* records handled, or whose failure was durably recorded
  owner,       \* [Partitions -> "self" | "other" | "none"]
  fenced,      \* the broker dropped this member (session expired)
  faults,      \* environment faults left
  \* The poll loop.
  run,         \* "poll" | "dispatch" | "returned"
  fetch,       \* [Partitions -> batch]: fetched and not yet handed over
  target,      \* the worker dispatch is enqueueing to, or None
  sig,         \* the run context was cancelled from outside
  fatal,       \* fatalErr is set and fatalCtx cancelled
  \* Workers map, callbacks and Close.
  assigned,    \* partitions the client fetches
  worker,      \* Consumer.workers: [Partitions -> Workers or None]
  callback,    \* group callback running: "none" | "revoke" | "lost" | "leave"
  cbWorkers,   \* workers the callback still waits for
  closing,     \* "open" | "stopping" | "leaving" | "closed"
  closeWorkers,\* workers Close still waits for
  slots,       \* slots taken from the shared limiter
  \* One entry per worker.
  part,        \* its partition
  pc,          \* where its goroutine is
  queue,       \* batches channel
  lo, hi, at,  \* current batch and the next record of it
  tries,       \* attempts made on the current record
  stop,        \* its stop call: "none" | "drain" | "grace"
  \* Sets of workers.
  quit,        \* quit closed (and the retry context cancelled)
  cancelled,   \* context cancelled
  abandoned,   \* stop gave up on it
  doomed,      \* reports a fatal error and exits after its commit
  fresh        \* its commit request carries the current generation

brokerVars == <<committed, finished, owner, fenced>>
loopVars   == <<run, fetch, target, sig>>
groupVars  == <<assigned, worker, callback, cbWorkers, closing, closeWorkers>>
batchVars  == <<part, queue, lo, hi, at, tries>>
stopVars   == <<quit, cancelled, abandoned, stop>>
vars == <<brokerVars, faults, loopVars, fatal, groupVars, slots, batchVars,
          pc, stopVars, doomed, fresh>>

Offsets == 0..LogEnd
Batch   == [lo : Offsets, hi : Offsets]

\* Goroutine states: a worker in Holding has taken a slot.
Holding == {"handle", "backoff", "record", "checked", "sent"}
PC == Holding \cup {"idle", "slot", "exited"}

\* worker.stopping() || ctx.Err() != nil; also when the retry context, a
\* child of ctx that stop cancels together with closing quit, is cancelled.
Stopped(w) == w \in quit \cup cancelled

Records(p, from, to) == {p} \X (from..(to - 1))

-----------------------------------------------------------------------------
Set(f, w, v) == [f EXCEPT ![w] = v]
Every(v)     == [w \in Workers |-> v]

\* The set W with w in it exactly if cond holds.
Mark(W, w, cond) == IF cond THEN W \cup {w} ELSE W \ {w}

Init ==
  /\ committed = [p \in Partitions |-> 0]
  /\ finished = {}
  /\ owner = [p \in Partitions |-> "none"]
  /\ fenced = FALSE
  /\ faults = MaxFaults
  /\ run = "poll"
  /\ fetch = [p \in Partitions |-> [lo |-> 0, hi |-> 0]]
  /\ target = None
  /\ sig = FALSE
  /\ fatal = FALSE
  /\ assigned = {}
  /\ worker = [p \in Partitions |-> None]
  /\ callback = "none"
  /\ cbWorkers = {}
  /\ closing = "open"
  /\ closeWorkers = {}
  /\ slots = 0
  /\ part = Every(CHOOSE p \in Partitions : TRUE)
  /\ pc = Every("exited")
  /\ queue = Every(<<>>)
  /\ lo = Every(0)
  /\ hi = Every(0)
  /\ at = Every(0)
  /\ tries = Every(0)
  /\ quit = {}
  /\ cancelled = Workers
  /\ abandoned = {}
  /\ doomed = {}
  /\ fresh = {}
  /\ stop = Every("none")

Fault == faults > 0 /\ faults' = faults - 1

-----------------------------------------------------------------------------
(* partitionWorker                                                         *)

\* The deferred slot release of processBatch, and what its caller does next:
\* run takes the next batch, or (doom) onFatal is called, run returns and its
\* deferred calls cancel the context and close done.
Leave(w, doom) ==
  /\ slots' = slots - 1
  /\ pc' = Set(pc, w, IF doom THEN "exited" ELSE "idle")
  /\ cancelled' = IF doom THEN cancelled \cup {w} ELSE cancelled
  /\ fatal' = IF doom THEN TRUE ELSE fatal

\* commit(recs[:processed]) up to the abandoned check: an empty prefix and an
\* abandoned worker commit nothing.
Commit(w, n, doom) ==
  /\ at' = Set(at, w, n)
  /\ IF n = lo[w] \/ w \in abandoned
     THEN Leave(w, doom) /\ UNCHANGED doomed
     ELSE /\ pc' = Set(pc, w, "checked")
          /\ doomed' = Mark(doomed, w, doom)
          /\ UNCHANGED <<slots, cancelled, fatal>>

\* The record at at[w] is finished: the loop goes on to the next record
\* unless a stop or a cancellation is seen between records.
Finish(w) ==
  /\ finished' = finished \cup {<<part[w], at[w]>>}
  /\ IF at[w] + 1 < hi[w] /\ ~Stopped(w)
     THEN /\ at' = Set(at, w, at[w] + 1)
          /\ tries' = Set(tries, w, 1)
          /\ pc' = Set(pc, w, "handle")
          /\ UNCHANGED <<slots, cancelled, fatal, doomed>>
     ELSE Commit(w, at[w] + 1, FALSE) /\ UNCHANGED tries

\* Unchanged by every step a worker takes on its own.
WorkerFrame ==
  UNCHANGED <<owner, fenced, loopVars, groupVars, part, queue, lo, hi,
              quit, abandoned, stop, fresh>>

\* run: a pending stop wins over more work; with only the context cancelled
\* the select may still take a batch.
Receive(w) ==
  /\ pc[w] = "idle"
  /\ w \notin quit
  /\ queue[w] # <<>>
  /\ queue' = Set(queue, w, Tail(queue[w]))
  /\ lo' = Set(lo, w, Head(queue[w]).lo)
  /\ hi' = Set(hi, w, Head(queue[w]).hi)
  /\ at' = Set(at, w, Head(queue[w]).lo)
  /\ pc' = Set(pc, w, "slot")
  /\ UNCHANGED <<brokerVars, faults, loopVars, fatal, groupVars, slots, part,
                 tries, stopVars, doomed, fresh>>

Exit(w) ==
  /\ pc[w] = "idle"
  /\ Stopped(w)
  /\ pc' = Set(pc, w, "exited")
  /\ cancelled' = cancelled \cup {w}
  /\ WorkerFrame
  /\ UNCHANGED <<committed, finished, faults, fatal, slots, at, tries, doomed>>

\* processBatch: take a slot and start the first record.
AcquireSlot(w) ==
  /\ pc[w] = "slot"
  /\ slots < MaxConcurrentHandlers
  /\ ~Stopped(w)
  /\ slots' = slots + 1
  /\ pc' = Set(pc, w, "handle")
  /\ tries' = Set(tries, w, 1)
  /\ WorkerFrame
  /\ UNCHANGED <<committed, finished, faults, fatal, cancelled, at, doomed>>

\* A stop while waiting for a slot, or seen before the first record: the
\* batch is dropped, uncommitted.
DropBatch(w) ==
  /\ pc[w] = "slot"
  /\ Stopped(w)
  /\ pc' = Set(pc, w, "idle")
  /\ WorkerFrame
  /\ UNCHANGED <<committed, finished, faults, fatal, slots, cancelled, at,
                 tries, doomed>>

HandlerOk(w) ==
  /\ pc[w] = "handle"
  /\ Finish(w)
  /\ WorkerFrame
  /\ UNCHANGED <<committed, faults>>

\* handleRecord's answer to a failed attempt that retryHandle does not retry:
\* a stop makes it an interruption, else the failure is recorded.
Fail(w) ==
  IF Stopped(w)
  THEN Commit(w, at[w], FALSE)
  ELSE /\ pc' = Set(pc, w, "record")
       /\ UNCHANGED <<at, slots, cancelled, fatal, doomed>>

\* A permanent error (validation, conflict, unknown grid, contained panic).
HandlerPermanent(w) ==
  /\ pc[w] = "handle"
  /\ Fail(w)
  /\ WorkerFrame
  /\ UNCHANGED <<committed, finished, faults, tries>>

\* Mutant of HandlerTransient: one attempt too many.
BugOneMoreTry(w) ==
  /\ pc[w] = "handle"
  /\ IF tries[w] <= MaxTries /\ ~Stopped(w)
     THEN /\ pc' = Set(pc, w, "backoff")
          /\ UNCHANGED <<at, slots, cancelled, fatal, doomed>>
     ELSE Fail(w)
  /\ WorkerFrame
  /\ UNCHANGED <<committed, finished, faults, tries>>

\* A transient error: backoff.Retry gives up when the budget is spent or the
\* retry context is cancelled, else waits.
HandlerTransient(w) ==
  /\ pc[w] = "handle"
  /\ IF tries[w] < MaxTries /\ ~Stopped(w)
     THEN /\ pc' = Set(pc, w, "backoff")
          /\ UNCHANGED <<at, slots, cancelled, fatal, doomed>>
     ELSE Fail(w)
  /\ WorkerFrame
  /\ UNCHANGED <<committed, finished, faults, tries>>

\* Router.Route finds no handler for the topic: fatal, never recorded.
HandlerMissing(w) ==
  /\ pc[w] = "handle"
  /\ Fault
  /\ Commit(w, at[w], ~Stopped(w))
  /\ WorkerFrame
  /\ UNCHANGED <<committed, finished, tries>>

\* The wait between attempts ends, or a stop cuts it short; when both are
\* ready the select may take either.
BackoffElapsed(w) ==
  /\ pc[w] = "backoff"
  /\ pc' = Set(pc, w, "handle")
  /\ tries' = Set(tries, w, tries[w] + 1)
  /\ WorkerFrame
  /\ UNCHANGED <<committed, finished, faults, fatal, slots, cancelled, at,
                 doomed>>

BackoffInterrupted(w) ==
  /\ pc[w] = "backoff"
  /\ Stopped(w)
  /\ Commit(w, at[w], FALSE)
  /\ WorkerFrame
  /\ UNCHANGED <<committed, finished, faults, tries>>

\* recordFailure: finished once durably recorded; an error is fatal unless
\* the context was cancelled meanwhile.
RecordOk(w) ==
  /\ pc[w] = "record"
  /\ Finish(w)
  /\ WorkerFrame
  /\ UNCHANGED <<committed, faults>>

\* Mutant of RecordError: the failure is lost and the record skipped.
BugSkipUnrecorded(w) ==
  /\ pc[w] = "record"
  /\ Fault
  /\ Commit(w, at[w] + 1, FALSE)
  /\ WorkerFrame
  /\ UNCHANGED <<committed, finished, tries>>

RecordError(w) ==
  /\ pc[w] = "record"
  /\ IF w \in cancelled THEN UNCHANGED faults ELSE Fault
  /\ Commit(w, at[w], w \notin cancelled)
  /\ WorkerFrame
  /\ UNCHANGED <<committed, finished, tries>>

\* CommitRecords: the request leaves with the member's current generation.
SendCommit(w) ==
  /\ pc[w] = "checked"
  /\ pc' = Set(pc, w, "sent")
  /\ fresh' = fresh \cup {w}
  /\ UNCHANGED <<brokerVars, faults, loopVars, fatal, groupVars, slots,
                 batchVars, stopVars, doomed>>

\* The broker applies the commit of a current member; a rejected, lost or
\* timed-out commit is only logged.
CommitReturns(w) ==
  /\ pc[w] = "sent"
  /\ \/ /\ w \in fresh /\ ~fenced /\ closing # "closed"
        /\ committed' = [committed EXCEPT ![part[w]] = at[w]]
     \/ UNCHANGED committed
  /\ Leave(w, w \in doomed)
  /\ WorkerFrame
  /\ UNCHANGED <<finished, faults, at, tries, doomed>>

\* Mutant of WorkerPanic: the slot is not released by a deferred call.
BugPanicKeepsSlot(w) ==
  /\ pc[w] \in {"record", "sent"}
  /\ Fault
  /\ pc' = Set(pc, w, "exited")
  /\ cancelled' = cancelled \cup {w}
  /\ fatal' = TRUE
  /\ WorkerFrame
  /\ UNCHANGED <<committed, finished, slots, at, tries, doomed>>

\* A panic outside the handlers (the recorder, the committer), contained by
\* run: the slot is released, the consumer stops.
WorkerPanic(w) ==
  /\ pc[w] \in {"record", "sent"}
  /\ Fault
  /\ Leave(w, TRUE)
  /\ WorkerFrame
  /\ UNCHANGED <<committed, finished, at, tries, doomed>>

WorkerStep(w) ==
  \/ Receive(w) \/ Exit(w) \/ AcquireSlot(w) \/ DropBatch(w)
  \/ HandlerOk(w) \/ HandlerPermanent(w) \/ HandlerTransient(w)
  \/ HandlerMissing(w) \/ BackoffElapsed(w) \/ BackoffInterrupted(w)
  \/ RecordOk(w) \/ RecordError(w)
  \/ SendCommit(w) \/ CommitReturns(w) \/ WorkerPanic(w)

-----------------------------------------------------------------------------
(* partitionWorker.stop                                                    *)

\* Close quit, cancel the retry context and, to abort, the context.
BeginStop(W, abort) ==
  /\ quit' = quit \cup W
  /\ stop' = [w \in Workers |->
              IF w \notin W THEN stop[w]
              ELSE IF abort THEN "grace" ELSE "drain"]
  /\ cancelled' = IF abort THEN cancelled \cup W ELSE cancelled
  /\ UNCHANGED abandoned

\* stop returns to the callback or to Close.
Release(w) ==
  /\ stop' = Set(stop, w, "none")
  /\ cbWorkers' = cbWorkers \ {w}
  /\ closeWorkers' = closeWorkers \ {w}

StopFrame ==
  UNCHANGED <<brokerVars, faults, loopVars, fatal, assigned, worker, callback,
              closing, slots, batchVars, pc, quit, doomed, fresh>>

StopReturns(w) ==
  /\ stop[w] # "none"
  /\ pc[w] = "exited"
  /\ Release(w)
  /\ StopFrame
  /\ UNCHANGED <<cancelled, abandoned>>

DrainTimeout(w) ==
  /\ stop[w] = "drain"
  /\ pc[w] # "exited"
  /\ stop' = Set(stop, w, "grace")
  /\ cancelled' = cancelled \cup {w}
  /\ StopFrame
  /\ UNCHANGED <<abandoned, cbWorkers, closeWorkers>>

\* Mutant of GraceTimeout: stop waits for done without a limit.
BugWaitForDone(w) ==
  /\ stop[w] = "grace"
  /\ pc[w] = "exited"
  /\ Release(w)
  /\ StopFrame
  /\ UNCHANGED <<cancelled, abandoned>>

GraceTimeout(w) ==
  /\ stop[w] = "grace"
  /\ pc[w] # "exited"
  /\ abandoned' = abandoned \cup {w}
  /\ Release(w)
  /\ StopFrame
  /\ UNCHANGED cancelled

StopStep(w) == StopReturns(w) \/ DrainTimeout(w) \/ GraceTimeout(w)

-----------------------------------------------------------------------------
(* The consumer group, as franz-go presents it.  Callbacks run one at a    *)
(* time and never between a poll and AllowRebalance.                       *)

MayRebalance == callback = "none" /\ run # "dispatch"

\* A new generation: commits already on their way carry the old one.
NewGeneration == fresh' = {}

\* The partitions the client has given up become free in the group.
GiveUp == owner' = [p \in Partitions |->
                      IF owner[p] = "self" /\ p \notin assigned
                      THEN "none" ELSE owner[p]]

\* A worker identity no live goroutine, map entry or stop call uses.
Unused(w) ==
  /\ pc[w] = "exited"
  /\ w \notin cbWorkers \cup closeWorkers
  /\ \A p \in Partitions : worker[p] # w

\* newPartitionWorker and start.  Its context is a child of workerCtx, which
\* Close cancels.
NewWorker(w, p) ==
  /\ worker' = [worker EXCEPT ![p] = w]
  /\ part' = Set(part, w, p)
  /\ pc' = Set(pc, w, "idle")
  /\ queue' = Set(queue, w, <<>>)
  /\ lo' = Set(lo, w, committed[p])
  /\ hi' = Set(hi, w, committed[p])
  /\ at' = Set(at, w, committed[p])
  /\ tries' = Set(tries, w, 0)
  /\ quit' = quit \ {w}
  /\ cancelled' = Mark(cancelled, w, closing = "leaving")
  /\ abandoned' = abandoned \ {w}

\* onAssigned; the client starts fetching at offset start.
AssignFrom(p, start) ==
  /\ MayRebalance
  /\ ~fenced
  /\ closing # "closed"
  /\ owner[p] = "none"
  /\ owner' = [owner EXCEPT ![p] = "self"]
  /\ assigned' = assigned \cup {p}
  /\ fetch' = [fetch EXCEPT ![p] = [lo |-> start, hi |-> start]]
  /\ NewGeneration
  /\ IF worker[p] = None
     THEN \E w \in Workers : Unused(w) /\ NewWorker(w, p)
     ELSE UNCHANGED <<worker, batchVars, pc, quit, cancelled, abandoned>>
  /\ UNCHANGED <<committed, finished, fenced, faults, run, target, sig, fatal,
                 callback, cbWorkers, closing, closeWorkers, slots, stop,
                 doomed>>

\* Mutant of OnAssigned: consumption resumes at the end of the log.
BugAssignAtEnd(p) == AssignFrom(p, LogEnd)

OnAssigned(p) == AssignFrom(p, committed[p])

\* takeWorkers, then stopWorkers: one stop call per taken worker.
Callback(kind, P, abort) ==
  LET taken == {worker[p] : p \in P} \ {None} IN
  /\ callback' = kind
  /\ assigned' = assigned \ P
  /\ worker' = [p \in Partitions |-> IF p \in P THEN None ELSE worker[p]]
  /\ cbWorkers' = taken
  /\ BeginStop(taken, abort)
  /\ UNCHANGED <<brokerVars, loopVars, fatal, closing, closeWorkers, slots,
                 batchVars, pc, doomed, fresh>>

OnRevoked ==
  /\ MayRebalance
  /\ ~fenced
  /\ closing \in {"open", "stopping"}
  /\ Fault
  /\ \E P \in SUBSET assigned \ {{}} : Callback("revoke", P, FALSE)

OnLost ==
  /\ MayRebalance
  /\ fenced
  /\ closing \in {"open", "stopping"}
  /\ Callback("lost", assigned, TRUE)
  /\ UNCHANGED faults

\* Mutant of CallbackReturns: stopWorkers does not wait for the workers.
BugNoWait ==
  /\ callback # "none"
  /\ callback' = "none"
  /\ GiveUp
  /\ NewGeneration
  /\ fenced' = IF callback = "lost" THEN FALSE ELSE fenced
  /\ closing' = IF callback = "leave" THEN "closed" ELSE closing
  /\ UNCHANGED <<committed, finished, faults, loopVars, fatal, assigned,
                 worker, cbWorkers, closeWorkers, slots, batchVars, pc,
                 stopVars, doomed>>

\* The callback returns: the client rejoins (revoke, lost) or has left.
CallbackReturns ==
  /\ callback # "none"
  /\ cbWorkers = {}
  /\ callback' = "none"
  /\ GiveUp
  /\ NewGeneration
  /\ fenced' = IF callback = "lost" THEN FALSE ELSE fenced
  /\ closing' = IF callback = "leave" THEN "closed" ELSE closing
  /\ UNCHANGED <<committed, finished, faults, loopVars, fatal, assigned,
                 worker, cbWorkers, closeWorkers, slots, batchVars, pc,
                 stopVars, doomed>>

\* The session expires: the broker gives the member's partitions away before
\* the member hears of it.
SessionExpires ==
  /\ ~fenced
  /\ closing # "closed"
  /\ Fault
  /\ fenced' = TRUE
  /\ owner' = [p \in Partitions |->
                 IF owner[p] = "self" THEN "none" ELSE owner[p]]
  /\ UNCHANGED <<committed, finished, loopVars, fatal, groupVars, slots,
                 batchVars, pc, stopVars, doomed, fresh>>

OthersFrame ==
  UNCHANGED <<fenced, loopVars, fatal, groupVars, slots, batchVars, pc,
              stopVars, doomed>>

\* Another member of the group takes a free partition, works on it, leaves.
OtherTakes(p) ==
  /\ owner[p] = "none"
  /\ Fault
  /\ owner' = [owner EXCEPT ![p] = "other"]
  /\ NewGeneration
  /\ OthersFrame
  /\ UNCHANGED <<committed, finished>>

OtherFinishes(p) ==
  /\ owner[p] = "other"
  /\ committed[p] < LogEnd
  /\ finished' = finished \cup {<<p, committed[p]>>}
  /\ committed' = [committed EXCEPT ![p] = committed[p] + 1]
  /\ OthersFrame
  /\ UNCHANGED <<owner, faults, fresh>>

OtherLeaves(p) ==
  /\ owner[p] = "other"
  /\ owner' = [owner EXCEPT ![p] = "none"]
  /\ NewGeneration
  /\ OthersFrame
  /\ UNCHANGED <<committed, finished, faults>>

GroupStep ==
  \/ OnRevoked \/ OnLost \/ CallbackReturns \/ SessionExpires
  \/ \E p \in Partitions :
       OnAssigned(p) \/ OtherTakes(p) \/ OtherFinishes(p) \/ OtherLeaves(p)

-----------------------------------------------------------------------------
(* Consumer.Run and dispatch                                               *)

LoopFrame ==
  UNCHANGED <<brokerVars, faults, fatal, groupVars, slots, part, lo, hi, at,
              tries, pc, stopVars, doomed, fresh>>

\* Hand over p's records, or leave them uncommitted.
TakeFetched(p) == fetch' = [fetch EXCEPT ![p].lo = fetch[p].hi]

PollFetches ==
  /\ run = "poll"
  /\ ~sig
  /\ callback = "none"
  /\ closing # "closed"
  /\ \E to \in [Partitions -> Offsets] :
       /\ \A p \in Partitions :
            /\ to[p] >= fetch[p].hi
            /\ to[p] <= fetch[p].hi + MaxPoll
            /\ p \notin assigned => to[p] = fetch[p].hi
       /\ \E p \in Partitions : to[p] > fetch[p].hi
       /\ fetch' = [p \in Partitions |-> [lo |-> fetch[p].hi, hi |-> to[p]]]
  /\ run' = "dispatch"
  /\ LoopFrame
  /\ UNCHANGED <<target, sig, queue>>

\* workerFor and the first select of enqueue: no worker, or one that stopped
\* or is done, and the records are skipped.
Dispatch(p) ==
  /\ run = "dispatch"
  /\ target = None
  /\ fetch[p].lo < fetch[p].hi
  /\ IF worker[p] = None
     THEN TakeFetched(p) /\ UNCHANGED target
     ELSE IF worker[p] \in quit \/ pc[worker[p]] = "exited"
          THEN TakeFetched(p) /\ UNCHANGED target
          ELSE target' = worker[p] /\ UNCHANGED fetch
  /\ LoopFrame
  /\ UNCHANGED <<run, sig, queue>>

\* The second select of enqueue: whichever case is ready may be taken.
Enqueue ==
  /\ target # None
  /\ Len(queue[target]) < QueueDepth
  /\ queue' = Set(queue, target, Append(queue[target], fetch[part[target]]))
  /\ TakeFetched(part[target])
  /\ target' = None
  /\ LoopFrame
  /\ UNCHANGED <<run, sig>>

\* Mutant of EnqueueStopped: enqueue drops the batch instead of blocking.
BugDropWhenFull ==
  /\ target # None
  /\ TakeFetched(part[target])
  /\ target' = None
  /\ LoopFrame
  /\ UNCHANGED <<run, sig, queue>>

EnqueueStopped ==
  /\ target # None
  /\ target \in quit \/ pc[target] = "exited"
  /\ TakeFetched(part[target])
  /\ target' = None
  /\ LoopFrame
  /\ UNCHANGED <<run, sig, queue>>

\* Cancelled while back-pressured: the rest of the fetch is skipped and Run
\* returns after AllowRebalance.
EnqueueCancelled ==
  /\ target # None
  /\ sig \/ fatal
  /\ target' = None
  /\ fetch' = [p \in Partitions |-> [lo |-> fetch[p].hi, hi |-> fetch[p].hi]]
  /\ run' = "returned"
  /\ LoopFrame
  /\ UNCHANGED <<sig, queue>>

\* Everything handed over: AllowRebalance and poll again.
DispatchDone ==
  /\ run = "dispatch"
  /\ target = None
  /\ \A p \in Partitions : fetch[p].lo = fetch[p].hi
  /\ run' = "poll"
  /\ LoopFrame
  /\ UNCHANGED <<fetch, target, sig, queue>>

\* Mutant of RunReturns: a fatal error does not cancel the run context.
BugFatalIgnored ==
  /\ run = "poll"
  /\ sig \/ closing = "closed"
  /\ run' = "returned"
  /\ LoopFrame
  /\ UNCHANGED <<fetch, target, sig, queue>>

\* PollFetches returns because the run context is cancelled (a fatal error
\* cancels it too) or the client is closed.
RunReturns ==
  /\ run = "poll"
  /\ sig \/ fatal \/ closing = "closed"
  /\ run' = "returned"
  /\ LoopFrame
  /\ UNCHANGED <<fetch, target, sig, queue>>

LoopStep ==
  \/ PollFetches \/ Enqueue \/ EnqueueStopped \/ EnqueueCancelled
  \/ DispatchDone \/ RunReturns
  \/ \E p \in Partitions : Dispatch(p)

-----------------------------------------------------------------------------
(* Shutdown, Close and process restarts                                    *)

ShutdownSignal ==
  /\ ~sig
  /\ Fault
  /\ sig' = TRUE
  /\ UNCHANGED <<brokerVars, run, fetch, target, fatal, groupVars, slots,
                 batchVars, pc, stopVars, doomed, fresh>>

\* Close, once, after Run returned or the shutdown stopped waiting for it.
CloseBegins ==
  LET taken == {worker[p] : p \in Partitions} \ {None} IN
  /\ closing = "open"
  /\ run = "returned" \/ sig
  /\ closing' = "stopping"
  /\ worker' = [p \in Partitions |-> None]
  /\ closeWorkers' = taken
  /\ BeginStop(taken, FALSE)
  /\ UNCHANGED <<brokerVars, faults, loopVars, fatal, assigned, callback,
                 cbWorkers, slots, batchVars, pc, doomed, fresh>>

\* All stopped: workerCancel and fatalCancel.
CloseCancels ==
  /\ closing = "stopping"
  /\ closeWorkers = {}
  /\ closing' = "leaving"
  /\ cancelled' = Workers
  /\ sig' = TRUE
  /\ UNCHANGED <<brokerVars, faults, run, fetch, target, fatal, assigned,
                 worker, callback, cbWorkers, closeWorkers, slots, batchVars,
                 pc, quit, abandoned, stop, doomed, fresh>>

\* CloseAllowingRebalance: the client revokes what it still has and leaves.
LeaveGroup ==
  /\ closing = "leaving"
  /\ callback = "none"
  /\ Callback("leave", Partitions, FALSE)
  /\ UNCHANGED faults

\* The process is gone, with everything it held in memory; a new one starts.
NewProcess ==
  /\ owner' = [p \in Partitions |->
                 IF owner[p] = "self" THEN "none" ELSE owner[p]]
  /\ fenced' = FALSE
  /\ run' = "poll"
  /\ fetch' = [p \in Partitions |-> [lo |-> 0, hi |-> 0]]
  /\ target' = None
  /\ sig' = FALSE
  /\ fatal' = FALSE
  /\ assigned' = {}
  /\ worker' = [p \in Partitions |-> None]
  /\ callback' = "none"
  /\ cbWorkers' = {}
  /\ closing' = "open"
  /\ closeWorkers' = {}
  /\ slots' = 0
  /\ part' = Every(CHOOSE p \in Partitions : TRUE)
  /\ pc' = Every("exited")
  /\ queue' = Every(<<>>)
  /\ lo' = Every(0)
  /\ hi' = Every(0)
  /\ at' = Every(0)
  /\ tries' = Every(0)
  /\ quit' = {}
  /\ cancelled' = Workers
  /\ abandoned' = {}
  /\ doomed' = {}
  /\ fresh' = {}
  /\ stop' = Every("none")
  /\ UNCHANGED <<committed, finished>>

\* main returns after the shutdown; the process manager starts it again.
ProcessExits ==
  /\ closing = "closed"
  /\ NewProcess
  /\ UNCHANGED faults

\* A crash, or a shutdown whose own timeout ended it before Close returned.
Crash ==
  /\ Fault
  /\ NewProcess

LifecycleStep ==
  \/ ShutdownSignal \/ CloseBegins \/ CloseCancels \/ LeaveGroup
  \/ ProcessExits \/ Crash

-----------------------------------------------------------------------------
Next ==
  \/ \E w \in Workers : WorkerStep(w) \/ StopStep(w)
  \/ GroupStep
  \/ LoopStep
  \/ LifecycleStep

Spec == Init /\ [][Next]_vars

-----------------------------------------------------------------------------
(* Fairness.  Timers fire and a goroutine that can run is scheduled;       *)
(* handlers, the failure store and the broker answer, because each call is *)
(* bounded by a timeout (HandlersReturn).  Nothing forces a fault, a       *)
(* rebalance or a shutdown.                                                *)
TimersAndLoop ==
  /\ \A w \in Workers : WF_vars(StopStep(w))
  /\ WF_vars(LoopStep)
  /\ WF_vars(CallbackReturns)
  /\ WF_vars(OnLost)
  /\ WF_vars(CloseBegins)
  /\ WF_vars(CloseCancels)
  /\ WF_vars(LeaveGroup)
  /\ WF_vars(ProcessExits)

HandlersReturn == \A w \in Workers : WF_vars(WorkerStep(w))

\* The coordinator hands out free partitions, and other members work.
GroupAssigns ==
  \A p \in Partitions : WF_vars(OnAssigned(p)) /\ WF_vars(OtherFinishes(p))

StuckHandlerSpec == Spec /\ TimersAndLoop
FairSpec == Spec /\ TimersAndLoop /\ HandlersReturn /\ GroupAssigns

-----------------------------------------------------------------------------
(* Properties                                                              *)

\* The state components keep their types.
TypeOK ==
  /\ committed \in [Partitions -> Offsets]
  /\ finished \in SUBSET (Partitions \X Offsets)
  /\ owner \in [Partitions -> {"self", "other", "none"}]
  /\ fenced \in BOOLEAN
  /\ faults \in 0..MaxFaults
  /\ run \in {"poll", "dispatch", "returned"}
  /\ fetch \in [Partitions -> Batch]
  /\ target \in Workers \cup {None}
  /\ sig \in BOOLEAN
  /\ fatal \in BOOLEAN
  /\ assigned \in SUBSET Partitions
  /\ worker \in [Partitions -> Workers \cup {None}]
  /\ callback \in {"none", "revoke", "lost", "leave"}
  /\ cbWorkers \in SUBSET Workers
  /\ closing \in {"open", "stopping", "leaving", "closed"}
  /\ closeWorkers \in SUBSET Workers
  /\ slots \in 0..MaxConcurrentHandlers
  /\ part \in [Workers -> Partitions]
  /\ pc \in [Workers -> PC]
  /\ queue \in [Workers -> Seq(Batch)]
  /\ lo \in [Workers -> Offsets]
  /\ hi \in [Workers -> Offsets]
  /\ at \in [Workers -> Offsets]
  /\ tries \in [Workers -> 0..MaxTries]
  /\ quit \in SUBSET Workers
  /\ cancelled \in SUBSET Workers
  /\ abandoned \in SUBSET Workers
  /\ doomed \in SUBSET Workers
  /\ fresh \in SUBSET Workers
  /\ stop \in [Workers -> {"none", "drain", "grace"}]

\* The offset rule of processBatch: the committed offset never passes a
\* record that was neither handled nor recorded as a failure, whatever
\* rebalances, late commits, crashes and restarts happen.
CommittedFinished ==
  \A p \in Partitions : \A o \in 0..(committed[p] - 1) : <<p, o>> \in finished

\* A worker runs its handler on a record only when every earlier record of
\* the partition is finished: no batch that was dropped or skipped between
\* the poll and the handler is ever stepped over.
HandledInOrder ==
  \A w \in Workers : pc[w] \in Holding =>
    \A o \in 0..(at[w] - 1) : <<part[w], o>> \in finished

\* Every slot taken belongs to a batch in progress and is given back on every
\* path out of processBatch, panics included; the limit is never exceeded.
SlotsAccounted ==
  /\ slots = Cardinality({w \in Workers : pc[w] \in Holding})
  /\ slots <= MaxConcurrentHandlers

\* A partition handed over and assigned again has one worker at work: an
\* older one is gone, was abandoned, or is being drained by Close.
OneWorkerPerPartition ==
  \A v, w \in Workers :
    (v # w /\ part[v] = part[w] /\ pc[v] # "exited" /\ pc[w] # "exited")
      => v \in abandoned \/ w \in abandoned \/ closing # "open"

\* The consumer implements AtLeastOnce: with the finished records as done and
\* the committed offsets as offset, every step of the poll loop, the workers,
\* the callbacks, Close and the restarts finishes the next record of a
\* partition, moves its offset within what is finished, or changes neither.
ALO == INSTANCE AtLeastOnce WITH done <- finished, offset <- committed
ImplementsAtLeastOnce == ALO!AloSpec

\* A commit the broker applies comes from the member that owns the partition,
\* unless the worker was abandoned (see AbandonedNeverRegresses) or Close, which
\* takes the workers out of the map before it waits, is draining it: neither a
\* revoke nor a lost session leaves another way for a stale worker to move the
\* offset of a partition someone else works on.
CommitOnlyByOwner ==
  [][\A w \in Workers :
       (/\ pc[w] = "sent"
        /\ pc'[w] # "sent"
        /\ committed'[part[w]] # committed[part[w]]
        /\ w \notin abandoned
        /\ closing = "open")
       => owner[part[w]] = "self"]_vars

\* Expected to fail.  worker.go says that an abandoned worker must never
\* commit because a late commit could move the offset backwards; the check of
\* the flag and the commit are two steps, and stop can come between them.
AbandonedNeverRegresses ==
  [][\A w \in Workers :
       (w \in abandoned /\ pc[w] = "sent" /\ pc'[w] # "sent")
         => committed'[part[w]] >= committed[part[w]]]_vars

\* Every record is finished in the end: at least once, after any finite
\* number of faults.
EveryRecordFinished ==
  \A p \in Partitions : \A o \in 0..(LogEnd - 1) : <>(<<p, o>> \in finished)

\* A group callback returns even if the handlers it waits for never do, so
\* the rebalance that waits for it is never blocked for good.
CallbackAlwaysReturns == callback # "none" ~> callback = "none"

\* Run returns after a cancellation or a fatal error even when every worker
\* is stuck and dispatch is back-pressured.
RunAlwaysReturns == (sig \/ fatal) ~> (run = "returned" \/ ~(sig \/ fatal))
=============================================================================
