--------------------------- MODULE MeterPipeline ---------------------------
(***************************************************************************)
(* What happens to the meter readings of one house once the consumer hands *)
(* them to a handler: MeterHandler.HandleRecord writes Postgres and then   *)
(* Redis, failures are retried and then recorded in ingestion_failures,    *)
(* operators replay or discard recorded failures, Redis may lose its data  *)
(* and redis-rebuild restores it.  Handlers run concurrently: a partition  *)
(* worker, an abandoned one, the failure-replay command.  Any reading may  *)
(* be delivered again at any time (see Consumer for why).                  *)
(*                                                                         *)
(* A reading is a record [t, seq, val, assets]: t is its event time in     *)
(* ticks of a microsecond, val stands for every other persisted value and  *)
(* assets is the set of its storage assets.                                *)
(*                                                                         *)
(* The retention policy, which drops readings six months old (migration    *)
(* 00002), is outside the model: its times are much closer together.       *)
(***************************************************************************)
EXTENDS Naturals, FiniteSets

CONSTANTS
  Readings,    \* the readings that may be in the topic
  Topics,      \* what the topic may hold: sets of readings
  Handlers,    \* goroutines that may run the handler at the same time
  None,        \* no projection
  TicksPerMs,  \* Redis compares milliseconds
  Since,       \* redis-rebuild: start of the lookback window
  Policies,    \* values of REDIS_ACK_POLICY
  MaxTries,    \* RetryPolicy.MaxTries
  MaxFaults    \* bound on environment faults in one behaviour, per policy

\* "rejected" stands for decode and grid_validation.
Stages == {"rejected", "timescale_write", "redis_write"}
Resolutions == {"none", "unresolved", "replayed", "discarded"}

\* Rows of meter_readings and storage_asset_readings, the Redis value, what a
\* handler and redis-rebuild are doing.
Rows      == [t : Nat, seq : Nat, val : {r.val : r \in Readings}]
Assets    == UNION {r.assets : r \in Readings}
AssetRowSet == [t : Nat, asset : Assets, val : {r.val : r \in Readings}]
Latest    == [ms : Nat, seq : Nat, val : {r.val : r \in Readings},
              assets : SUBSET AssetRowSet]
Job == [at : {"insert", "latest", "record", "resolve"}, r : Readings,
        stage : Stages, tries : 1..MaxTries, replay : BOOLEAN]
Rebuild == [at : {"idle", "done"}] \cup [at : {"load"}, row : Rows]
             \cup [at : {"write"}, row : Rows, assets : SUBSET AssetRowSet]

\* No projection and no job is "none".
ASSUME PipelineAssumption ==
  /\ \A r \in Readings : r.t \in Nat /\ r.seq \in Nat
  /\ Topics \subseteq SUBSET Readings
  /\ TicksPerMs \in Nat \ {0}
  /\ Since \in Nat
  /\ Policies \subseteq {"required", "async-repair"}
  /\ MaxTries \in 1..10
  /\ MaxFaults \in [Policies -> Nat]
  /\ None \notin Latest \cup Job

VARIABLES
  policy,   \* REDIS_ACK_POLICY, fixed for a deployment
  topic,    \* the readings in the topic, fixed for a behaviour
  history,  \* meter_readings: rows [t, seq, val]
  storage,  \* storage_asset_readings: rows [t, asset, val]
  ledger,   \* ingestion_failures: [Readings \X Stages -> resolution]
  latest,   \* the Redis latest key, or None
  acked,    \* readings the consumer was told to commit
  job,      \* what each handler is doing, or None
  rb,       \* redis-rebuild: what it is doing
  seen,     \* what was in the window when it read, if Redis kept its data since
  lost,     \* Redis lost its data at least once
  faults    \* environment faults left

pgVars == <<history, storage, ledger>>
rbVars == <<rb, seen>>
vars == <<policy, topic, pgVars, latest, acked, job, rbVars, lost, faults>>

Required == policy = "required"

Fault == faults > 0 /\ faults' = faults - 1

-----------------------------------------------------------------------------
(* Postgres                                                                *)

Row(r)       == [t |-> r.t, seq |-> r.seq, val |-> r.val]
AssetRows(r) == {[t |-> r.t, asset |-> a, val |-> r.val] : a \in r.assets}
RowsAt(t)    == {s \in storage : s.t = t}

\* ON CONFLICT on (time, meter, seq); verifyReplay compares the stored values
\* and the storage rows of the same time and meter.
Exists(r)    == \E x \in history : x.t = r.t /\ x.seq = r.seq
Identical(r) == Row(r) \in history /\ RowsAt(r.t) = AssetRows(r)

\* The primary key of a storage row is (time, meter, asset).
AssetTaken(r) == \E s \in RowsAt(r.t) : s.asset \in r.assets

\* InsertMeterReading returns ErrIntegrityConflict.
Conflict(r) == IF Exists(r) THEN ~Identical(r) ELSE AssetTaken(r)

Stored(r) == Row(r) \in history /\ AssetRows(r) \subseteq storage

\* Mutant of CommitInsert: ON CONFLICT DO UPDATE.
BugOverwrite(r) ==
  /\ history' = {x \in history : x.t # r.t \/ x.seq # r.seq} \cup {Row(r)}
  /\ storage' = storage \cup AssetRows(r)

\* The transaction of InsertMeterReading when it does not conflict.
CommitInsert(r) ==
  /\ ~Conflict(r)
  /\ history' = history \cup {Row(r)}
  /\ storage' = storage \cup AssetRows(r)

-----------------------------------------------------------------------------
(* Redis                                                                   *)

\* ProjectionOf: event times are cut to milliseconds.
Projection(row, rows) ==
  [ms |-> row.t \div TicksPerMs, seq |-> row.seq, val |-> row.val,
   assets |-> rows]

Newer(p, q) == p.ms > q.ms \/ (p.ms = q.ms /\ p.seq > q.seq)

\* Mutant of Supersedes: set_latest_if_newer.lua ignores the time.
BugSeqOnly(p) == latest = None \/ p.seq > latest.seq

\* set_latest_if_newer.lua sets the key.
Supersedes(p) == latest = None \/ Newer(p, latest)

SetLatestIfNewer(p) == latest' = IF Supersedes(p) THEN p ELSE latest

-----------------------------------------------------------------------------
Init ==
  /\ policy \in Policies
  /\ topic \in Topics
  /\ history = {}
  /\ storage = {}
  /\ ledger = [f \in Readings \X Stages |-> "none"]
  /\ latest = None
  /\ acked = {}
  /\ job = [h \in Handlers |-> None]
  /\ rb = [at |-> "idle"]
  /\ seen = {}
  /\ lost = FALSE
  /\ faults = MaxFaults[policy]

-----------------------------------------------------------------------------
(* The handler.  A job is one run of retryHandle (or of a replay): at says *)
(* which call it makes next, r is the reading, stage the failure stage to  *)
(* record or, in a replay, of the locked row.                              *)

\* Handler h is at call c.
At(h, c) == job[h] # None /\ job[h].at = c

Start(h, r, s, c, replay) ==
  job' = [job EXCEPT ![h] = [at |-> c, r |-> r, stage |-> s, tries |-> 1,
                             replay |-> replay]]

Go(h, c)   == job' = [job EXCEPT ![h].at = c]
Return(h)  == job' = [job EXCEPT ![h] = None]

\* FOR UPDATE SKIP LOCKED: a row has one replay at a time, and the consumer's
\* upsert of the same row waits for it.
Locked(f) ==
  \E h \in Handlers : job[h] # None /\ job[h].replay /\ <<job[h].r, job[h].stage>> = f

HandlerFrame == UNCHANGED <<policy, topic, rbVars, lost>>

\* Mutant of Deliver: the cache is written before the database.
BugCacheFirst(h) ==
  /\ job[h] = None
  /\ \E r \in topic : Start(h, r, "rejected", "latest", FALSE)
  /\ HandlerFrame
  /\ UNCHANGED <<pgVars, latest, acked, faults>>

Deliver(h) ==
  /\ job[h] = None
  /\ \E r \in topic : Start(h, r, "rejected", "insert", FALSE)
  /\ HandlerFrame
  /\ UNCHANGED <<pgVars, latest, acked, faults>>

\* The attempt failed for good: the consumer goes on to record the failure, a
\* replay leaves its row unresolved.
Fail(h, s) ==
  IF job[h].replay THEN Return(h)
  ELSE job' = [job EXCEPT ![h].at = "record", ![h].stage = s]

\* A transient error: retryHandle runs the whole handler again while the
\* budget lasts; a replay is a single attempt.
Retry(h, s) ==
  IF ~job[h].replay /\ job[h].tries < MaxTries
  THEN job' = [job EXCEPT ![h].at = "insert", ![h].tries = job[h].tries + 1]
  ELSE Fail(h, s)

\* The handler returned nil: the consumer may commit, a replay resolves.
Done(h) ==
  IF job[h].replay THEN Go(h, "resolve") /\ UNCHANGED acked
  ELSE Return(h) /\ acked' = acked \cup {job[h].r}

\* The size, decoding, key and admission checks: permanent.
Reject(h) ==
  /\ At(h, "insert")
  /\ Fault
  /\ Fail(h, "rejected")
  /\ HandlerFrame
  /\ UNCHANGED <<pgVars, latest, acked>>

Insert(h) ==
  /\ At(h, "insert")
  /\ CommitInsert(job[h].r)
  /\ Go(h, "latest")
  /\ HandlerFrame
  /\ UNCHANGED <<ledger, latest, acked, faults>>

InsertConflict(h) ==
  /\ At(h, "insert")
  /\ Conflict(job[h].r)
  /\ Fail(h, "timescale_write")
  /\ HandlerFrame
  /\ UNCHANGED <<pgVars, latest, acked, faults>>

\* Any other database error.  When the answer to the COMMIT is lost, the
\* transaction may have been applied.
InsertError(h) ==
  /\ At(h, "insert")
  /\ Fault
  /\ CommitInsert(job[h].r) \/ UNCHANGED <<history, storage>>
  /\ Retry(h, "timescale_write")
  /\ HandlerFrame
  /\ UNCHANGED <<ledger, latest, acked>>

\* SetLatestIfNewer for the reading in hand.
WriteLatest(h) == SetLatestIfNewer(Projection(job[h].r, AssetRows(job[h].r)))

SetLatest(h) ==
  /\ At(h, "latest")
  /\ WriteLatest(h)
  /\ Done(h)
  /\ HandlerFrame
  /\ UNCHANGED <<pgVars, faults>>

\* Mutant of SetLatestError: the Redis error is absorbed under any policy.
BugAbsorb(h) ==
  /\ At(h, "latest")
  /\ Fault
  /\ WriteLatest(h) \/ UNCHANGED latest
  /\ Done(h)
  /\ HandlerFrame
  /\ UNCHANGED pgVars

\* A Redis error, the script applied or not.  absorbCacheError acknowledges
\* under async-repair; failure-replay always runs with the required policy.
SetLatestError(h) ==
  /\ At(h, "latest")
  /\ Fault
  /\ WriteLatest(h) \/ UNCHANGED latest
  /\ IF Required \/ job[h].replay
     THEN Retry(h, "redis_write") /\ UNCHANGED acked
     ELSE Done(h)
  /\ HandlerFrame
  /\ UNCHANGED pgVars

\* Mutant of RecordFailure: the offset is committed without the record.
BugNotRecorded(h) ==
  /\ At(h, "record")
  /\ acked' = acked \cup {job[h].r}
  /\ Return(h)
  /\ HandlerFrame
  /\ UNCHANGED <<pgVars, latest, faults>>

\* RecordFailure: an upsert that never touches the resolution.
RecordFailure(h) ==
  LET f == <<job[h].r, job[h].stage>> IN
  /\ At(h, "record")
  /\ ~Locked(f)
  /\ ledger' = IF ledger[f] = "none"
               THEN [ledger EXCEPT ![f] = "unresolved"] ELSE ledger
  /\ acked' = acked \cup {job[h].r}
  /\ Return(h)
  /\ HandlerFrame
  /\ UNCHANGED <<history, storage, latest, faults>>

\* A stop, a failed RecordFailure, the end of the process or of the replay
\* command: nothing is acknowledged or resolved.
Interrupted(h) ==
  /\ job[h] # None
  /\ Return(h)
  /\ HandlerFrame
  /\ UNCHANGED <<pgVars, latest, acked, faults>>

HandlerStep(h) ==
  \/ Deliver(h) \/ Reject(h) \/ Insert(h) \/ InsertConflict(h)
  \/ InsertError(h) \/ SetLatest(h) \/ SetLatestError(h)
  \/ RecordFailure(h) \/ Interrupted(h)

-----------------------------------------------------------------------------
(* failure-replay                                                          *)

\* WithLockedFailure on an unresolved row, then Route.
StartReplay(h) ==
  /\ job[h] = None
  /\ \E r \in Readings, s \in Stages :
       /\ ledger[<<r, s>>] = "unresolved"
       /\ ~Locked(<<r, s>>)
       /\ Start(h, r, s, "insert", TRUE)
  /\ HandlerFrame
  /\ UNCHANGED <<pgVars, latest, acked, faults>>

Resolve(h) ==
  /\ At(h, "resolve")
  /\ ledger' = [ledger EXCEPT ![<<job[h].r, job[h].stage>>] = "replayed"]
  /\ Return(h)
  /\ HandlerFrame
  /\ UNCHANGED <<history, storage, latest, acked, faults>>

Discard ==
  /\ \E f \in Readings \X Stages :
       /\ ledger[f] = "unresolved"
       /\ ~Locked(f)
       /\ ledger' = [ledger EXCEPT ![f] = "discarded"]
  /\ UNCHANGED <<policy, topic, history, storage, latest, acked, job, rbVars, lost, faults>>

-----------------------------------------------------------------------------
(* Redis loss and redis-rebuild                                            *)

RedisLoss ==
  /\ Fault
  /\ latest' = None
  /\ lost' = TRUE
  /\ seen' = {}
  /\ UNCHANGED <<policy, topic, pgVars, acked, job, rb>>

RebuildFrame == UNCHANGED <<policy, topic, pgVars, acked, job, lost, faults>>

\* The order of latestReadingsPageSQL.
After(a, b) == a.t > b.t \/ (a.t = b.t /\ a.seq > b.seq)
InWindow    == {x \in history : x.t >= Since}

\* Mutant of Newest: the ORDER BY lost its DESC.
BugOldest == CHOOSE x \in InWindow : \A y \in InWindow : x = y \/ After(y, x)

Newest == CHOOSE x \in InWindow : \A y \in InWindow : x = y \/ After(x, y)

\* LatestReadingsPage: the row of the house ...
RebuildRead ==
  /\ rb.at \in {"idle", "done"}
  /\ seen' = InWindow
  /\ rb' = IF InWindow = {} THEN [at |-> "done"]
           ELSE [at |-> "load", row |-> Newest]
  /\ RebuildFrame
  /\ UNCHANGED latest

\* ... then its storage rows.
RebuildLoad ==
  /\ rb.at = "load"
  /\ rb' = [at |-> "write", row |-> rb.row, assets |-> RowsAt(rb.row.t)]
  /\ RebuildFrame
  /\ UNCHANGED <<latest, seen>>

RebuildWrite ==
  /\ rb.at = "write"
  /\ SetLatestIfNewer(Projection(rb.row, rb.assets))
  /\ rb' = [at |-> "done"]
  /\ RebuildFrame
  /\ UNCHANGED seen

\* An error or a timeout ends the run, the last write applied or not.
RebuildFails ==
  /\ rb.at \in {"load", "write"}
  /\ \/ UNCHANGED latest
     \/ rb.at = "write" /\ SetLatestIfNewer(Projection(rb.row, rb.assets))
  /\ rb' = [at |-> "idle"]
  /\ seen' = {}
  /\ RebuildFrame

-----------------------------------------------------------------------------
Next ==
  \/ \E h \in Handlers : HandlerStep(h) \/ StartReplay(h) \/ Resolve(h)
  \/ Discard
  \/ RedisLoss
  \/ RebuildRead \/ RebuildLoad \/ RebuildWrite \/ RebuildFails

Spec == Init /\ [][Next]_vars

-----------------------------------------------------------------------------
(* Properties                                                              *)

\* The state components keep their types.
TypeOK ==
  /\ policy \in Policies
  /\ topic \in Topics
  /\ history \in SUBSET Rows
  /\ storage \in SUBSET AssetRowSet
  /\ ledger \in [Readings \X Stages -> Resolutions]
  /\ latest \in Latest \cup {None}
  /\ acked \in SUBSET Readings
  /\ job \in [Handlers -> Job \cup {None}]
  /\ rb \in Rebuild
  /\ seen \in SUBSET Rows
  /\ lost \in BOOLEAN
  /\ faults \in 0..MaxFaults[policy]

\* History is immutable and unambiguous: a stored row is never changed or
\* removed, and no identity is stored twice, whatever conflicting readings,
\* retries after a lost COMMIT answer and concurrent handlers do.
HistoryImmutable ==
  [][/\ history \subseteq history'
     /\ storage \subseteq storage'
     /\ \A x, y \in history' : x.t = y.t /\ x.seq = y.seq => x = y]_vars

\* An acknowledged reading is stored with all its assets, or its failure is
\* in the ledger where an operator finds it (or has discarded it): no
\* interleaving of attempts, crashes, replays and conflicts drops one.
AckedDurable ==
  \A r \in acked :
    \/ Stored(r)
    \/ \E s \in Stages : ledger[<<r, s>>] \in {"unresolved", "discarded"}

\* The latest key never goes back to an older reading: not by a late handler,
\* a redelivery, a replay of an old failure or a rebuild that read before.
LatestNeverRegresses ==
  [][latest' = latest \/ latest' = None \/ latest = None
       \/ Newer(latest', latest)]_vars

\* Redis never shows a reading that Postgres does not have.
LatestDurable ==
  latest # None =>
    \E x \in history : /\ x.t \div TicksPerMs = latest.ms
                       /\ x.seq = latest.seq
                       /\ x.val = latest.val

\* The state is well typed, the retry budget is kept, and Redis shows nothing
\* Postgres does not have, though both are written by steps that may fail alone.
LatestInv == TypeOK /\ LatestDurable

\* Under the required policy an acknowledged reading is covered by the latest
\* key or flagged in the ledger, as long as Redis kept its data.
CurrentOrFlagged ==
  \A r \in acked :
    \/ ~Required \/ lost
    \/ latest # None /\ ~Newer(Projection(Row(r), {}), latest)
    \/ \E s \in Stages : ledger[<<r, s>>] \in {"unresolved", "discarded"}

\* The latest key is no older, in Redis's order, than row x.
Covers(x) == latest # None /\ ~Newer(Projection(x, {}), latest)

\* The rebuild picks the newest row by microseconds and then seq, Redis compares
\* milliseconds and then seq.  A row that is newer for Redis alone shares its
\* millisecond with a later row of a lower seq.
Outranked(x, rows) ==
  \E y \in rows : After(y, x) /\ y.t \div TicksPerMs = x.t \div TicksPerMs

\* A rebuild that ran to its end, on a Redis that lost nothing since the
\* database was read, leaves a latest key no older than any reading that was
\* in the window then, whatever handlers and replays wrote beside it; but a
\* reading that another one of its millisecond outranks in the database may be
\* newer in Redis's order, and then the other one is covered.
RebuildRestores ==
  rb.at = "done" =>
    \A x \in seen :
      \/ Covers(x)
      \/ Outranked(x, {y \in seen : Covers(y)})

=============================================================================
