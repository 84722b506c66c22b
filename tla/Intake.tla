------------------------------- MODULE Intake -------------------------------
(***************************************************************************)
(* How records get in: register-houses and the grid table say who is       *)
(* known, the handlers' first steps decide what is accepted, the rest goes *)
(* to ingestion_failures, under its Kafka coordinates and the stage it     *)
(* failed at, and failure-replay tries it again, later, against the grids  *)
(* and the clock of that time.  One partition and its worker; operators    *)
(* replay and discard beside it; several register-houses commands may run. *)
(*                                                                         *)
(* A record is [topic, size, key, body], see Decoder; a stored record is   *)
(* known by its offset, so conflicts between different payloads are left   *)
(* to MeterPipeline and HeartbeatAssets.  A scenario fixes the records,    *)
(* the files and the bounds of a behaviour.                                *)
(***************************************************************************)
EXTENDS Decoder, FiniteSets, FiniteSetsExt

CONSTANTS
  Scenarios,   \* [log, files, grids, moving, houses, until, replays, faults]
  MaxTries,    \* RetryPolicy.MaxTries
  MaxEntries   \* maxEntries

\* error_stage, and a row of ingestion_failures.
Stages == {"decode", "grid_validation", "redis_write", "timescale_write",
           "handler_panic"}
FailureRow == [res : {"unresolved", "replayed", "discarded"}, attempts : Nat,
               reason : Stages \cup {"replay"}]

IsSequence(s) == s \in Seq({s[i] : i \in DOMAIN s})

ASSUME IntakeAssumption ==
  /\ MaxTries \in 1..10
  /\ MaxEntries \in Nat
  /\ None \notin FailureRow
  /\ \A s \in Scenarios :
       /\ s.grids # {}                     \* a bootstrap refuses an empty table
       /\ \A r \in s.houses : r.grid \in s.grids
       /\ {s.until, s.replays, s.faults} \subseteq Nat
       /\ IsSequence(s.log)
       /\ \A i \in DOMAIN s.files : IsSequence(s.files[i])
       /\ \A n \in DOMAIN s.log :          \* a missing timestamp or an instant
            s.log[n].topic = "meter" /\ s.log[n].body # None
              => s.log[n].body.time \in Int \cup {None}

VARIABLES
  world,     \* the scenario
  now,       \* the clock
  grids,     \* iot_data.grids
  loaded,    \* what the refresher has read and not yet published, or {}
  snapshot,  \* the admission registry of the service
  houses,    \* iot_data.houses: rows [grid, house, meter, class]
  next,      \* the committed offset
  stored,    \* offsets whose reading or heartbeat is in the tables
  ledger,    \* ingestion_failures: [coordinates and stage -> row or None]
  job,       \* the record in hand of the worker and of failure-replay, or None
  cmd,       \* failure-replay: the grids it loaded when it started, or {}
  reg,       \* register-houses: the state of each command
  replays,   \* replays left
  faults     \* environment faults left

tableVars == <<grids, loaded, snapshot, houses>>
vars == <<world, now, tableVars, next, stored, ledger, job, cmd, reg, replays,
          faults>>

Offsets  == DOMAIN world.log
Failures == Offsets \X Stages
Actors   == {"worker", "operator"}

Fault == faults > 0 /\ faults' = faults - 1

Init ==
  /\ world \in Scenarios
  /\ now = 0
  /\ grids = world.grids
  /\ loaded = {}
  /\ snapshot = world.grids
  /\ houses = world.houses
  /\ next = 1
  /\ stored = {}
  /\ ledger = [f \in Failures |-> None]
  /\ job = [a \in Actors |-> None]
  /\ cmd = {}
  /\ reg = [i \in DOMAIN world.files |-> [at |-> "new", todo |-> {}, failed |-> 0]]
  /\ replays = world.replays
  /\ faults = world.faults

-----------------------------------------------------------------------------
(* The clock, the grid table and the registry refresher                    *)

Tick ==
  /\ now < world.until
  /\ now' = now + 1
  /\ UNCHANGED <<world, tableVars, next, stored, ledger, job, cmd, reg, replays,
                 faults>>

GridFrame == UNCHANGED <<world, now, houses, next, stored, ledger, job, cmd, reg,
                         replays, faults>>

\* Grids come and go, by migrations and by hand; a grid that a house refers to
\* cannot go.
Provision ==
  /\ \E g \in world.moving : grids' = grids \cup {g}
  /\ UNCHANGED <<loaded, snapshot>>
  /\ GridFrame

Retire ==
  /\ \E g \in grids \cap world.moving :
       /\ \A r \in houses : r.grid # g
       /\ grids' = grids \ {g}
  /\ UNCHANGED <<loaded, snapshot>>
  /\ GridFrame

\* The refresher reads the table, then publishes what it has read; a table
\* without grids is not published.
LoadGrids ==
  /\ loaded' = grids
  /\ UNCHANGED <<grids, snapshot>>
  /\ GridFrame

Publish ==
  /\ loaded # {}
  /\ snapshot' = loaded
  /\ loaded' = {}
  /\ UNCHANGED grids
  /\ GridFrame

-----------------------------------------------------------------------------
(* The handlers: HandleRecord as the worker and failure-replay run it      *)

At(a, c)  == job[a] # None /\ job[a].at = c
Record(a) == world.log[job[a].n]
Go(a, c)  == job' = [job EXCEPT ![a].at = c]
Drop(a)   == job' = [job EXCEPT ![a] = None]

HandlerFrame == UNCHANGED <<world, now, tableVars, reg>>

\* The record at the committed offset is handed to its handler.
Deliver ==
  /\ job["worker"] = None
  /\ next \in Offsets
  /\ job' = [job EXCEPT !["worker"] =
              [at |-> "check", n |-> next, tries |-> 1, stage |-> None]]
  /\ HandlerFrame
  /\ UNCHANGED <<next, stored, ledger, cmd, replays, faults>>

\* The attempt failed for good, with an error of stage s: the worker records
\* it, failure-replay notes it on the row it holds.
Fail(a, s) ==
  job' = [job EXCEPT ![a] =
           IF a = "worker" THEN [@ EXCEPT !.at = "record", !.stage = s]
           ELSE [@ EXCEPT !.at = "note"]]

\* Not isPermanent: the worker runs the whole handler again while its budget
\* lasts; failure-replay makes one attempt.
Retry(a, s) ==
  IF a = "worker" /\ job[a].tries < MaxTries
  THEN job' = [job EXCEPT ![a].at = "check", ![a].tries = @ + 1]
  ELSE Fail(a, s)

\* The grids the handler admits against.
Admitted(a) == IF a = "worker" THEN snapshot ELSE cmd

\* Mutant of Lookup: failure-replay takes whatever was recorded.
BugReplayAdmits(a) == a = "operator" \/ Record(a).body.grid \in Admitted(a)

Lookup(a) == Record(a).body.grid \in Admitted(a)

\* Size, decoder, key and admission.
Check(a) ==
  /\ At(a, "check")
  /\ CASE ~Decodes(Record(a), now) -> Fail(a, "decode")
       [] Decodes(Record(a), now) /\ ~Lookup(a) -> Fail(a, "grid_validation")
       [] OTHER -> Go(a, "store")
  /\ HandlerFrame
  /\ UNCHANGED <<next, stored, ledger, cmd, replays, faults>>

\* touchHouseSQL finds the house of a heartbeat.
HouseKnown(b) ==
  \E r \in houses : r.house = b.house /\ r.grid = b.grid /\ r.meter = b.meter

\* InsertMeterReading or ApplyHeartbeat; a row the tables refuse is not a
\* permanent error.
Store(a) ==
  LET rec == Record(a) IN
  /\ At(a, "store")
  /\ CASE rec.topic = "heartbeat" /\ ~HouseKnown(rec.body) ->
            Fail(a, "grid_validation") /\ UNCHANGED stored
       [] ~RowsFit(rec) -> Retry(a, "timescale_write") /\ UNCHANGED stored
       [] OTHER -> Go(a, "cache") /\ stored' = stored \cup {job[a].n}
  /\ HandlerFrame
  /\ UNCHANGED <<next, ledger, cmd, replays, faults>>

\* Postgres fails, before or after the commit.
StoreError(a) ==
  LET rec == Record(a) IN
  /\ At(a, "store")
  /\ Fault
  /\ \/ UNCHANGED stored
     \/ /\ RowsFit(rec) /\ (rec.topic = "heartbeat" => HouseKnown(rec.body))
        /\ stored' = stored \cup {job[a].n}
  /\ Retry(a, "timescale_write")
  /\ HandlerFrame
  /\ UNCHANGED <<next, ledger, cmd, replays>>

\* Redis is written and the handler returns nil: the worker goes on to the
\* next record, failure-replay to resolve its row.
Cache(a) ==
  /\ At(a, "cache")
  /\ IF a = "worker" THEN Drop(a) /\ next' = next + 1
     ELSE Go(a, "resolve") /\ UNCHANGED next
  /\ HandlerFrame
  /\ UNCHANGED <<stored, ledger, cmd, replays, faults>>

CacheError(a) ==
  /\ At(a, "cache")
  /\ Fault
  /\ Retry(a, "redis_write")
  /\ HandlerFrame
  /\ UNCHANGED <<next, stored, ledger, cmd, replays>>

\* The worker recovers from a panic of its handler.
Panic ==
  /\ job["worker"] # None /\ job["worker"].at \in {"check", "store", "cache"}
  /\ Fault
  /\ Fail("worker", "handler_panic")
  /\ HandlerFrame
  /\ UNCHANGED <<next, stored, ledger, cmd, replays>>

-----------------------------------------------------------------------------
(* ingestion_failures                                                      *)

\* The row failure-replay holds FOR UPDATE.
Held == IF job["operator"] = None THEN None
        ELSE <<job["operator"].n, job["operator"].stage>>

\* Mutant of RawPayload: the value of a tombstone stays nil.
BugNil(rec) == rec.body

\* RecordFailure stores a record without value as an empty payload, since
\* raw_payload is NOT NULL.
RawPayload(rec) == IF rec.body = None THEN <<>> ELSE rec.body

\* The upsert on coordinates and stage: it leaves the resolution as it is.
Upsert(f, tries) ==
  ledger' = [ledger EXCEPT ![f] =
              IF @ = None
              THEN [res |-> "unresolved", attempts |-> tries, reason |-> f[2]]
              ELSE [@ EXCEPT !.attempts = tries, !.reason = f[2]]]

\* RecordFailure, then the worker goes on to the next record.  The statement
\* waits for a replay that holds the row.
RecordFailure ==
  LET f == <<job["worker"].n, job["worker"].stage>> IN
  /\ At("worker", "record")
  /\ Held # f
  /\ RawPayload(Record("worker")) # None
  /\ Upsert(f, job["worker"].tries)
  /\ next' = next + 1
  /\ Drop("worker")
  /\ HandlerFrame
  /\ UNCHANGED <<stored, cmd, replays, faults>>

\* RecordFailure fails, the consumer stops or dies: the record is delivered
\* again.
WorkerStops ==
  /\ job["worker"] # None
  /\ Fault
  /\ Drop("worker")
  /\ HandlerFrame
  /\ UNCHANGED <<next, stored, ledger, cmd, replays>>

\* The commit is lost with the process: records are delivered again.
CommitLost ==
  /\ job["worker"] = None
  /\ Fault
  /\ \E n \in 1..(next - 1) : next' = n
  /\ HandlerFrame
  /\ UNCHANGED <<stored, ledger, job, cmd, replays>>

-----------------------------------------------------------------------------
(* failure-replay                                                          *)

\* The command loads the grids of the moment; without any it does not start.
StartCommand ==
  /\ cmd = {} /\ grids # {}
  /\ replays > 0
  /\ cmd' = grids
  /\ HandlerFrame
  /\ UNCHANGED <<next, stored, ledger, job, replays, faults>>

\* WithLockedFailure on the next ID, if it is unresolved.
Lock(f) ==
  /\ cmd # {} /\ job["operator"] = None
  /\ replays > 0
  /\ ledger[f] # None /\ ledger[f].res = "unresolved"
  /\ replays' = replays - 1
  /\ job' = [job EXCEPT !["operator"] =
              [at |-> "check", n |-> f[1], tries |-> 1, stage |-> f[2]]]
  /\ HandlerFrame
  /\ UNCHANGED <<next, stored, ledger, cmd, faults>>

\* resolveFailureSQL.
Resolve ==
  /\ At("operator", "resolve")
  /\ ledger' = [ledger EXCEPT ![Held].res = "replayed"]
  /\ Drop("operator")
  /\ HandlerFrame
  /\ UNCHANGED <<next, stored, cmd, replays, faults>>

\* Mutant of NoteReplayFailure: the row is resolved although the replay failed.
BugResolveAnyway ==
  /\ At("operator", "note")
  /\ ledger' = [ledger EXCEPT ![Held].res = "replayed"]
  /\ Drop("operator")
  /\ HandlerFrame
  /\ UNCHANGED <<next, stored, cmd, replays, faults>>

\* noteReplayFailureSQL: the row stays unresolved.
NoteReplayFailure ==
  /\ At("operator", "note")
  /\ ledger' = [ledger EXCEPT ![Held].reason = "replay",
                              ![Held].attempts = @ + 1]
  /\ Drop("operator")
  /\ HandlerFrame
  /\ UNCHANGED <<next, stored, cmd, replays, faults>>

\* The command ends, after its last ID or in the middle: the row lock is gone
\* with its transaction.
EndCommand ==
  /\ cmd # {}
  /\ IF job["operator"] = None THEN UNCHANGED faults ELSE Fault
  /\ cmd' = {}
  /\ Drop("operator")
  /\ HandlerFrame
  /\ UNCHANGED <<next, stored, ledger, replays>>

\* The discard command.
Discard(f) ==
  /\ Held # f
  /\ ledger[f] # None /\ ledger[f].res = "unresolved"
  /\ replays > 0
  /\ replays' = replays - 1
  /\ ledger' = [ledger EXCEPT ![f].res = "discarded"]
  /\ HandlerFrame
  /\ UNCHANGED <<next, stored, job, cmd, faults>>

-----------------------------------------------------------------------------
(* register-houses                                                         *)

Entries(i) == world.files[i]

RegFrame == UNCHANGED <<world, now, grids, loaded, snapshot, next, stored, ledger,
                        job, cmd, replays>>

\* validate: every entry, and no house with two identities.
FileAccepted(i) ==
  /\ Len(Entries(i)) \in 1..MaxEntries
  /\ \A k \in DOMAIN Entries(i) : ValidateHouseIdentity(Entries(i)[k])
  /\ \A j, k \in DOMAIN Entries(i) :
       Entries(i)[j].house = Entries(i)[k].house
         => Identity(Entries(i)[j]) = Identity(Entries(i)[k])

\* The first entry of each house is written; with -dry-run nothing is.
ValidateFile(i) ==
  /\ reg[i].at = "new"
  /\ IF ~FileAccepted(i) THEN reg' = [reg EXCEPT ![i].at = "refused"]
     ELSE \/ reg' = [reg EXCEPT ![i].at = "dry"]
          \/ reg' = [reg EXCEPT ![i].at = "write", ![i].todo =
                      {k \in DOMAIN Entries(i) : \A j \in 1..(k - 1) :
                         Entries(i)[j].house # Entries(i)[k].house}]
  /\ RegFrame
  /\ UNCHANGED <<houses, faults>>

\* insertHouseSQL inserts a row: no house of this ID, the meter free, the grid
\* provisioned, the rating not negative.
Insertable(e) ==
  /\ \A r \in houses : r.house # e.house /\ r.meter # e.meter
  /\ e.grid \in grids
  /\ e.rated # None => e.rated >= 0

\* Mutant of Unchanged: a house of this ID is enough.
BugAnyIdentity(e) == \E r \in houses : r.house = e.house

\* The house is registered as the entry says.
Unchanged(e) == Identity(e) \in houses /\ (e.rated # None => e.rated >= 0)

\* The next house, one transaction each; ok says what the command counts.
Written(i, ok) ==
  reg' = [reg EXCEPT ![i].todo = @ \ {Min(@)},
                     ![i].failed = @ + (IF ok THEN 0 ELSE 1)]

\* RegisterHouse creates the house, finds it unchanged, or refuses it.
RegisterHouse(i) ==
  LET e == Entries(i)[Min(reg[i].todo)] IN
  /\ reg[i].at = "write" /\ reg[i].todo # {}
  /\ houses' = IF Insertable(e) THEN houses \cup {Identity(e)} ELSE houses
  /\ Written(i, Insertable(e) \/ Unchanged(e))
  /\ RegFrame
  /\ UNCHANGED faults

\* The database fails, before or after the commit: counted as refused.
RegisterError(i) ==
  LET e == Entries(i)[Min(reg[i].todo)] IN
  /\ reg[i].at = "write" /\ reg[i].todo # {}
  /\ Fault
  /\ \/ UNCHANGED houses
     \/ Insertable(e) /\ houses' = houses \cup {Identity(e)}
  /\ Written(i, FALSE)
  /\ RegFrame

\* A signal or the time limit: every further call fails.
Cancelled(i) ==
  /\ reg[i].at = "write" /\ reg[i].todo # {}
  /\ reg' = [reg EXCEPT ![i].todo = {},
                        ![i].failed = @ + Cardinality(reg[i].todo)]
  /\ RegFrame
  /\ UNCHANGED <<houses, faults>>

Report(i) ==
  /\ reg[i].at = "write" /\ reg[i].todo = {}
  /\ reg' = [reg EXCEPT ![i].at = IF reg[i].failed = 0 THEN "ok" ELSE "failed"]
  /\ RegFrame
  /\ UNCHANGED <<houses, faults>>

-----------------------------------------------------------------------------
HandlerStep(a) ==
  Check(a) \/ Store(a) \/ StoreError(a) \/ Cache(a) \/ CacheError(a)

WorkerStep == Deliver \/ HandlerStep("worker") \/ Panic \/ RecordFailure

\* What failure-replay does once it has locked a row.
ReplayStep == HandlerStep("operator") \/ Resolve \/ NoteReplayFailure

Next ==
  \/ Tick \/ Provision \/ Retire \/ LoadGrids \/ Publish
  \/ WorkerStep \/ WorkerStops \/ CommitLost
  \/ ReplayStep \/ StartCommand \/ EndCommand
  \/ \E f \in Failures : Lock(f) \/ Discard(f)
  \/ \E i \in DOMAIN reg :
       \/ ValidateFile(i) \/ RegisterHouse(i) \/ RegisterError(i)
       \/ Cancelled(i) \/ Report(i)

Spec == Init /\ [][Next]_vars

\* Handlers return, because their stores have timeouts; operators, clocks and
\* faults are not forced.
FairSpec == Spec /\ WF_vars(WorkerStep) /\ WF_vars(ReplayStep)

-----------------------------------------------------------------------------
(* Properties                                                              *)

\* The grids in the table, read by the refresher, published, and loaded by a
\* running failure-replay.
Known == grids \cup loaded \cup snapshot \cup cmd

\* The state components keep their types; the stage and the attempts of a row
\* satisfy the table's CHECKs and the retry budget is kept.
TypeOK ==
  /\ now \in 0..world.until
  /\ Known \subseteq world.grids \cup world.moving
  /\ snapshot # {}
  /\ next \in 1..(Len(world.log) + 1)
  /\ stored \subseteq Offsets
  /\ \A f \in Failures : ledger[f] # None =>
       /\ ledger[f].res \in {"unresolved", "replayed", "discarded"}
       /\ ledger[f].attempts \in 1..(MaxTries + world.replays)
  /\ \A a \in Actors : job[a] # None =>
       job[a].n \in Offsets /\ job[a].tries \in 1..MaxTries
  /\ \A i \in DOMAIN reg :
       reg[i].failed + Cardinality(reg[i].todo) <= Len(Entries(i))

\* Decoder against migrations: whatever passes the decoders and the key check
\* satisfies every NOT NULL, CHECK and primary key of its tables, so the
\* database never refuses a row that was accepted.
AcceptedFits ==
  \A a \in Actors : At(a, "store") => RowsFit(Record(a))

\* However old the grids were that admitted it, a heartbeat is stored only for
\* a house that is registered with its grid and meter, and the grid of a house
\* is in the table: admission may be stale, touchHouseSQL is not.
StoredProvisioned ==
  \A n \in stored : world.log[n].topic = "heartbeat" =>
    /\ HouseKnown(world.log[n].body)
    /\ world.log[n].body.grid \in grids

\* The state is well typed, and the gate in front of the tables holds: what is
\* accepted fits them, and the heartbeats stored belong to registered houses.
GateInv == TypeOK /\ AcceptedFits /\ StoredProvisioned

\* Nothing disappears: a record the consumer has passed is stored, or is an
\* unresolved failure, or somebody discarded it; and a failure marked as
\* replayed is stored, through redelivery, replays and lost commits.
AckedVisible ==
  /\ \A n \in 1..(next - 1) : n \notin stored =>
       \E s \in Stages : /\ ledger[<<n, s>>] # None
                         /\ ledger[<<n, s>>].res \in {"unresolved", "discarded"}
  /\ \A f \in Failures :
       (ledger[f] # None /\ ledger[f].res = "replayed") => f[1] \in stored

\* File i speaks for the row r: the identities of all its entries are sound and
\* do not contradict one another, and the first entry of the house says r, with
\* a rating the table takes.
SpeaksFor(i, r) ==
  /\ \A k \in DOMAIN Entries(i) : IdentityAccepted(Entries(i)[k])
  /\ \A j, k \in DOMAIN Entries(i) :
       Entries(i)[j].house = Entries(i)[k].house
         => Identity(Entries(i)[j]) = Identity(Entries(i)[k])
  /\ \E k \in DOMAIN Entries(i) :
       /\ Identity(Entries(i)[k]) = r
       /\ \A j \in 1..(k - 1) : Entries(i)[j].house # r.house
       /\ Entries(i)[k].rated # None => Entries(i)[k].rated >= 0

\* register-houses: every house it has registered has a file that speaks for
\* it.  A negative rating does not make a file unsound: it is not among the
\* checks made before anything is written, so the other houses of that file are
\* registered.
OnlySoundFiles ==
  \A r \in houses \ world.houses : \E i \in DOMAIN reg : SpeaksFor(i, r)

\* register-houses: a command that reports success leaves every house of its
\* file registered as the file says, also beside another command and after
\* lost answers.
ReportTrue ==
  \A i \in DOMAIN reg : reg[i].at = "ok" =>
    \A k \in DOMAIN Entries(i) : Identity(Entries(i)[k]) \in houses

\* Houses come from files whose identities are sound, as their first entry says,
\* and a success that was reported stays true.
RegistrationInv == OnlySoundFiles /\ ReportTrue

\* The grid of n is nowhere: not in the table, not in what the refresher has
\* read or published, not with a running failure-replay, and no handler has
\* admitted n.
Unknown(n) ==
  /\ world.log[n].body # None
  /\ world.log[n].body.grid \notin Known
  /\ \A a \in Actors : job[a] # None /\ job[a].n = n
       => job[a].at \notin {"store", "cache", "resolve"}

\* Admission may lag behind the table, but only by what was read before: once
\* the table and every copy of it have lost a grid, or never had it, nothing but
\* a migration lets a record of it in, whoever delivers or replays it ("a
\* failure quarantined for an unknown grid replays only once the grid exists").
UnknownStaysOut ==
  [][\A n \in Offsets :
       Unknown(n) /\ n \notin stored /\ world.log[n].body.grid \notin grids'
       => (Unknown(n) /\ n \notin stored)']_vars

\* No record blocks its partition: malformed, unknown, empty or panicking, the
\* worker gets past it, although recording it waits for a replay of its row.
NothingBlocks == <>[](next > Len(world.log))
=============================================================================
