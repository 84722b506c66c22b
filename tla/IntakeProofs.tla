---------------------------- MODULE IntakeProofs ----------------------------
(***************************************************************************)
(* Proofs about Intake for any records, files, grids, houses, limits,      *)
(* retry budget, clock bound and number of faults and of replays.          *)
(***************************************************************************)
EXTENDS Intake, FiniteSetTheorems, WellFoundedInduction, TLAPS

Job == [at : {"check", "store", "cache", "record", "resolve", "note"},
        n : Offsets, tries : 1..MaxTries, stage : Stages \cup {None}]

Command == [at : {"new", "refused", "dry", "write", "ok", "failed"},
            todo : SUBSET Nat, failed : Nat]

\* Grids are those of the scenario, the service always has a snapshot, and the
\* foreign key of houses holds.
GridsOK ==
  /\ Known \subseteq world.grids \cup world.moving
  /\ snapshot # {}
  /\ \A r \in houses : r.grid \in grids

\* The house of every heartbeat stored is registered.
StoredKnown ==
  \A n \in stored : world.log[n].topic = "heartbeat" => HouseKnown(world.log[n].body)

\* The tables and counters have their types.
StateTypes ==
  /\ world \in Scenarios
  /\ now \in 0..world.until
  /\ GridsOK
  /\ next \in 1..(Len(world.log) + 1)
  /\ stored \subseteq Offsets
  /\ ledger \in [Failures -> FailureRow \cup {None}]
  /\ job \in [Actors -> Job \cup {None}]
  /\ replays \in Nat

\* What a handler has in hand fits the tables once it is past the checks, and is
\* stored once it is past the store.
JobSound(a) ==
  job[a] # None =>
    /\ job[a].at = "store" => RowsFit(Record(a))
    /\ job[a].at \in {"cache", "resolve"} => job[a].n \in stored

\* The worker has the record at the committed offset in hand.
WorkerInv ==
  job["worker"] # None =>
    /\ job["worker"].n = next
    /\ job["worker"].at \in {"check", "store", "cache", "record"}
    /\ job["worker"].at = "record" => job["worker"].stage \in Stages

\* failure-replay holds f.
Holds(f) ==
  job["operator"] # None /\ f = <<job["operator"].n, job["operator"].stage>>

\* A replay runs inside a command, and the row it holds is an unresolved
\* failure.
OperatorInv ==
  job["operator"] # None =>
    /\ cmd # {}
    /\ job["operator"].stage \in Stages
    /\ ledger[<<job["operator"].n, job["operator"].stage>>] # None
    /\ ledger[<<job["operator"].n, job["operator"].stage>>].res = "unresolved"

\* A row has been counted up at most once for each replay that was started.
BudgetInv ==
  /\ replays <= world.replays
  /\ \A f \in Failures : ledger[f] # None =>
       /\ ledger[f].attempts >= 1
       /\ ledger[f].attempts + replays + (IF Holds(f) THEN 1 ELSE 0)
            <= MaxTries + world.replays

\* The entries that register-houses writes: the first of each house.
Firsts(i) ==
  {k \in DOMAIN Entries(i) : \A j \in 1..(k - 1) :
     Entries(i)[j].house # Entries(i)[k].house}

\* A command writes only an accepted file; until a house fails, every house it
\* is done with is registered as the file says.
CommandSound(i) ==
  /\ reg[i].todo \subseteq Firsts(i)
  /\ reg[i].failed + Cardinality(reg[i].todo) <= Len(Entries(i))
  /\ reg[i].at = "new" => reg[i].todo = {} /\ reg[i].failed = 0
  /\ reg[i].at = "write" => FileAccepted(i)
  /\ reg[i].at = "write" /\ reg[i].failed = 0 =>
       \A k \in Firsts(i) \ reg[i].todo : Identity(Entries(i)[k]) \in houses
  /\ reg[i].at = "ok" =>
       \A k \in DOMAIN Entries(i) : Identity(Entries(i)[k]) \in houses

\* The part of the invariant that is about records.
RecordPart ==
  /\ StateTypes
  /\ \A a \in Actors : JobSound(a)
  /\ WorkerInv
  /\ OperatorInv
  /\ BudgetInv
  /\ StoredKnown
  /\ AckedVisible

\* The part of the invariant that is about register-houses.
HousePart ==
  /\ world \in Scenarios
  /\ reg \in [DOMAIN world.files -> Command]
  /\ \A i \in DOMAIN reg : CommandSound(i)
  /\ OnlySoundFiles

\* The inductive invariant.
IInv == RecordPart /\ HousePart

-----------------------------------------------------------------------------
(* Sequences, minima, the decoder and the tables                           *)

\* What IsSequence says of a log and of a file.
LEMMA SequenceFacts ==
  ASSUME NEW s, IsSequence(s)
  PROVE  Len(s) \in Nat /\ DOMAIN s = 1..Len(s)
BY DEF IsSequence

\* The log and the files of the scenario are sequences, its bounds numbers.
LEMMA WorldFacts ==
  ASSUME world \in Scenarios
  PROVE  /\ Len(world.log) \in Nat /\ Offsets = 1..Len(world.log)
         /\ world.until \in Nat /\ world.replays \in Nat
         /\ \A i \in DOMAIN world.files :
              Len(Entries(i)) \in Nat /\ DOMAIN Entries(i) = 1..Len(Entries(i))
<1>1. IsSequence(world.log) /\ {world.until, world.replays, world.faults} \subseteq Nat
  BY IntakeAssumption
<1>2. \A i \in DOMAIN world.files : IsSequence(world.files[i])
  BY IntakeAssumption
<1>3. \A i \in DOMAIN world.files :
        Len(Entries(i)) \in Nat /\ DOMAIN Entries(i) = 1..Len(Entries(i))
  BY <1>2, SequenceFacts DEF Entries
<1> QED BY <1>1, <1>3, SequenceFacts DEF Offsets

\* Min picks the least element of a non-empty set of naturals.
LEMMA MinFacts ==
  ASSUME NEW S \in SUBSET Nat, S # {}
  PROVE  Min(S) \in S /\ \A y \in S : Min(S) <= y
<1> DEFINE F == {1..x : x \in S}
           R == StrictSubsetOrdering(Nat)
<1>1. F \subseteq FiniteSubsetsOf(Nat)
  <2>1. \A x \in S : 1..x \in SUBSET Nat /\ IsFiniteSet(1..x)
    BY FS_Interval
  <2> QED BY <2>1 DEF FiniteSubsetsOf
<1>2. PICK X \in F : \A Y \in F : ~ (<<Y, X>> \in R)
  <2>1. F # {}
    OBVIOUS
  <2>2. IsWellFoundedOn(R, FiniteSubsetsOf(Nat))
    BY FS_StrictSubsetOrderingWellFounded
  <2> HIDE DEF F, R
  <2> QED BY <1>1, <2>1, <2>2, WFMin
<1>3. PICK x \in S : X = 1..x
  OBVIOUS
<1>4. ASSUME NEW y \in S PROVE x <= y
  <2>1. SUFFICES ASSUME y < x PROVE FALSE
    OBVIOUS
  <2>2. 1..y \subseteq 1..x /\ 1..y # 1..x
    BY <2>1
  <2>3. <<1..y, 1..x>> \in R
    BY <2>2 DEF StrictSubsetOrdering
  <2> QED BY <2>3, <1>2, <1>3
<1> QED BY <1>4 DEF Min

\* Storage rows that were decoded satisfy the constraints of their table.
LEMMA StorageFits ==
  ASSUME NEW assets, DecodeStorageAssets(assets)
  PROVE  StorageRowsFit(assets)
BY DEF DecodeStorageAssets, StorageRowsFit, UniqueAssetIDs, ValidateAssetID,
       RequirePercent, RequireFinite, ValidateCapabilityField

\* So do asset rows.
LEMMA AssetsFit ==
  ASSUME NEW assets, DecodeFlexibleAssets(assets)
  PROVE  AssetRowsFit(assets)
BY DEF DecodeFlexibleAssets, AssetRowsFit, UniqueAssetIDs, ValidateAssetID,
       RequireNonNegative, NotNegative, ValidateCapabilityField

\* And the row of a reading.
LEMMA MeterFits ==
  ASSUME NEW b, NEW t, DecodeMeterReading(b, t)
  PROVE  MeterRowFits(b)
<1>1. b.grid # None /\ b.house # None /\ b.meter # None /\ b.class \in DeviceClasses
  BY DEF DecodeMeterReading, IdentityAccepted, ValidateGridID, ValidateHouseID,
         ValidateMeterID
<1>2. b.schema # None
  BY DecoderAssumption DEF DecodeMeterReading
<1> QED BY <1>1, <1>2 DEF DecodeMeterReading, MeterRowFits, RequireNonNegative,
          NotNegative, RequireFinite, OptionalNonNegative, OptionalPercent,
          RequirePercent

\* Decoder against migrations: the database accepts every record that the
\* decoders accept, at whatever time.
THEOREM DecodedFits ==
  ASSUME NEW rec, NEW t, Decodes(rec, t)
  PROVE  RowsFit(rec)
<1>1. CASE rec.topic = "meter"
  BY <1>1, MeterFits, StorageFits DEF Decodes, RowsFit, DecodeMeterReading
<1>2. CASE rec.topic # "meter"
  BY <1>2, AssetsFit DEF Decodes, RowsFit, DecodeHeartbeat
<1> QED BY <1>1, <1>2

-----------------------------------------------------------------------------
(* Handler steps that keep the record in hand                              *)

\* The handler of a goes on with the record it has in hand.
JobMoves(a) ==
  /\ job[a] # None
  /\ UNCHANGED <<world, now, tableVars, next, ledger, cmd, reg, replays>>
  /\ \/ UNCHANGED stored
     \/ /\ stored' = stored \cup {job[a].n}
        /\ job[a].at = "store"
        /\ Record(a).topic = "heartbeat" => HouseKnown(Record(a).body)
  /\ \E j \in Job :
       /\ job' = [job EXCEPT ![a] = j]
       /\ j.n = job[a].n
       /\ j.at = "store" =>
            job[a].at = "check" /\ Decodes(Record(a), now) /\ Lookup(a)
       /\ j.at = "cache" => job[a].at = "store" /\ j.n \in stored'
       /\ j.at = "resolve" => job[a].at = "cache"
       /\ a = "worker" =>
            /\ j.at \in {"check", "store", "cache", "record"}
            /\ j.at = "record" => j.stage \in Stages
       /\ a = "operator" => j.stage = job[a].stage

\* Fail leaves the record in hand, to be recorded or noted.
LEMMA FailMoves ==
  ASSUME RecordPart, NEW a \in Actors, job[a] # None, NEW s \in Stages,
         Fail(a, s)
  PROVE  \E j \in Job :
           /\ job' = [job EXCEPT ![a] = j]
           /\ j.n = job[a].n
           /\ j.at \in (IF a = "worker" THEN {"record"} ELSE {"note"})
           /\ a = "worker" => j.stage = s
           /\ a = "operator" => j.stage = job[a].stage
<1>1. job \in [Actors -> Job \cup {None}] /\ job[a] \in Job
  BY DEF RecordPart, StateTypes
<1> DEFINE j == IF a = "worker" THEN [job[a] EXCEPT !.at = "record", !.stage = s]
                ELSE [job[a] EXCEPT !.at = "note"]
<1>2. job' = [job EXCEPT ![a] = j]
  BY <1>1 DEF Fail
<1>3. j \in Job
  BY <1>1 DEF Job
<1>4. /\ j.n = job[a].n
      /\ j.at \in (IF a = "worker" THEN {"record"} ELSE {"note"})
      /\ a = "worker" => j.stage = s
      /\ a = "operator" => j.stage = job[a].stage
  BY <1>1 DEF Job
<1> HIDE DEF j
<1> QED BY <1>2, <1>3, <1>4

\* Retry runs the handler again or fails.
LEMMA RetryMoves ==
  ASSUME RecordPart, NEW a \in Actors, job[a] # None, NEW s \in Stages,
         Retry(a, s)
  PROVE  \E j \in Job :
           /\ job' = [job EXCEPT ![a] = j]
           /\ j.n = job[a].n
           /\ j.at \in (IF a = "worker" THEN {"check", "record"} ELSE {"note"})
           /\ j.at = "record" => j.stage = s
           /\ a = "operator" => j.stage = job[a].stage
<1>1. job \in [Actors -> Job \cup {None}] /\ job[a] \in Job
  BY DEF RecordPart, StateTypes
<1>2. CASE a = "worker" /\ job[a].tries < MaxTries
  <2> DEFINE j == [job[a] EXCEPT !.at = "check", !.tries = @ + 1]
  <2>1. job' = [job EXCEPT ![a] = j]
    BY <1>1, <1>2 DEF Retry, Job
  <2>2. job[a].tries + 1 \in 1..MaxTries
    BY <1>1, <1>2, IntakeAssumption DEF Job
  <2>3. j \in Job /\ j.n = job[a].n /\ j.at = "check"
    BY <1>1, <2>2 DEF Job
  <2> HIDE DEF j
  <2> QED BY <1>2, <2>1, <2>3
<1>3. CASE ~(a = "worker" /\ job[a].tries < MaxTries)
  <2>1. Fail(a, s)
    BY <1>3 DEF Retry
  <2>2. PICK j \in Job :
           /\ job' = [job EXCEPT ![a] = j]
           /\ j.n = job[a].n
           /\ j.at \in (IF a = "worker" THEN {"record"} ELSE {"note"})
           /\ a = "worker" => j.stage = s
           /\ a = "operator" => j.stage = job[a].stage
    BY <2>1, FailMoves
  <2>3. j.at = "record" => a = "worker"
    BY <2>2
  <2> QED BY <2>2, <2>3
<1> QED BY <1>2, <1>3

\* Go changes where the handler is and nothing else.
LEMMA GoMoves ==
  ASSUME RecordPart, NEW a \in Actors, job[a] # None,
         NEW c \in {"store", "cache", "resolve"}, Go(a, c)
  PROVE  \E j \in Job : /\ job' = [job EXCEPT ![a] = j]
                        /\ j.n = job[a].n
                        /\ j.at = c
                        /\ j.stage = job[a].stage
<1>1. job \in [Actors -> Job \cup {None}] /\ job[a] \in Job
  BY DEF RecordPart, StateTypes
<1> DEFINE j == [job[a] EXCEPT !.at = c]
<1>2. job' = [job EXCEPT ![a] = j]
  BY <1>1 DEF Go
<1>3. j \in Job /\ j.n = job[a].n /\ j.at = c /\ j.stage = job[a].stage
  BY <1>1 DEF Job
<1> HIDE DEF j
<1> QED BY <1>2, <1>3

\* The steps of a handler that go on with the record in hand.
LEMMA HandlerMoves ==
  ASSUME RecordPart, NEW a \in Actors,
         \/ Check(a) \/ Store(a) \/ StoreError(a) \/ CacheError(a)
         \/ a = "operator" /\ Cache(a)
         \/ a = "worker" /\ Panic
  PROVE  JobMoves(a)
<1> USE DEF HandlerFrame, Stages
<1>0. a \in {"worker", "operator"} /\ "worker" # "operator"
  BY DEF Actors
<1>1. CASE Check(a)
  <2> SUFFICES ASSUME job[a] # None PROVE JobMoves(a)
    BY <1>1 DEF Check, At
  <2>1. CASE Fail(a, "decode") \/ Fail(a, "grid_validation")
    <3>1. PICK j \in Job :
             /\ job' = [job EXCEPT ![a] = j]
             /\ j.n = job[a].n
             /\ j.at \in (IF a = "worker" THEN {"record"} ELSE {"note"})
             /\ a = "worker" => j.stage \in Stages
             /\ a = "operator" => j.stage = job[a].stage
      <4>1. CASE Fail(a, "decode")
        BY <4>1, FailMoves
      <4>2. CASE Fail(a, "grid_validation")
        BY <4>2, FailMoves
      <4> QED BY <2>1, <4>1, <4>2
    <3> QED BY <1>0, <1>1, <3>1 DEF Check, JobMoves
  <2>2. CASE Go(a, "store") /\ Decodes(Record(a), now) /\ Lookup(a)
    <3>1. PICK j \in Job : /\ job' = [job EXCEPT ![a] = j]
                           /\ j.n = job[a].n
                           /\ j.at = "store"
                           /\ j.stage = job[a].stage
      BY <2>2, GoMoves
    <3> QED BY <1>0, <1>1, <2>2, <3>1 DEF Check, JobMoves, At
  <2> QED BY <1>1, <2>1, <2>2 DEF Check
<1>2. CASE Store(a)
  <2> SUFFICES ASSUME job[a] # None, job[a].at = "store" PROVE JobMoves(a)
    BY <1>2 DEF Store, At
  <2>1. CASE (Fail(a, "grid_validation") \/ Retry(a, "timescale_write")) /\ UNCHANGED stored
    <3>1. PICK j \in Job :
             /\ job' = [job EXCEPT ![a] = j]
             /\ j.n = job[a].n
             /\ j.at \in (IF a = "worker" THEN {"check", "record"} ELSE {"note"})
             /\ j.at = "record" => j.stage \in Stages
             /\ a = "operator" => j.stage = job[a].stage
      <4>1. CASE Fail(a, "grid_validation")
        <5>1. PICK j \in Job :
                 /\ job' = [job EXCEPT ![a] = j]
                 /\ j.n = job[a].n
                 /\ j.at \in (IF a = "worker" THEN {"record"} ELSE {"note"})
                 /\ a = "worker" => j.stage = "grid_validation"
                 /\ a = "operator" => j.stage = job[a].stage
          BY <4>1, FailMoves
        <5> QED BY <1>0, <5>1
      <4>2. CASE Retry(a, "timescale_write")
        BY <4>2, RetryMoves
      <4> QED BY <2>1, <4>1, <4>2
    <3> QED BY <1>0, <1>2, <2>1, <3>1 DEF Store, JobMoves
  <2>2. CASE /\ Go(a, "cache") /\ stored' = stored \cup {job[a].n}
             /\ Record(a).topic = "heartbeat" => HouseKnown(Record(a).body)
    <3>1. PICK j \in Job : /\ job' = [job EXCEPT ![a] = j]
                           /\ j.n = job[a].n
                           /\ j.at = "cache"
                           /\ j.stage = job[a].stage
      BY <2>2, GoMoves
    <3> QED BY <1>0, <1>2, <2>2, <3>1 DEF Store, JobMoves
  <2> QED BY <1>2, <2>1, <2>2 DEF Store
<1>3. CASE StoreError(a) \/ CacheError(a)
  <2>1. PICK s \in Stages : Retry(a, s)
    BY <1>3 DEF StoreError, CacheError
  <2>2. job[a] # None
    BY <1>3 DEF StoreError, CacheError, At
  <2>3. PICK j \in Job :
           /\ job' = [job EXCEPT ![a] = j]
           /\ j.n = job[a].n
           /\ j.at \in (IF a = "worker" THEN {"check", "record"} ELSE {"note"})
           /\ j.at = "record" => j.stage \in Stages
           /\ a = "operator" => j.stage = job[a].stage
    BY <2>1, <2>2, RetryMoves
  <2>4. /\ UNCHANGED <<world, now, tableVars, next, ledger, cmd, reg, replays>>
        /\ \/ UNCHANGED stored
           \/ /\ stored' = stored \cup {job[a].n}
              /\ job[a].at = "store"
              /\ Record(a).topic = "heartbeat" => HouseKnown(Record(a).body)
    BY <1>3 DEF StoreError, CacheError, At
  <2> QED BY <1>0, <2>2, <2>3, <2>4 DEF JobMoves
<1>4. CASE a = "operator" /\ Cache(a)
  <2>1. job[a] # None /\ job[a].at = "cache" /\ Go(a, "resolve")
    BY <1>0, <1>4 DEF Cache, At
  <2>2. PICK j \in Job : /\ job' = [job EXCEPT ![a] = j]
                         /\ j.n = job[a].n
                         /\ j.at = "resolve"
                         /\ j.stage = job[a].stage
    BY <2>1, GoMoves
  <2> QED BY <1>0, <1>4, <2>1, <2>2 DEF Cache, JobMoves
<1>5. CASE a = "worker" /\ Panic
  <2>1. job[a] # None /\ Fail(a, "handler_panic")
    BY <1>5 DEF Panic
  <2>2. PICK j \in Job :
           /\ job' = [job EXCEPT ![a] = j]
           /\ j.n = job[a].n
           /\ j.at \in (IF a = "worker" THEN {"record"} ELSE {"note"})
           /\ a = "worker" => j.stage = "handler_panic"
           /\ a = "operator" => j.stage = job[a].stage
    BY <2>1, FailMoves
  <2> QED BY <1>0, <1>5, <2>1, <2>2 DEF Panic, JobMoves
<1> QED BY <1>1, <1>2, <1>3, <1>4, <1>5

\* They keep the part of the invariant that is about records.
LEMMA JobMovesInv ==
  ASSUME RecordPart, NEW a \in Actors, JobMoves(a)
  PROVE  RecordPart'
<1> USE DEF tableVars
<1>0. a \in {"worker", "operator"}
  BY DEF Actors
<1>1. /\ job \in [Actors -> Job \cup {None}] /\ job[a] \in Job
      /\ UNCHANGED <<world, now, grids, loaded, snapshot, houses, next, ledger, cmd, replays>>
  BY DEF RecordPart, StateTypes, JobMoves
<1>2. PICK j \in Job :
        /\ job' = [job EXCEPT ![a] = j]
        /\ j.n = job[a].n
        /\ j.at = "store" =>
             job[a].at = "check" /\ Decodes(Record(a), now) /\ Lookup(a)
        /\ j.at = "cache" => job[a].at = "store" /\ j.n \in stored'
        /\ j.at = "resolve" => job[a].at = "cache"
        /\ a = "worker" =>
             /\ j.at \in {"check", "store", "cache", "record"}
             /\ j.at = "record" => j.stage \in Stages
        /\ a = "operator" => j.stage = job[a].stage
  BY DEF JobMoves
<1>3. job'[a] = j /\ \A b \in Actors : b # a => job'[b] = job[b]
  BY <1>1, <1>2
<1>4. stored \subseteq stored' /\ stored' \subseteq stored \cup {job[a].n}
  BY DEF JobMoves
<1>5. StateTypes'
  <2>1. job' \in [Actors -> Job \cup {None}]
    BY <1>1, <1>2
  <2>2. Offsets' = Offsets /\ Failures' = Failures /\ Job' = Job
    BY <1>1 DEF Offsets, Failures, Job
  <2>3. stored' \subseteq Offsets
    BY <1>1, <1>4 DEF RecordPart, StateTypes, Job
  <2> QED BY <1>1, <2>1, <2>2, <2>3 DEF RecordPart, StateTypes, GridsOK, Known
<1>6. ASSUME NEW b \in Actors PROVE JobSound(b)'
  <2>1. CASE b # a
    BY <1>1, <1>3, <1>4, <2>1 DEF RecordPart, JobSound, Record
  <2>2. CASE b = a
    <3>1. Record(a)' = Record(a)
      BY <1>1, <1>2, <1>3 DEF Record
    <3>2. j.at = "store" => RowsFit(Record(a))
      BY <1>2, DecodedFits
    <3>3. j.at = "resolve" => j.n \in stored'
      BY <1>2, <1>4 DEF RecordPart, JobSound, JobMoves
    <3> QED BY <1>1, <1>2, <1>3, <2>2, <3>1, <3>2, <3>3 DEF JobSound
  <2> QED BY <2>1, <2>2
<1>7. WorkerInv'
  BY <1>0, <1>1, <1>2, <1>3 DEF RecordPart, WorkerInv, JobMoves, Actors
<1>8. /\ job'["operator"] # None => job["operator"] # None
      /\ job'["operator"] # None => job'["operator"].n = job["operator"].n
                                   /\ job'["operator"].stage = job["operator"].stage
  BY <1>0, <1>2, <1>3 DEF JobMoves, Actors
<1>9. OperatorInv'
  BY <1>1, <1>8 DEF RecordPart, OperatorInv
<1>10. BudgetInv'
  <2>1. \A f \in Failures : Holds(f)' => Holds(f)
    BY <1>8 DEF Holds
  <2>2. Failures' = Failures
    BY <1>1 DEF Offsets, Failures
  <2>3. BudgetInv /\ ledger \in [Failures -> FailureRow \cup {None}] /\ replays \in Nat
    BY DEF RecordPart, StateTypes
  <2>4. MaxTries \in Nat /\ world.replays \in Nat
    BY WorldFacts, IntakeAssumption DEF RecordPart, StateTypes
  <2>5. ASSUME NEW f \in Failures, ledger[f] # None
        PROVE  /\ ledger[f].attempts >= 1
               /\ ledger[f].attempts + replays + (IF Holds(f)' THEN 1 ELSE 0)
                    <= MaxTries + world.replays
    <3>1. ledger[f].attempts \in Nat
      BY <2>3, <2>5 DEF FailureRow
    <3> QED BY <2>1, <2>3, <2>4, <2>5, <3>1 DEF BudgetInv
  <2> QED BY <1>1, <2>2, <2>3, <2>5 DEF BudgetInv
<1>11. StoredKnown'
  <2>1. ASSUME NEW n \in stored', n \notin stored
        PROVE  world.log[n].topic = "heartbeat" => HouseKnown(world.log[n].body)
    BY <1>4, <2>1 DEF JobMoves, Record
  <2> QED BY <1>1, <1>4, <2>1 DEF RecordPart, StoredKnown, HouseKnown
<1>12. AckedVisible'
  <2>1. Failures' = Failures
    BY <1>1 DEF Offsets, Failures
  <2> QED BY <1>1, <1>4, <2>1 DEF RecordPart, AckedVisible
<1> QED BY <1>5, <1>6, <1>7, <1>9, <1>10, <1>11, <1>12 DEF RecordPart, Actors

-----------------------------------------------------------------------------
(* The clock, the grid table and register-houses                           *)

\* The part about records survives whatever lets the clock run, the houses grow
\* and the grids change in the table and its copies.
LEMMA WorldMoves ==
  ASSUME RecordPart,
         UNCHANGED <<world, next, stored, ledger, job, replays>>,
         now' \in 0..world.until, houses \subseteq houses', GridsOK',
         cmd # {} => cmd' # {}
  PROVE  RecordPart'
<1>1. Offsets' = Offsets /\ Failures' = Failures /\ Job' = Job
  BY DEF Offsets, Failures, Job
<1>2. StateTypes'
  BY <1>1 DEF RecordPart, StateTypes
<1>3. \A a \in Actors : JobSound(a)'
  BY DEF RecordPart, JobSound, Record
<1>4. WorkerInv' /\ OperatorInv'
  BY DEF RecordPart, WorkerInv, OperatorInv
<1>5. BudgetInv'
  BY <1>1 DEF RecordPart, BudgetInv, Holds
<1>6. StoredKnown'
  BY DEF RecordPart, StoredKnown, HouseKnown
<1>7. AckedVisible'
  BY <1>1 DEF RecordPart, AckedVisible
<1> QED BY <1>2, <1>3, <1>4, <1>5, <1>6, <1>7 DEF RecordPart, Actors

\* The clock, the grid table, the refresher, a command that starts and
\* register-houses.
LEMMA WorldSteps ==
  ASSUME RecordPart,
         \/ Tick \/ Provision \/ Retire \/ LoadGrids \/ Publish \/ StartCommand
         \/ /\ RegFrame /\ houses \subseteq houses'
            /\ \A r \in houses' \ houses : r.grid \in grids
  PROVE  RecordPart'
<1> USE DEF HandlerFrame, GridFrame, RegFrame, tableVars
<1>1. now \in 0..world.until /\ world.until \in Nat /\ GridsOK
  BY WorldFacts DEF RecordPart, StateTypes
<1>2. CASE Tick
  <2>1. GridsOK'
    BY <1>1, <1>2 DEF Tick, GridsOK, Known
  <2> QED BY <1>1, <1>2, <2>1, WorldMoves DEF Tick
<1>3. CASE Provision \/ Retire
  <2>1. UNCHANGED <<world, now, houses, next, stored, ledger, job, replays, cmd>>
    BY <1>3 DEF Provision, Retire
  <2>2. GridsOK'
    <3>1. PICK g \in world.moving :
            \/ grids' = grids \cup {g}
            \/ grids' = grids \ {g} /\ \A r \in houses : r.grid # g
      BY <1>3 DEF Provision, Retire
    <3>2. UNCHANGED <<loaded, snapshot>>
      BY <1>3 DEF Provision, Retire
    <3> QED BY <1>1, <2>1, <3>1, <3>2 DEF GridsOK, Known
  <2> QED BY <1>1, <2>1, <2>2, WorldMoves
<1>4. CASE LoadGrids \/ Publish
  <2>1. UNCHANGED <<world, now, houses, next, stored, ledger, job, replays, cmd>>
    BY <1>4 DEF LoadGrids, Publish
  <2>2. GridsOK'
    BY <1>1, <1>4, <2>1 DEF GridsOK, Known, LoadGrids, Publish
  <2> QED BY <1>1, <2>1, <2>2, WorldMoves
<1>5. CASE StartCommand
  <2>1. GridsOK'
    BY <1>1, <1>5 DEF GridsOK, Known, StartCommand
  <2> QED BY <1>1, <1>5, <2>1, WorldMoves DEF StartCommand
<1>6. CASE /\ RegFrame /\ houses \subseteq houses'
           /\ \A r \in houses' \ houses : r.grid \in grids
  <2>1. GridsOK'
    BY <1>1, <1>6 DEF GridsOK, Known
  <2> QED BY <1>1, <1>6, <2>1, WorldMoves
<1> QED BY <1>2, <1>3, <1>4, <1>5, <1>6

-----------------------------------------------------------------------------
(* The worker takes a record, leaves it behind, or loses it                *)

\* The worker gets a record or drops it; the committed offset moves over a
\* record that is stored, or in the ledger, or moves back.
LEMMA WorkerMoves ==
  ASSUME RecordPart,
         UNCHANGED <<world, now, grids, loaded, snapshot, houses, stored, ledger, cmd, replays>>,
         NEW j \in Job \cup {None}, job' = [job EXCEPT !["worker"] = j],
         j # None => j.n = next' /\ j.at = "check",
         \/ next' \in 1..next
         \/ next' = next + 1 /\ next \in Offsets /\ next \in stored
  PROVE  RecordPart'
<1>1. Offsets' = Offsets /\ Failures' = Failures /\ Job' = Job
  BY DEF Offsets, Failures, Job
<1>2. /\ job \in [Actors -> Job \cup {None}] /\ Len(world.log) \in Nat
      /\ Offsets = 1..Len(world.log) /\ next \in 1..(Len(world.log) + 1)
      /\ "worker" \in Actors /\ "operator" \in Actors
  BY WorldFacts DEF RecordPart, StateTypes, Actors
<1>3. job'["worker"] = j /\ job'["operator"] = job["operator"]
  BY <1>2
<1>4. next' \in 1..(Len(world.log) + 1)
  BY <1>2
<1>5. StateTypes'
  <2>1. job' \in [Actors -> Job \cup {None}]
    BY <1>2
  <2> QED BY <1>1, <1>4, <2>1 DEF RecordPart, StateTypes, GridsOK, Known
<1>6. JobSound("worker")' /\ JobSound("operator")'
  BY <1>2, <1>3 DEF RecordPart, JobSound, Record
<1>7. WorkerInv' /\ OperatorInv'
  BY <1>3 DEF RecordPart, WorkerInv, OperatorInv
<1>8. BudgetInv'
  BY <1>1, <1>3 DEF RecordPart, BudgetInv, Holds
<1>9. StoredKnown'
  BY DEF RecordPart, StoredKnown, HouseKnown
<1>10. AckedVisible'
  <2>1. \A n \in 1..(next' - 1) : n \in 1..(next - 1) \/ n \in stored
    BY <1>2
  <2> QED BY <1>1, <2>1 DEF RecordPart, AckedVisible
<1> QED BY <1>5, <1>6, <1>7, <1>8, <1>9, <1>10 DEF RecordPart, Actors

\* Delivery, the end of a handler, a stop and a lost commit.
LEMMA WorkerSteps ==
  ASSUME RecordPart, Deliver \/ Cache("worker") \/ WorkerStops \/ CommitLost
  PROVE  RecordPart'
<1> USE DEF HandlerFrame, tableVars
<1>1. /\ job \in [Actors -> Job \cup {None}] /\ Len(world.log) \in Nat
      /\ Offsets = 1..Len(world.log) /\ next \in 1..(Len(world.log) + 1)
      /\ "worker" \in Actors
  BY WorldFacts DEF RecordPart, StateTypes, Actors
<1>2. CASE Deliver
  <2> DEFINE j == [at |-> "check", n |-> next, tries |-> 1, stage |-> None]
  <2>1. j \in Job /\ j.n = next /\ j.at = "check"
    BY <1>2, IntakeAssumption DEF Deliver, Job
  <2>2. /\ job' = [job EXCEPT !["worker"] = j] /\ next' = next
        /\ UNCHANGED <<world, now, grids, loaded, snapshot, houses, stored, ledger, cmd, replays>>
    BY <1>2 DEF Deliver
  <2>3. next' \in 1..next
    BY <1>1, <2>2
  <2> HIDE DEF j
  <2> QED BY <2>1, <2>2, <2>3, WorkerMoves
<1>3. CASE Cache("worker")
  <2>1. job["worker"] # None /\ next \in stored /\ next \in Offsets
    BY <1>1, <1>3 DEF Cache, At, RecordPart, WorkerInv, JobSound, StateTypes
  <2> QED BY <1>3, <2>1, WorkerMoves DEF Cache, Drop
<1>4. CASE WorkerStops
  <2>1. next' \in 1..next
    BY <1>1, <1>4 DEF WorkerStops
  <2> QED BY <1>4, <2>1, WorkerMoves DEF WorkerStops, Drop
<1>5. CASE CommitLost
  <2>1. next' \in 1..next
    BY <1>1, <1>5 DEF CommitLost
  <2>2. job' = [job EXCEPT !["worker"] = None]
    BY <1>1, <1>5 DEF CommitLost
  <2> QED BY <1>5, <2>1, <2>2, WorkerMoves DEF CommitLost
<1> QED BY <1>2, <1>3, <1>4, <1>5

-----------------------------------------------------------------------------
(* The ledger                                                              *)

\* A failure is recorded: the row keeps its resolution, or is new.
LEMMA RecordFailureInv ==
  ASSUME RecordPart, RecordFailure
  PROVE  RecordPart'
<1> USE DEF HandlerFrame, tableVars
<1>1. Offsets' = Offsets /\ Failures' = Failures /\ Job' = Job
  BY DEF Offsets, Failures, Job, RecordFailure
<1>2. /\ job \in [Actors -> Job \cup {None}] /\ Len(world.log) \in Nat
      /\ Offsets = 1..Len(world.log) /\ next \in 1..(Len(world.log) + 1)
      /\ "worker" \in Actors /\ "operator" \in Actors
      /\ ledger \in [Failures -> FailureRow \cup {None}]
      /\ replays \in Nat /\ world.replays \in Nat /\ replays <= world.replays
  BY WorldFacts DEF RecordPart, StateTypes, Actors, BudgetInv
<1> DEFINE f == <<job["worker"].n, job["worker"].stage>>
           t == job["worker"].tries
<1>3. /\ job["worker"] \in Job /\ next \in Offsets
      /\ f = <<next, job["worker"].stage>> /\ f \in Failures /\ t \in 1..MaxTries
  BY <1>2 DEF RecordFailure, At, RecordPart, WorkerInv, Failures, Job
<1>4. job'["worker"] = None /\ job'["operator"] = job["operator"]
  BY <1>2 DEF RecordFailure, Drop
<1>5. ~Holds(f)
  BY DEF RecordFailure, Held, Holds
<1> DEFINE r == IF ledger[f] = None
                THEN [res |-> "unresolved", attempts |-> t, reason |-> f[2]]
                ELSE [ledger[f] EXCEPT !.attempts = t, !.reason = f[2]]
<1>6. ledger' = [ledger EXCEPT ![f] = r]
  BY <1>2, <1>3 DEF RecordFailure, Upsert
<1>7. r \in FailureRow /\ r # None /\ r.attempts = t
      /\ r.res = IF ledger[f] = None THEN "unresolved" ELSE ledger[f].res
  <2>1. f[2] \in Stages /\ t \in Nat
    BY <1>3, IntakeAssumption DEF Failures
  <2>2. CASE ledger[f] = None
    BY <2>1, <2>2, IntakeAssumption DEF FailureRow
  <2>3. CASE ledger[f] # None
    <3>1. ledger[f] \in FailureRow
      BY <1>2, <1>3, <2>3
    <3> QED BY <2>1, <2>3, <3>1, IntakeAssumption DEF FailureRow
  <2> QED BY <2>2, <2>3
<1> HIDE DEF r, f, t
<1>8. ledger'[f] = r /\ \A g \in Failures : g # f => ledger'[g] = ledger[g]
  BY <1>2, <1>3, <1>6
<1>9. StateTypes'
  <2>1. ledger' \in [Failures -> FailureRow \cup {None}]
    BY <1>2, <1>3, <1>6, <1>7
  <2>2. job' \in [Actors -> Job \cup {None}]
    BY <1>2 DEF RecordFailure, Drop
  <2>3. next' \in 1..(Len(world.log) + 1)
    BY <1>2, <1>3 DEF RecordFailure
  <2> QED BY <1>1, <2>1, <2>2, <2>3 DEF RecordPart, StateTypes, GridsOK, Known, RecordFailure
<1>10. JobSound("worker")' /\ JobSound("operator")'
  BY <1>2, <1>4 DEF RecordPart, JobSound, Record, RecordFailure
<1>11. WorkerInv'
  BY <1>4 DEF WorkerInv
<1>12. OperatorInv'
  <2>1. CASE job["operator"] = None
    BY <1>4, <2>1 DEF RecordPart, OperatorInv, RecordFailure
  <2>2. CASE job["operator"] # None
    <3> DEFINE g == <<job["operator"].n, job["operator"].stage>>
    <3>1. g \in Failures /\ g # f
      BY <1>2, <1>5, <2>2 DEF RecordPart, OperatorInv, Holds, Failures, Job
    <3>2. ledger'[g] = ledger[g]
      BY <1>8, <3>1
    <3> QED BY <1>4, <3>2 DEF RecordPart, OperatorInv, RecordFailure
  <2> QED BY <2>1, <2>2
<1>13. BudgetInv'
  <2>1. UNCHANGED <<world, replays>> /\ MaxTries \in Nat
    BY IntakeAssumption DEF RecordFailure
  <2>2. \A g \in Failures : Holds(g)' <=> Holds(g)
    BY <1>4 DEF Holds
  <2>3. r.attempts >= 1 /\ r.attempts + replays <= MaxTries + world.replays
    BY <1>2, <1>3, <1>7, <2>1
  <2>4. ASSUME NEW g \in Failures, ledger'[g] # None
        PROVE  /\ ledger'[g].attempts >= 1
               /\ ledger'[g].attempts + replays + (IF Holds(g) THEN 1 ELSE 0)
                    <= MaxTries + world.replays
    <3>1. CASE g = f
      <4>1. r.attempts \in Nat
        BY <1>7 DEF FailureRow
      <4>2. ~Holds(g) /\ ledger'[g] = r
        BY <1>5, <1>8, <3>1
      <4> QED BY <1>2, <2>3, <4>1, <4>2
    <3>2. CASE g # f
      BY <1>8, <2>4, <3>2 DEF RecordPart, BudgetInv
    <3> QED BY <3>1, <3>2
  <2> QED BY <1>1, <1>2, <2>1, <2>2, <2>4 DEF BudgetInv
<1>14. StoredKnown'
  BY DEF RecordPart, StoredKnown, HouseKnown, RecordFailure
<1>15. AckedVisible'
  <2>1. stored' = stored /\ next' = next + 1 /\ AckedVisible
    BY DEF RecordPart, RecordFailure
  <2>2. ledger'[f].res = "replayed" => next \in stored
    BY <1>3, <1>7, <1>8, <2>1 DEF AckedVisible
  <2>3. \A g \in Failures : ledger'[g] # None /\ ledger'[g].res = "replayed"
                             => g[1] \in stored
    BY <1>3, <1>8, <2>1, <2>2 DEF AckedVisible
  <2>4. r.res \in {"unresolved", "replayed", "discarded"}
    BY <1>7 DEF FailureRow
  <2>5. ASSUME NEW n \in 1..next, n \notin stored
        PROVE  \E s \in Stages : /\ ledger'[<<n, s>>] # None
                                 /\ ledger'[<<n, s>>].res \in {"unresolved", "discarded"}
    <3>1. CASE n = next
      <4>1. job["worker"].stage \in Stages
        BY <1>3 DEF Failures
      <4> QED BY <1>3, <1>7, <1>8, <2>2, <2>4, <2>5, <3>1, <4>1
    <3>2. CASE n # next
      <4>1. n \in 1..(next - 1) /\ n \in Offsets
        BY <1>2, <3>2
      <4>2. PICK s \in Stages : /\ ledger[<<n, s>>] # None
                                /\ ledger[<<n, s>>].res \in {"unresolved", "discarded"}
        BY <2>1, <2>5, <4>1 DEF AckedVisible
      <4>3. <<n, s>> \in Failures /\ <<n, s>> # f
        BY <1>3, <3>2, <4>1 DEF Failures
      <4> QED BY <1>8, <4>2, <4>3
    <3> QED BY <3>1, <3>2
  <2>6. 1..(next' - 1) = 1..next
    BY <1>2, <2>1
  <2> QED BY <1>1, <2>1, <2>3, <2>5, <2>6 DEF AckedVisible
<1> QED BY <1>9, <1>10, <1>11, <1>12, <1>13, <1>14, <1>15 DEF RecordPart, Actors

\* One row of the ledger gets a new resolution: discarded by an operator while
\* no replay holds it, or as the replay leaves it that held it.
LEMMA RowMoves ==
  ASSUME RecordPart,
         UNCHANGED <<world, now, grids, loaded, snapshot, houses, next, stored>>,
         NEW f \in Failures, ledger[f] # None, ledger[f].res = "unresolved",
         NEW r \in FailureRow, ledger' = [ledger EXCEPT ![f] = r],
         r.res = "replayed" => f[1] \in stored,
         \/ /\ Holds(f)
            /\ job' = [job EXCEPT !["operator"] = None]
            /\ UNCHANGED <<cmd, replays>>
            /\ r.attempts \in {ledger[f].attempts, ledger[f].attempts + 1}
         \/ /\ ~Holds(f)
            /\ UNCHANGED <<job, cmd>>
            /\ replays > 0 /\ replays' = replays - 1
            /\ r.attempts = ledger[f].attempts
  PROVE  RecordPart'
<1>1. Offsets' = Offsets /\ Failures' = Failures /\ Job' = Job
  BY DEF Offsets, Failures, Job
<1>2. /\ job \in [Actors -> Job \cup {None}]
      /\ "worker" \in Actors /\ "operator" \in Actors
      /\ ledger \in [Failures -> FailureRow \cup {None}]
      /\ replays \in Nat /\ world.replays \in Nat /\ replays <= world.replays
      /\ MaxTries \in Nat
  BY WorldFacts, IntakeAssumption DEF RecordPart, StateTypes, Actors, BudgetInv
<1>3. ledger'[f] = r /\ \A g \in Failures : g # f => ledger'[g] = ledger[g]
  BY <1>2
<1>4. /\ job'["worker"] = job["worker"]
      /\ job'["operator"] # None => job'["operator"] = job["operator"] /\ ~Holds(f)
  BY <1>2
<1>5. r # None /\ ledger[f] \in FailureRow
  BY <1>2, IntakeAssumption
<1>6. StateTypes'
  <2>1. ledger' \in [Failures -> FailureRow \cup {None}]
    BY <1>2
  <2>2. job' \in [Actors -> Job \cup {None}] /\ replays' \in Nat
    BY <1>2
  <2> QED BY <1>1, <2>1, <2>2 DEF RecordPart, StateTypes, GridsOK, Known
<1>7. JobSound("worker")' /\ JobSound("operator")'
  BY <1>2, <1>4 DEF RecordPart, JobSound, Record
<1>8. WorkerInv'
  BY <1>4 DEF RecordPart, WorkerInv
<1>9. OperatorInv'
  <2>1. cmd' = cmd
    OBVIOUS
  <2>2. CASE job'["operator"] = None
    BY <2>1, <2>2 DEF RecordPart, OperatorInv
  <2>3. CASE job'["operator"] # None
    <3> DEFINE g == <<job["operator"].n, job["operator"].stage>>
    <3>1. g \in Failures /\ g # f
      BY <1>2, <1>4, <2>3 DEF RecordPart, OperatorInv, Holds, Failures, Job
    <3>2. ledger'[g] = ledger[g]
      BY <1>3, <3>1
    <3> QED BY <1>4, <2>1, <2>3, <3>2 DEF RecordPart, OperatorInv
  <2> QED BY <2>2, <2>3
<1>10. BudgetInv'
  <2>1. BudgetInv
    BY DEF RecordPart
  <2>2. replays' \in Nat /\ replays' <= replays
    BY <1>2
  <2>3. ASSUME NEW g \in Failures, ledger'[g] # None
        PROVE  /\ ledger'[g].attempts >= 1
               /\ ledger'[g].attempts + replays' + (IF Holds(g)' THEN 1 ELSE 0)
                    <= MaxTries + world.replays
    <3>1. CASE g # f
      <4>1. Holds(g)' => Holds(g)
        BY <1>4 DEF Holds
      <4>2. ledger'[g] = ledger[g] /\ ledger[g].attempts \in Nat
        BY <1>2, <1>3, <2>3, <3>1 DEF FailureRow
      <4> QED BY <1>2, <2>1, <2>2, <2>3, <4>1, <4>2 DEF BudgetInv
    <3>2. CASE g = f
      <4>1. ledger[f].attempts \in Nat /\ ledger[f].attempts >= 1
        BY <1>5, <2>1 DEF FailureRow, BudgetInv
      <4>2. ledger[f].attempts + replays + (IF Holds(f) THEN 1 ELSE 0)
              <= MaxTries + world.replays
        BY <2>1 DEF BudgetInv
      <4>3. ~Holds(f)' /\ ledger'[f] = r
        BY <1>2, <1>3 DEF Holds
      <4>4. CASE Holds(f)
        <5>1. replays' = replays /\ r.attempts \in {ledger[f].attempts, ledger[f].attempts + 1}
          BY <4>4
        <5> QED BY <1>2, <3>2, <4>1, <4>2, <4>3, <4>4, <5>1
      <4>5. CASE ~Holds(f)
        <5>1. replays' = replays - 1 /\ r.attempts = ledger[f].attempts
          BY <4>5
        <5> QED BY <1>2, <3>2, <4>1, <4>2, <4>3, <4>5, <5>1
      <4> QED BY <4>4, <4>5
    <3> QED BY <3>1, <3>2
  <2> QED BY <1>1, <1>2, <2>2, <2>3 DEF BudgetInv
<1>11. StoredKnown'
  BY DEF RecordPart, StoredKnown, HouseKnown
<1>12. AckedVisible'
  <2>1. AckedVisible /\ r.res \in {"unresolved", "replayed", "discarded"}
    BY DEF RecordPart, FailureRow
  <2>2. \A g \in Failures : ledger'[g] # None /\ ledger'[g].res = "replayed"
                             => g[1] \in stored
    BY <1>3, <2>1 DEF AckedVisible
  <2>3. ASSUME NEW n \in 1..(next - 1), n \notin stored
        PROVE  \E s \in Stages : /\ ledger'[<<n, s>>] # None
                                 /\ ledger'[<<n, s>>].res \in {"unresolved", "discarded"}
    <3>1. PICK s \in Stages : /\ ledger[<<n, s>>] # None
                              /\ ledger[<<n, s>>].res \in {"unresolved", "discarded"}
      BY <2>1, <2>3 DEF AckedVisible
    <3>2. n \in Offsets
      BY WorldFacts DEF RecordPart, StateTypes
    <3>3. <<n, s>> \in Failures /\ <<n, s>>[1] = n
      BY <3>2 DEF Failures
    <3>4. CASE <<n, s>> = f
      <4>1. f[1] = n
        BY <3>3, <3>4
      <4>2. ledger'[<<n, s>>] = r
        BY <1>3, <3>4
      <4> QED BY <1>5, <2>1, <2>3, <4>1, <4>2
    <3>5. CASE <<n, s>> # f
      BY <1>3, <3>1, <3>3, <3>5
    <3> QED BY <3>4, <3>5
  <2> QED BY <1>1, <2>2, <2>3 DEF AckedVisible
<1> QED BY <1>6, <1>7, <1>8, <1>9, <1>10, <1>11, <1>12 DEF RecordPart, Actors

\* Replays that end, and rows an operator discards.
LEMMA RowSteps ==
  ASSUME RecordPart,
         Resolve \/ NoteReplayFailure \/ \E f \in Failures : Discard(f)
  PROVE  RecordPart'
<1> USE DEF HandlerFrame, tableVars
<1>1. /\ job \in [Actors -> Job \cup {None}] /\ "operator" \in Actors
      /\ ledger \in [Failures -> FailureRow \cup {None}]
  BY DEF RecordPart, StateTypes, Actors
<1>2. CASE Resolve \/ NoteReplayFailure
  <2> DEFINE f == <<job["operator"].n, job["operator"].stage>>
  <2>1. job["operator"] # None /\ Held = f /\ job' = [job EXCEPT !["operator"] = None]
    BY <1>2 DEF Resolve, NoteReplayFailure, At, Held, Drop
  <2>2. f \in Failures /\ Holds(f) /\ ledger[f] # None /\ ledger[f].res = "unresolved"
    BY <1>1, <2>1 DEF RecordPart, OperatorInv, Failures, Job, Holds
  <2>3. ledger[f] \in FailureRow /\ f[1] = job["operator"].n
    BY <1>1, <2>2
  <2>4. /\ UNCHANGED <<world, now, grids, loaded, snapshot, houses, next, stored>>
        /\ UNCHANGED <<cmd, replays>>
    BY <1>2 DEF Resolve, NoteReplayFailure
  <2>5. CASE Resolve
    <3> DEFINE r == [ledger[f] EXCEPT !.res = "replayed"]
    <3>1. ledger' = [ledger EXCEPT ![f] = r]
      BY <1>1, <2>1, <2>2, <2>5 DEF Resolve
    <3>2. r \in FailureRow /\ r.attempts = ledger[f].attempts
      BY <2>3 DEF FailureRow
    <3>3. f[1] \in stored
      BY <1>1, <2>1, <2>3, <2>5 DEF Resolve, At, RecordPart, JobSound
    <3> HIDE DEF r, f
    <3> QED BY <2>1, <2>2, <2>4, <3>1, <3>2, <3>3, RowMoves
  <2>6. CASE NoteReplayFailure
    <3> DEFINE r == [ledger[f] EXCEPT !.reason = "replay", !.attempts = @ + 1]
    <3>1. ledger' = [ledger EXCEPT ![f] = r]
      BY <1>1, <2>1, <2>2, <2>3, <2>6 DEF NoteReplayFailure, FailureRow
    <3>2. r \in FailureRow /\ r.attempts = ledger[f].attempts + 1 /\ r.res = "unresolved"
      <4>1. ledger[f].attempts + 1 \in Nat
        BY <2>3 DEF FailureRow
      <4> QED BY <2>2, <2>3, <4>1 DEF FailureRow
    <3> HIDE DEF r, f
    <3> QED BY <2>1, <2>2, <2>4, <3>1, <3>2, RowMoves
  <2> QED BY <1>2, <2>5, <2>6
<1>3. ASSUME NEW f \in Failures, Discard(f) PROVE RecordPart'
  <2> DEFINE r == [ledger[f] EXCEPT !.res = "discarded"]
  <2>1. ~Holds(f) /\ ledger[f] # None /\ ledger[f].res = "unresolved"
    BY <1>3 DEF Discard, Held, Holds
  <2>2. ledger[f] \in FailureRow
    BY <1>1, <2>1
  <2>3. ledger' = [ledger EXCEPT ![f] = r]
    BY <1>1, <1>3 DEF Discard
  <2>4. r \in FailureRow /\ r.attempts = ledger[f].attempts /\ r.res = "discarded"
    BY <2>2 DEF FailureRow
  <2>5. /\ UNCHANGED <<world, now, grids, loaded, snapshot, houses, next, stored>>
        /\ UNCHANGED <<job, cmd>> /\ replays > 0 /\ replays' = replays - 1
    BY <1>3 DEF Discard
  <2> HIDE DEF r
  <2> QED BY <2>1, <2>3, <2>4, <2>5, RowMoves
<1> QED BY <1>2, <1>3

\* A replay locks an unresolved row; a command ends and its row lock with it.
LEMMA OperatorSteps ==
  ASSUME RecordPart, EndCommand \/ \E f \in Failures : Lock(f)
  PROVE  RecordPart'
<1> USE DEF HandlerFrame, tableVars
<1>1. Offsets' = Offsets /\ Failures' = Failures /\ Job' = Job
  BY DEF Offsets, Failures, Job, EndCommand, Lock
<1>2. /\ job \in [Actors -> Job \cup {None}]
      /\ "worker" \in Actors /\ "operator" \in Actors
      /\ ledger \in [Failures -> FailureRow \cup {None}]
      /\ replays \in Nat /\ world.replays \in Nat /\ MaxTries \in Nat
  BY WorldFacts, IntakeAssumption DEF RecordPart, StateTypes, Actors
<1>3. UNCHANGED <<world, now, grids, loaded, snapshot, houses, next, stored, ledger>>
  BY DEF EndCommand, Lock
<1>4. StoredKnown' /\ AckedVisible'
  BY <1>1, <1>3 DEF RecordPart, StoredKnown, HouseKnown, AckedVisible
<1>5. CASE EndCommand
  <2>1. job' = [job EXCEPT !["operator"] = None] /\ cmd' = {} /\ replays' = replays
    BY <1>5 DEF EndCommand, Drop
  <2>2. job'["operator"] = None /\ job'["worker"] = job["worker"]
        /\ job' \in [Actors -> Job \cup {None}]
    BY <1>2, <2>1
  <2>3. StateTypes'
    BY <1>1, <1>3, <2>1, <2>2 DEF RecordPart, StateTypes, GridsOK, Known
  <2>4. JobSound("worker")' /\ JobSound("operator")' /\ WorkerInv' /\ OperatorInv'
    BY <1>2, <1>3, <2>1, <2>2 DEF RecordPart, JobSound, Record, WorkerInv, OperatorInv
  <2>5. BudgetInv'
    <3>1. \A f \in Failures : ~Holds(f)'
      BY <2>2 DEF Holds
    <3>2. \A f \in Failures : ledger[f] # None => ledger[f].attempts \in Nat
      BY <1>2 DEF FailureRow
    <3> QED BY <1>1, <1>2, <1>3, <2>1, <3>1, <3>2 DEF RecordPart, BudgetInv
  <2> QED BY <1>4, <2>3, <2>4, <2>5 DEF RecordPart, Actors
<1>6. ASSUME NEW f \in Failures, Lock(f) PROVE RecordPart'
  <2> DEFINE j == [at |-> "check", n |-> f[1], tries |-> 1, stage |-> f[2]]
  <2>1. /\ job' = [job EXCEPT !["operator"] = j] /\ cmd' = cmd /\ cmd # {}
        /\ replays > 0 /\ replays' = replays - 1 /\ job["operator"] = None
        /\ ledger[f] # None /\ ledger[f].res = "unresolved"
    BY <1>6 DEF Lock
  <2>2. f[1] \in Offsets /\ f[2] \in Stages /\ f = <<f[1], f[2]>>
    BY DEF Failures
  <2>3. j \in Job /\ j.n = f[1] /\ j.stage = f[2] /\ j.at = "check"
    BY <2>2, IntakeAssumption DEF Job
  <2> HIDE DEF j
  <2>4. job'["operator"] = j /\ job'["worker"] = job["worker"]
        /\ job' \in [Actors -> Job \cup {None}]
    BY <1>2, <2>1, <2>3
  <2>5. StateTypes'
    BY <1>1, <1>2, <1>3, <2>1, <2>4 DEF RecordPart, StateTypes, GridsOK, Known
  <2>6. JobSound("worker")' /\ JobSound("operator")' /\ WorkerInv'
    BY <1>2, <1>3, <2>3, <2>4 DEF RecordPart, JobSound, Record, WorkerInv
  <2>7. OperatorInv'
    BY <1>3, <2>1, <2>2, <2>3, <2>4 DEF RecordPart, OperatorInv
  <2>8. BudgetInv'
    <3>1. \A g \in Failures : ~Holds(g) /\ (Holds(g)' => g = f)
      BY <2>1, <2>2, <2>3, <2>4 DEF Holds
    <3>2. \A g \in Failures : ledger[g] # None => ledger[g].attempts \in Nat
      BY <1>2 DEF FailureRow
    <3>3. BudgetInv /\ replays' \in Nat /\ replays' = replays - 1
      BY <1>2, <2>1 DEF RecordPart
    <3>4. ASSUME NEW g \in Failures, ledger[g] # None
          PROVE  ledger[g].attempts + replays' + (IF Holds(g)' THEN 1 ELSE 0)
                   <= MaxTries + world.replays
      <4>1. ledger[g].attempts + replays <= MaxTries + world.replays
        BY <1>2, <3>1, <3>2, <3>3, <3>4 DEF BudgetInv
      <4> QED BY <1>2, <3>2, <3>3, <3>4, <4>1
    <3> QED BY <1>1, <1>2, <1>3, <3>3, <3>4 DEF BudgetInv
  <2> QED BY <1>4, <2>5, <2>6, <2>7, <2>8 DEF RecordPart, Actors
<1> QED BY <1>5, <1>6

-----------------------------------------------------------------------------
(* register-houses                                                         *)

\* What is to do is a finite set of entries.
LEMMA TodoFacts ==
  ASSUME world \in Scenarios, NEW i \in DOMAIN world.files,
         NEW S \in SUBSET (DOMAIN Entries(i))
  PROVE  /\ IsFiniteSet(S) /\ Cardinality(S) \in Nat
         /\ Cardinality(S) <= Len(Entries(i))
         /\ Cardinality(S) = 0 <=> S = {}
         /\ S \subseteq Nat
<1>1. Len(Entries(i)) \in Nat /\ DOMAIN Entries(i) = 1..Len(Entries(i))
  BY WorldFacts
<1>2. /\ IsFiniteSet(1..Len(Entries(i)))
      /\ Cardinality(1..Len(Entries(i))) = Len(Entries(i))
  BY <1>1, FS_Interval
<1>3. IsFiniteSet(S) /\ Cardinality(S) <= Len(Entries(i))
  BY <1>1, <1>2, FS_Subset
<1>4. Cardinality(S) \in Nat /\ (Cardinality(S) = 0 <=> S = {})
  BY <1>3, FS_CardinalityType, FS_EmptySet
<1> QED BY <1>1, <1>3, <1>4

\* The first entries speak for all: in an accepted file, an entry has the
\* identity of the first entry of its house.
LEMMA FirstsSpeak ==
  ASSUME world \in Scenarios, NEW i \in DOMAIN world.files, FileAccepted(i),
         NEW k \in DOMAIN Entries(i)
  PROVE  \E j \in Firsts(i) : Identity(Entries(i)[j]) = Identity(Entries(i)[k])
<1> DEFINE S == {j \in DOMAIN Entries(i) : Entries(i)[j].house = Entries(i)[k].house}
<1>1. Len(Entries(i)) \in Nat /\ DOMAIN Entries(i) = 1..Len(Entries(i))
  BY WorldFacts
<1>2. S \in SUBSET Nat /\ S # {}
  BY <1>1
<1>3. Min(S) \in S /\ \A y \in S : Min(S) <= y
  BY <1>2, MinFacts
<1> DEFINE m == Min(S)
<1>4. m \in DOMAIN Entries(i) /\ Entries(i)[m].house = Entries(i)[k].house
  BY <1>3
<1>5. ASSUME NEW j \in 1..(m - 1), Entries(i)[j].house = Entries(i)[m].house
      PROVE  FALSE
  <2>1. m \in Nat /\ j \in Nat /\ j < m /\ j \in DOMAIN Entries(i)
    BY <1>1, <1>4
  <2>2. j \in S
    BY <1>4, <1>5, <2>1
  <2> HIDE DEF m, S
  <2>3. m <= j
    BY <1>3, <2>2 DEF m
  <2> QED BY <2>1, <2>3
<1> HIDE DEF m, S
<1>6. m \in Firsts(i)
  BY <1>4, <1>5 DEF Firsts
<1> QED BY <1>4, <1>6 DEF FileAccepted

\* A command that goes on keeps the part about register-houses, if it is sound
\* itself and the houses only grow, by houses of its file.
LEMMA CommandMoves ==
  ASSUME HousePart, NEW i \in DOMAIN reg, NEW c \in Command,
         reg' = [reg EXCEPT ![i] = c], world' = world,
         houses \subseteq houses',
         houses' # houses =>
           /\ FileAccepted(i)
           /\ \E k \in Firsts(i) :
                /\ houses' \subseteq houses \cup {Identity(Entries(i)[k])}
                /\ Entries(i)[k].rated # None => Entries(i)[k].rated >= 0,
         CommandSound(i)'
  PROVE  HousePart'
<1>1. reg \in [DOMAIN world.files -> Command] /\ DOMAIN reg = DOMAIN world.files
  BY DEF HousePart
<1>2. /\ reg' \in [DOMAIN world.files -> Command] /\ DOMAIN reg' = DOMAIN reg
      /\ Command' = Command
  BY <1>1 DEF Command
<1>3. ASSUME NEW j \in DOMAIN reg, j # i PROVE CommandSound(j)'
  <2>1. reg'[j] = reg[j] /\ CommandSound(j)
    BY <1>1, <1>3 DEF HousePart
  <2> QED BY <2>1 DEF CommandSound, Firsts, FileAccepted, Entries
<1>4. ASSUME NEW j \in DOMAIN reg, NEW r PROVE SpeaksFor(j, r)' <=> SpeaksFor(j, r)
  BY DEF SpeaksFor, Entries
<1>5. ASSUME NEW r \in houses' \ world.houses
      PROVE  \E j \in DOMAIN reg : SpeaksFor(j, r)
  <2>1. CASE r \in houses
    BY <2>1 DEF HousePart, OnlySoundFiles
  <2>2. CASE r \notin houses
    <3>1. FileAccepted(i) /\ houses' # houses
      BY <2>2
    <3>2. PICK k \in Firsts(i) :
            /\ houses' \subseteq houses \cup {Identity(Entries(i)[k])}
            /\ Entries(i)[k].rated # None => Entries(i)[k].rated >= 0
      BY <3>1
    <3>3. Identity(Entries(i)[k]) = r /\ Entries(i)[k].house = r.house
      BY <2>2, <3>2 DEF Identity
    <3>4. /\ k \in DOMAIN Entries(i)
          /\ \A m \in 1..(k - 1) : Entries(i)[m].house # r.house
      BY <3>3 DEF Firsts
    <3> QED BY <3>1, <3>2, <3>3, <3>4 DEF FileAccepted, IdentityAccepted,
              ValidateHouseIdentity, SpeaksFor
  <2> QED BY <2>1, <2>2
<1>6. OnlySoundFiles'
  BY <1>2, <1>4, <1>5 DEF OnlySoundFiles
<1> QED BY <1>2, <1>3, <1>6 DEF HousePart

\* The file is validated.
LEMMA ValidateInv ==
  ASSUME HousePart, NEW i \in DOMAIN reg, ValidateFile(i)
  PROVE  HousePart'
<1>1. /\ world \in Scenarios /\ i \in DOMAIN world.files /\ reg[i] \in Command
      /\ reg \in [DOMAIN world.files -> Command] /\ CommandSound(i)
      /\ reg[i].todo = {} /\ reg[i].failed = 0
  BY DEF HousePart, ValidateFile, CommandSound
<1>2. UNCHANGED <<world, houses>> /\ Entries(i)' = Entries(i) /\ Firsts(i)' = Firsts(i)
      /\ FileAccepted(i)' = FileAccepted(i)
  BY DEF ValidateFile, RegFrame, Entries, Firsts, FileAccepted
<1>3. Firsts(i) \in SUBSET (DOMAIN Entries(i))
  BY DEF Firsts
<1>4. CASE \E p \in {"refused", "dry"} : reg' = [reg EXCEPT ![i].at = p]
  <2>1. PICK p \in {"refused", "dry"} : reg' = [reg EXCEPT ![i].at = p]
    BY <1>4
  <2> DEFINE c == [reg[i] EXCEPT !.at = p]
  <2>2. c \in Command /\ c.at = p /\ c.todo = {} /\ c.failed = 0
    BY <1>1 DEF Command
  <2>3. reg' = [reg EXCEPT ![i] = c] /\ reg'[i] = c
    BY <1>1, <2>1
  <2> HIDE DEF c
  <2>4. CommandSound(i)'
    BY <1>1, <1>2, <2>1, <2>2, <2>3 DEF CommandSound
  <2> QED BY <1>2, <2>2, <2>3, <2>4, CommandMoves
<1>5. CASE /\ FileAccepted(i)
           /\ reg' = [reg EXCEPT ![i].at = "write", ![i].todo = Firsts(i)]
  <2> DEFINE c == [reg[i] EXCEPT !.at = "write", !.todo = Firsts(i)]
  <2>1. Cardinality(Firsts(i)) \in Nat /\ Cardinality(Firsts(i)) <= Len(Entries(i))
        /\ Firsts(i) \in SUBSET Nat
    BY <1>1, <1>3, TodoFacts
  <2>2. c \in Command /\ c.at = "write" /\ c.todo = Firsts(i) /\ c.failed = 0
    BY <1>1, <2>1 DEF Command
  <2>3. reg' = [reg EXCEPT ![i] = c] /\ reg'[i] = c
    BY <1>1, <1>5
  <2> HIDE DEF c
  <2>4. CommandSound(i)'
    BY <1>2, <1>5, <2>1, <2>2, <2>3 DEF CommandSound
  <2> QED BY <1>2, <2>2, <2>3, <2>4, CommandMoves
<1> QED BY <1>4, <1>5 DEF ValidateFile, Firsts

\* A house is written, or counted as failed: one entry less to do.
LEMMA WrittenInv ==
  ASSUME HousePart, NEW i \in DOMAIN reg, NEW ok \in BOOLEAN,
         reg[i].at = "write", reg[i].todo # {}, Written(i, ok), world' = world,
         houses' \in {houses, houses \cup {Identity(Entries(i)[Min(reg[i].todo)])}},
         houses' # houses => \/ Entries(i)[Min(reg[i].todo)].rated = None
                             \/ Entries(i)[Min(reg[i].todo)].rated >= 0,
         ok => Identity(Entries(i)[Min(reg[i].todo)]) \in houses'
  PROVE  HousePart'
<1>1. /\ world \in Scenarios /\ i \in DOMAIN world.files /\ reg[i] \in Command
      /\ reg \in [DOMAIN world.files -> Command] /\ CommandSound(i)
      /\ FileAccepted(i)
  BY DEF HousePart, CommandSound
<1>2. Entries(i)' = Entries(i) /\ Firsts(i)' = Firsts(i)
      /\ FileAccepted(i)' = FileAccepted(i)
  BY DEF Entries, Firsts, FileAccepted
<1>3. reg[i].todo \in SUBSET (DOMAIN Entries(i)) /\ Len(Entries(i)) \in Nat
  BY <1>1, WorldFacts DEF CommandSound, Firsts
<1> DEFINE T == reg[i].todo
           m == Min(T)
           n == reg[i].failed + (IF ok THEN 0 ELSE 1)
           c == [reg[i] EXCEPT !.todo = T \ {m}, !.failed = n]
<1>4. m \in T /\ T \in SUBSET Nat
  BY <1>1, <1>3, TodoFacts, MinFacts
<1>5. /\ IsFiniteSet(T) /\ Cardinality(T) \in Nat
      /\ Cardinality(T \ {m}) = Cardinality(T) - 1
  BY <1>1, <1>3, <1>4, TodoFacts, FS_RemoveElement
<1>6. reg[i].failed \in Nat /\ n \in Nat /\ n <= reg[i].failed + 1
      /\ (n = 0 => ok /\ reg[i].failed = 0)
  BY <1>1 DEF Command
<1>7. reg' = [reg EXCEPT ![i] = c]
  BY <1>1 DEF Written, Command
<1>8. reg'[i] = c /\ c \in Command /\ c.at = "write" /\ c.todo = T \ {m} /\ c.failed = n
  BY <1>1, <1>4, <1>6, <1>7 DEF Command
<1>9. CommandSound(i)'
  <2>1. T \ {m} \subseteq Firsts(i) /\ reg[i].failed + Cardinality(T) <= Len(Entries(i))
    BY <1>1 DEF CommandSound
  <2>2. n + Cardinality(T \ {m}) <= Len(Entries(i))
    <3> HIDE DEF n, T, m
    <3> QED BY <1>3, <1>5, <1>6, <2>1
  <2>3. n = 0 => \A k \in Firsts(i) \ (T \ {m}) : Identity(Entries(i)[k]) \in houses'
    BY <1>1, <1>6 DEF CommandSound
  <2> HIDE DEF n, T, m, c
  <2> QED BY <1>1, <1>2, <1>8, <2>1, <2>2, <2>3 DEF CommandSound
<1>10. /\ m \in Firsts(i) /\ houses \subseteq houses'
       /\ houses' \subseteq houses \cup {Identity(Entries(i)[m])}
       /\ houses' # houses => \/ Entries(i)[m].rated = None
                              \/ Entries(i)[m].rated >= 0
  BY <1>1, <1>4 DEF CommandSound
<1> HIDE DEF n, T, m, c
<1> QED BY <1>1, <1>7, <1>8, <1>9, <1>10, CommandMoves

\* RegisterHouse in its three outcomes, and a failing database.
LEMMA RegisterInv ==
  ASSUME HousePart, NEW i \in DOMAIN reg, RegisterHouse(i) \/ RegisterError(i)
  PROVE  HousePart'
<1> DEFINE e == Entries(i)[Min(reg[i].todo)]
<1>1. reg[i].at = "write" /\ reg[i].todo # {} /\ world' = world
  BY DEF RegisterHouse, RegisterError, RegFrame
<1>2. CASE RegisterHouse(i)
  <2>1. PICK ok \in BOOLEAN : ok = (Insertable(e) \/ Unchanged(e))
    OBVIOUS
  <2>2. Written(i, ok)
    BY <1>2, <2>1 DEF RegisterHouse
  <2>3. houses' \in {houses, houses \cup {Identity(e)}}
    BY <1>2 DEF RegisterHouse
  <2>4. ok => Identity(e) \in houses'
    BY <1>2, <2>1 DEF RegisterHouse, Unchanged
  <2>5. houses' # houses => e.rated = None \/ e.rated >= 0
    BY <1>2 DEF RegisterHouse, Insertable
  <2> HIDE DEF e
  <2> QED BY <1>1, <2>2, <2>3, <2>4, <2>5, WrittenInv DEF e
<1>3. CASE RegisterError(i)
  <2>1. Written(i, FALSE) /\ houses' \in {houses, houses \cup {Identity(e)}}
    BY <1>3 DEF RegisterError
  <2>2. houses' # houses => e.rated = None \/ e.rated >= 0
    BY <1>3 DEF RegisterError, Insertable
  <2> HIDE DEF e
  <2> QED BY <1>1, <2>1, <2>2, WrittenInv DEF e
<1> QED BY <1>2, <1>3

\* A cancelled command counts what is left as failed.
LEMMA CancelledInv ==
  ASSUME HousePart, NEW i \in DOMAIN reg, Cancelled(i)
  PROVE  HousePart'
<1>1. /\ world \in Scenarios /\ i \in DOMAIN world.files /\ reg[i] \in Command
      /\ reg \in [DOMAIN world.files -> Command] /\ CommandSound(i)
      /\ reg[i].at = "write" /\ reg[i].todo # {} /\ FileAccepted(i)
  BY DEF HousePart, CommandSound, Cancelled
<1>2. UNCHANGED <<world, houses>> /\ Entries(i)' = Entries(i) /\ Firsts(i)' = Firsts(i)
      /\ FileAccepted(i)' = FileAccepted(i)
  BY DEF Cancelled, RegFrame, Entries, Firsts, FileAccepted
<1> DEFINE n == reg[i].failed + Cardinality(reg[i].todo)
           c == [reg[i] EXCEPT !.todo = {}, !.failed = n]
<1>3. reg[i].todo \in SUBSET (DOMAIN Entries(i)) /\ n <= Len(Entries(i))
  BY <1>1 DEF CommandSound, Firsts
<1>4. reg[i].failed \in Nat /\ Cardinality(reg[i].todo) \in Nat
      /\ Cardinality(reg[i].todo) # 0
  BY <1>1, <1>3, TodoFacts DEF Command
<1>5. n \in Nat /\ n # 0
  BY <1>4
<1>6. reg' = [reg EXCEPT ![i] = c]
  BY <1>1 DEF Cancelled
<1>7. reg'[i] = c /\ c \in Command /\ c.at = "write" /\ c.todo = {} /\ c.failed = n
  BY <1>1, <1>5, <1>6 DEF Command
<1> HIDE DEF c, n
<1>8. n + Cardinality({}) <= Len(Entries(i))
  BY <1>3, <1>5, FS_EmptySet
<1>9. CommandSound(i)'
  BY <1>1, <1>2, <1>5, <1>7, <1>8 DEF CommandSound
<1> QED BY <1>2, <1>6, <1>7, <1>9, CommandMoves

\* A command reports success only if no house failed, and then every house of
\* the file is registered.
LEMMA ReportInv ==
  ASSUME HousePart, NEW i \in DOMAIN reg, Report(i)
  PROVE  HousePart'
<1>1. /\ world \in Scenarios /\ i \in DOMAIN world.files /\ reg[i] \in Command
      /\ reg \in [DOMAIN world.files -> Command] /\ CommandSound(i)
      /\ reg[i].at = "write" /\ reg[i].todo = {} /\ FileAccepted(i)
  BY DEF HousePart, CommandSound, Report
<1>2. UNCHANGED <<world, houses>> /\ Entries(i)' = Entries(i) /\ Firsts(i)' = Firsts(i)
      /\ FileAccepted(i)' = FileAccepted(i)
  BY DEF Report, RegFrame, Entries, Firsts, FileAccepted
<1> DEFINE p == IF reg[i].failed = 0 THEN "ok" ELSE "failed"
           c == [reg[i] EXCEPT !.at = p]
<1>3. reg' = [reg EXCEPT ![i] = c]
  BY <1>1 DEF Report
<1>4. /\ reg'[i] = c /\ c \in Command /\ c.todo = {} /\ c.failed = reg[i].failed
      /\ c.at \in {"ok", "failed"} /\ (c.at = "ok" => reg[i].failed = 0)
  BY <1>1, <1>3 DEF Command
<1>5. ASSUME reg[i].failed = 0, NEW k \in DOMAIN Entries(i)
      PROVE  Identity(Entries(i)[k]) \in houses
  <2>1. PICK j \in Firsts(i) : Identity(Entries(i)[j]) = Identity(Entries(i)[k])
    BY <1>1, FirstsSpeak
  <2> QED BY <1>1, <1>5, <2>1 DEF CommandSound
<1> HIDE DEF c, p
<1>6. CommandSound(i)'
  BY <1>1, <1>2, <1>4, <1>5 DEF CommandSound
<1> QED BY <1>2, <1>3, <1>4, <1>6, CommandMoves

-----------------------------------------------------------------------------
(* The invariant                                                           *)

\* Steps that leave the houses and the commands alone.
LEMMA HouseFrame ==
  ASSUME HousePart, UNCHANGED <<world, houses, reg>>
  PROVE  HousePart'
<1>1. \A i : Entries(i)' = Entries(i)
  BY DEF Entries
<1>2. \A i : Firsts(i)' = Firsts(i) /\ FileAccepted(i)' = FileAccepted(i)
  BY <1>1 DEF Firsts, FileAccepted
<1>3. \A i \in DOMAIN reg : CommandSound(i)'
  <2> TAKE i \in DOMAIN reg
  <2> QED BY <1>1, <1>2 DEF HousePart, CommandSound
<1>4. \A i, r : SpeaksFor(i, r)' = SpeaksFor(i, r)
  <2> TAKE i, r
  <2> QED BY <1>1 DEF SpeaksFor
<1>5. OnlySoundFiles'
  BY <1>4 DEF HousePart, OnlySoundFiles
<1> QED BY <1>3, <1>5 DEF HousePart

\* The steps that are about records are of five kinds.
LEMMA RecordSteps ==
  ASSUME RecordPart,
         \/ Tick \/ Provision \/ Retire \/ LoadGrids \/ Publish
         \/ WorkerStep \/ WorkerStops \/ CommitLost
         \/ ReplayStep \/ StartCommand \/ EndCommand
         \/ \E f \in Failures : Lock(f) \/ Discard(f)
  PROVE  RecordPart' /\ UNCHANGED <<world, houses, reg>>
<1> USE DEF HandlerFrame, tableVars
<1>0. "worker" \in Actors /\ "operator" \in Actors
  BY DEF Actors
<1>1. ASSUME NEW a \in Actors,
             \/ Check(a) \/ Store(a) \/ StoreError(a) \/ CacheError(a)
             \/ a = "operator" /\ Cache(a)
             \/ a = "worker" /\ Panic
      PROVE  RecordPart' /\ UNCHANGED <<world, houses, reg>>
  <2>1. JobMoves(a)
    BY <1>1, HandlerMoves
  <2> QED BY <2>1, JobMovesInv DEF JobMoves
<1>2. CASE \/ Tick \/ Provision \/ Retire \/ LoadGrids \/ Publish \/ StartCommand
  BY <1>2, WorldSteps
     DEF Tick, GridFrame, Provision, Retire, LoadGrids, Publish, StartCommand
<1>3. CASE Deliver \/ Cache("worker") \/ WorkerStops \/ CommitLost
  BY <1>3, WorkerSteps DEF Deliver, Cache, WorkerStops, CommitLost
<1>4. CASE RecordFailure
  BY <1>4, RecordFailureInv DEF RecordFailure
<1>5. CASE Resolve \/ NoteReplayFailure \/ \E f \in Failures : Discard(f)
  BY <1>5, RowSteps DEF Resolve, NoteReplayFailure, Discard
<1>6. CASE EndCommand \/ \E f \in Failures : Lock(f)
  BY <1>6, OperatorSteps DEF EndCommand, Lock
<1>7. CASE WorkerStep
  BY <1>0, <1>1, <1>3, <1>4, <1>7 DEF WorkerStep, HandlerStep
<1>8. CASE ReplayStep
  BY <1>0, <1>1, <1>5, <1>8 DEF ReplayStep, HandlerStep
<1> QED BY <1>2, <1>3, <1>5, <1>6, <1>7, <1>8

\* A scenario starts with nothing in hand, stored, recorded or registered.
LEMMA InitInv == Init => IInv
<1> SUFFICES ASSUME Init PROVE IInv
  OBVIOUS
<1>1. /\ world \in Scenarios /\ Len(world.log) \in Nat
      /\ world.until \in Nat /\ world.replays \in Nat
      /\ \A i \in DOMAIN world.files : Len(Entries(i)) \in Nat
  BY WorldFacts DEF Init
<1>2. StateTypes
  <2>1. GridsOK
    BY <1>1, IntakeAssumption DEF Init, GridsOK, Known
  <2> QED BY <1>1, <2>1 DEF Init, StateTypes, Actors
<1>3. \A a \in Actors : JobSound(a)
  BY DEF Init, JobSound
<1>4. WorkerInv /\ OperatorInv
  BY DEF Init, WorkerInv, OperatorInv, Actors
<1>5. BudgetInv /\ StoredKnown /\ AckedVisible
  BY <1>1 DEF Init, BudgetInv, StoredKnown, AckedVisible
<1>6. HousePart
  <2>1. reg \in [DOMAIN world.files -> Command]
    BY DEF Init, Command
  <2>2. \A i \in DOMAIN reg :
          reg[i].todo = {} /\ reg[i].failed = 0 /\ reg[i].at = "new"
    BY DEF Init
  <2>3. ASSUME NEW i \in DOMAIN reg PROVE CommandSound(i)
    <3>1. Len(Entries(i)) \in Nat
      BY <1>1, <2>1
    <3>2. reg[i].failed + Cardinality(reg[i].todo) <= Len(Entries(i))
      <4>1. Cardinality({}) = 0
        BY FS_EmptySet
      <4>2. Cardinality(reg[i].todo) = 0
        BY <2>2, <4>1
      <4> QED BY <2>2, <3>1, <4>2
    <3> QED BY <2>2, <3>2 DEF CommandSound
  <2>4. OnlySoundFiles
    BY DEF Init, OnlySoundFiles
  <2> QED BY <1>1, <2>1, <2>3, <2>4 DEF HousePart
<1> QED BY <1>2, <1>3, <1>4, <1>5, <1>6 DEF IInv, RecordPart

\* Every step keeps the invariant.
LEMMA NextInv == IInv /\ [Next]_vars => IInv'
<1> SUFFICES ASSUME IInv, [Next]_vars PROVE IInv'
  OBVIOUS
<1>0. RecordPart /\ HousePart
  BY DEF IInv
<1>1. CASE \/ Tick \/ Provision \/ Retire \/ LoadGrids \/ Publish
           \/ WorkerStep \/ WorkerStops \/ CommitLost
           \/ ReplayStep \/ StartCommand \/ EndCommand
           \/ \E f \in Failures : Lock(f) \/ Discard(f)
  BY <1>0, <1>1, RecordSteps, HouseFrame DEF IInv
<1>2. ASSUME NEW i \in DOMAIN reg,
             \/ ValidateFile(i) \/ RegisterHouse(i) \/ RegisterError(i)
             \/ Cancelled(i) \/ Report(i)
      PROVE  IInv'
  <2>1. RegFrame /\ houses \subseteq houses'
        /\ \A r \in houses' \ houses : r.grid \in grids
    <3>1. CASE RegisterHouse(i) \/ RegisterError(i)
      <4> DEFINE e == Entries(i)[Min(reg[i].todo)]
      <4>1. RegFrame /\ houses' \in {houses, houses \cup {Identity(e)}}
        BY <3>1 DEF RegisterHouse, RegisterError
      <4>2. houses' # houses => e.grid \in grids
        BY <3>1 DEF RegisterHouse, RegisterError, Insertable
      <4>3. Identity(e).grid = e.grid
        BY DEF Identity
      <4> HIDE DEF e
      <4> QED BY <4>1, <4>2, <4>3
    <3>2. CASE ValidateFile(i) \/ Cancelled(i) \/ Report(i)
      BY <3>2 DEF ValidateFile, Cancelled, Report
    <3> QED BY <1>2, <3>1, <3>2
  <2>2. RecordPart'
    BY <1>0, <2>1, WorldSteps
  <2>3. HousePart'
    BY <1>0, <1>2, ValidateInv, RegisterInv, CancelledInv, ReportInv
  <2> QED BY <2>2, <2>3 DEF IInv
<1>3. CASE UNCHANGED vars
  <2>1. RegFrame /\ houses \subseteq houses' /\ UNCHANGED <<world, houses, reg>>
    BY <1>3 DEF vars, tableVars, RegFrame
  <2> QED BY <1>0, <2>1, WorldSteps, HouseFrame DEF IInv
<1> QED BY <1>1, <1>2, <1>3 DEF Next

\* What is stored, what is on record and what is registered go together in
\* every state.
THEOREM InductiveInvariant == Spec => []IInv
BY InitInv, NextInv, PTL DEF Spec

\* The gate in front of the tables holds: a record past the checks fits the
\* tables, and a heartbeat that is stored has its house registered and its grid
\* in the table, although grids come and go and the snapshot that admitted it is
\* stale; rows keep to the retry budget.
THEOREM GateSound == Spec => []GateInv
<1>1. ASSUME IInv PROVE GateInv
  <2>1. /\ RecordPart /\ HousePart /\ world \in Scenarios
        /\ job \in [Actors -> Job \cup {None}]
        /\ ledger \in [Failures -> FailureRow \cup {None}]
        /\ replays \in Nat /\ world.replays \in Nat /\ MaxTries \in Nat
    BY <1>1, WorldFacts, IntakeAssumption DEF IInv, RecordPart, StateTypes
  <2>2. ASSUME NEW f \in Failures, ledger[f] # None
        PROVE  /\ ledger[f].res \in {"unresolved", "replayed", "discarded"}
               /\ ledger[f].attempts \in 1..(MaxTries + world.replays)
    <3>1. ledger[f] \in FailureRow
      BY <2>1, <2>2
    <3>2. /\ ledger[f].attempts \in Nat
          /\ ledger[f].res \in {"unresolved", "replayed", "discarded"}
      BY <3>1 DEF FailureRow
    <3>3. /\ ledger[f].attempts >= 1
          /\ ledger[f].attempts + replays + (IF Holds(f) THEN 1 ELSE 0)
               <= MaxTries + world.replays
      BY <2>1, <2>2 DEF RecordPart, BudgetInv
    <3>4. ledger[f].attempts <= MaxTries + world.replays
      BY <2>1, <3>2, <3>3
    <3> QED BY <2>1, <3>2, <3>3, <3>4
  <2>3. \A a \in Actors : job[a] # None =>
          job[a].n \in Offsets /\ job[a].tries \in 1..MaxTries
    BY <2>1 DEF Job
  <2>4. \A i \in DOMAIN reg :
          reg[i].failed + Cardinality(reg[i].todo) <= Len(Entries(i))
    BY <2>1 DEF HousePart, CommandSound
  <2>5. TypeOK
    BY <2>1, <2>2, <2>3, <2>4 DEF RecordPart, StateTypes, GridsOK, Known, TypeOK
  <2>6. AcceptedFits
    BY <2>1 DEF RecordPart, AcceptedFits, At, JobSound
  <2>7. StoredProvisioned
    BY <2>1 DEF RecordPart, StateTypes, GridsOK, Known, StoredKnown, HouseKnown,
                StoredProvisioned
  <2> QED BY <2>5, <2>6, <2>7 DEF GateInv
<1> QED BY <1>1, InductiveInvariant, PTL

\* Nothing disappears between the partition, the tables and the ledger.
THEOREM NothingLost == Spec => []AckedVisible
<1>1. IInv => AckedVisible
  BY DEF IInv, RecordPart
<1> QED BY <1>1, InductiveInvariant, PTL

\* A registered house is what the first entry of its house says, in a file whose
\* identities are all sound, with a rating that is not negative; other houses of
\* that file may have been refused, and the command then does not report success.
\* A success it has reported is true and stays true.
THEOREM RegistrationSound == Spec => []RegistrationInv
<1>1. IInv => RegistrationInv
  BY DEF IInv, HousePart, CommandSound, RegistrationInv, ReportTrue
<1> QED BY <1>1, InductiveInvariant, PTL

-----------------------------------------------------------------------------
(* Grids that are unknown or gone                                          *)

\* A step that goes on with no record in hand: nothing is stored, and a record
\* taken up anew is checked first.
Idle ==
  /\ stored' = stored
  /\ \A a \in Actors :
       job'[a] = job[a] \/ job'[a] = None \/ job'[a].at = "check"

\* What becomes known as a grid comes from the table.
GridsMove == Known' \subseteq Known \cup grids'

\* Steps that leave the grids alone or copy them keep to that.
LEMMA GridsKept ==
  ASSUME loaded' \in {loaded, grids, {}}, snapshot' \in {snapshot, loaded},
         cmd' \in {cmd, grids, {}}
  PROVE  GridsMove
BY DEF GridsMove, Known

\* Every step goes on with a record in hand or is idle, and grids become known
\* through the table only.
LEMMA StepKinds ==
  ASSUME RecordPart, [Next]_vars
  PROVE  /\ world' = world /\ GridsMove
         /\ Idle \/ \E a \in Actors : JobMoves(a)
<1> USE DEF HandlerFrame, tableVars
<1>1. job \in [Actors -> Job \cup {None}] /\ Actors = {"worker", "operator"}
  BY DEF RecordPart, StateTypes, Actors
<1>2. CASE \E a \in Actors :
             \/ Check(a) \/ Store(a) \/ StoreError(a) \/ CacheError(a)
             \/ a = "operator" /\ Cache(a)
             \/ a = "worker" /\ Panic
  <2>1. PICK a \in Actors : JobMoves(a)
    BY <1>2, HandlerMoves
  <2>2. UNCHANGED <<world, loaded, snapshot, cmd>>
    BY <2>1 DEF JobMoves
  <2> QED BY <2>1, <2>2, GridsKept
<1>3. CASE \/ Tick \/ Provision \/ Retire \/ LoadGrids \/ Publish \/ StartCommand
           \/ CommitLost \/ \E f \in Failures : Discard(f)
  <2>1. /\ world' = world /\ stored' = stored
        /\ \A a \in Actors : job'[a] = job[a]
    BY <1>3 DEF Tick, GridFrame, Provision, Retire, LoadGrids, Publish, StartCommand,
                CommitLost, Discard
  <2>2. /\ loaded' \in {loaded, grids, {}} /\ snapshot' \in {snapshot, loaded}
        /\ cmd' \in {cmd, grids, {}}
    BY <1>3 DEF Tick, GridFrame, Provision, Retire, LoadGrids, Publish, StartCommand,
                CommitLost, Discard
  <2> QED BY <2>1, <2>2, GridsKept DEF Idle
<1>4. CASE \E i \in DOMAIN reg :
             \/ ValidateFile(i) \/ RegisterHouse(i) \/ RegisterError(i)
             \/ Cancelled(i) \/ Report(i)
  <2>1. RegFrame
    BY <1>4 DEF ValidateFile, RegisterHouse, RegisterError, Cancelled, Report
  <2> QED BY <2>1, GridsKept DEF RegFrame, Idle
<1>5. ASSUME NEW f \in Failures, Lock(f)
      PROVE  world' = world /\ GridsMove /\ Idle
  <2>1. UNCHANGED <<world, loaded, snapshot, cmd, stored>>
    BY <1>5 DEF Lock
  <2>2. job'["operator"].at = "check" /\ job'["worker"] = job["worker"]
    BY <1>1, <1>5 DEF Lock
  <2> QED BY <1>1, <2>1, <2>2, GridsKept DEF Idle
<1>6. CASE Deliver
  <2>1. UNCHANGED <<world, loaded, snapshot, cmd, stored>>
    BY <1>6 DEF Deliver
  <2>2. job'["worker"].at = "check" /\ job'["operator"] = job["operator"]
    BY <1>1, <1>6 DEF Deliver
  <2> QED BY <1>1, <2>1, <2>2, GridsKept DEF Idle
<1>7. CASE Cache("worker") \/ RecordFailure \/ WorkerStops
  <2>1. Drop("worker") /\ UNCHANGED <<world, loaded, snapshot, cmd, stored>>
    BY <1>7 DEF Cache, RecordFailure, WorkerStops
  <2> QED BY <1>1, <2>1, GridsKept DEF Drop, Idle
<1>8. CASE Resolve \/ NoteReplayFailure \/ EndCommand
  <2>1. Drop("operator") /\ UNCHANGED <<world, loaded, snapshot, stored>>
        /\ cmd' \in {cmd, {}}
    BY <1>8 DEF Resolve, NoteReplayFailure, EndCommand
  <2> QED BY <1>1, <2>1, GridsKept DEF Drop, Idle
<1>9. CASE UNCHANGED vars
  BY <1>9, GridsKept DEF vars, Idle
<1> QED
  BY <1>1, <1>2, <1>3, <1>4, <1>5, <1>6, <1>7, <1>8, <1>9
     DEF Next, WorkerStep, ReplayStep, HandlerStep

\* Admission lags behind the table only by what was read before: a record whose
\* grid the table and every copy of it lack is not stored, by no redelivery and
\* no replay, until the table has the grid.
THEOREM UnknownOut == Spec => UnknownStaysOut
<1>1. ASSUME IInv, [Next]_vars, NEW n \in Offsets,
             Unknown(n), n \notin stored, world.log[n].body.grid \notin grids'
      PROVE  (Unknown(n) /\ n \notin stored)'
  <2>1. RecordPart /\ job \in [Actors -> Job \cup {None}]
    BY <1>1 DEF IInv, RecordPart, StateTypes
  <2>2. /\ world' = world /\ GridsMove
        /\ Idle \/ \E a \in Actors : JobMoves(a)
    BY <1>1, <2>1, StepKinds
  <2> DEFINE g == world.log[n].body.grid
             Busy(c) == c \in {"store", "cache", "resolve"}
  <2>3. g \notin Known
        /\ \A a \in Actors : job[a] # None /\ job[a].n = n => ~Busy(job[a].at)
    BY <1>1 DEF Unknown
  <2>4. g \notin Known'
    BY <1>1, <2>2, <2>3 DEF GridsMove
  <2>5. SUFFICES n \notin stored' /\ \A a \in Actors :
                   job'[a] # None /\ job'[a].n = n => ~Busy(job'[a].at)
    BY <1>1, <2>2, <2>4 DEF Unknown
  <2> HIDE DEF g
  <2>6. CASE Idle
    BY <1>1, <2>3, <2>6 DEF Idle
  <2>7. ASSUME NEW a \in Actors, JobMoves(a)
        PROVE  n \notin stored' /\ \A b \in Actors :
                 job'[b] # None /\ job'[b].n = n => ~Busy(job'[b].at)
    <3>1. PICK j \in Job :
            /\ job' = [job EXCEPT ![a] = j]
            /\ j.n = job[a].n
            /\ j.at = "store" =>
                 job[a].at = "check" /\ Decodes(Record(a), now) /\ Lookup(a)
            /\ j.at = "cache" => job[a].at = "store" /\ j.n \in stored'
            /\ j.at = "resolve" => job[a].at = "cache"
      BY <2>7 DEF JobMoves
    <3>2. job'[a] = j /\ \A b \in Actors : b # a => job'[b] = job[b]
      BY <2>1, <3>1
    <3>3. job[a] # None
      BY <2>7 DEF JobMoves
    <3>4. n \notin stored'
      BY <1>1, <2>3, <2>7 DEF JobMoves
    <3>5. j.n = n => ~Lookup(a)
      BY <2>3, <3>1 DEF Lookup, Admitted, Record, Known, g
    <3>6. j.n = n => ~Busy(j.at)
      BY <2>3, <3>1, <3>3, <3>5
    <3> QED BY <2>3, <3>2, <3>4, <3>6
  <2> QED BY <2>2, <2>6, <2>7
<1>2. IInv /\ [Next]_vars =>
        [\A n \in Offsets :
           Unknown(n) /\ n \notin stored /\ world.log[n].body.grid \notin grids'
           => (Unknown(n) /\ n \notin stored)']_vars
  BY <1>1
<1> QED BY <1>2, InductiveInvariant, PTL DEF Spec, UnknownStaysOut
=============================================================================
