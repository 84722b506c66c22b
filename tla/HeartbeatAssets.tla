-------------------------- MODULE HeartbeatAssets --------------------------
(***************************************************************************)
(* Store.ApplyHeartbeat: the transaction that touches the row of a house   *)
(* and reconciles the assets a heartbeat lists with flexible_assets (the   *)
(* registry, which no code of this service inserts into) and               *)
(* discovered_assets (observations).  Several transactions run at the same *)
(* time: heartbeats of houses on different partitions, a replay beside a   *)
(* live record, a worker that was abandoned.                               *)
(*                                                                         *)
(* Postgres at READ COMMITTED is external: a statement sees the rows that  *)
(* were committed when it started, FOR UPDATE and UPDATE wait for the      *)
(* transaction that holds the row, an INSERT waits for an uncommitted one  *)
(* of the same key, a cycle of waiting transactions is broken by aborting  *)
(* one, and the writes of a transaction become visible at its commit.      *)
(* Only heartbeats whose house is registered with their grid and meter are *)
(* modelled; HeartbeatLiveness has the others.                             *)
(***************************************************************************)
EXTENDS Naturals, Sequences, FiniteSets

CONSTANTS
  Houses,      \* registered houses
  Assets,      \* asset IDs
  Registrations, \* [id, row]: what the registry may be given for an asset
  Payloads,    \* FlexibleAssets of a heartbeat: sequences of asset entries
  Handlers,    \* goroutines that may run ApplyHeartbeat at the same time
  None,
  MaxTries,    \* RetryPolicy.MaxTries
  MaxBeats,    \* bound on the heartbeats delivered in one behaviour
  MaxFaults    \* bound on environment faults in one behaviour

Types == {"bess", "ev"}
Caps  == [kw : Nat, v2g : {"null", "false", "true"}]
Row   == [house : Houses, type : Types, caps : Caps, seen : Nat]

ASSUME AssetsAssumption ==
  /\ IsFiniteSet(Handlers) /\ IsFiniteSet(Assets)
  /\ None \notin Handlers \cup Row
  /\ MaxTries \in 1..10
  /\ MaxBeats \in Nat
  /\ MaxFaults \in Nat
  /\ \A r \in Registrations : r.id \in Assets /\ r.row \in Row
  \* checkDuplicateAssetIDs runs before ApplyHeartbeat.
  /\ \A p \in Payloads :
       /\ p \in Seq([id : Assets, type : Types, caps : Caps])
       /\ \A i, j \in DOMAIN p : p[i].id = p[j].id => i = j

VARIABLES
  clock,     \* attempts so far: the receivedAt of the latest one
  store,     \* committed asset rows: [Keys -> row or None]
  lastBeat,  \* committed last_heartbeat_at of each house, 0 when NULL
  holder,    \* [Locks -> the transaction that has locked or inserted it]
  tx,        \* the transaction of each handler, or None
  done,      \* history: the heartbeats whose transaction committed
  latest,    \* history: capabilities in the last committed report on a row
  refused,   \* history: heartbeats that failed with ErrIntegrityConflict
  beats,     \* heartbeats left to deliver
  faults     \* environment faults left

dbVars   == <<store, lastBeat, holder>>
histVars == <<done, latest, refused>>
vars == <<clock, dbVars, tx, histVars, beats, faults>>

\* Rows of the two tables, and everything a transaction can lock.
Tables == {"registered", "discovered"}
Keys   == Tables \X Assets
Locks  == Keys \cup ({"house"} \X Houses)

Entry(n) == tx[n].assets[tx[n].next]
Reg(a)   == <<"registered", a>>
Disc(a)  == <<"discovered", a>>

Fault == faults > 0 /\ faults' = faults - 1

Later(a, b) == IF a >= b THEN a ELSE b

\* The function f with value v at x, inside its domain or outside.
Put(f, x, v) == [y \in DOMAIN f \cup {x} |-> IF y = x THEN v ELSE f[y]]

Nothing == [k \in {} |-> None]

\* One heartbeat was applied before, to empty tables.
Init ==
  /\ clock = 1
  /\ \E h \in Houses, p \in Payloads :
       /\ done = {[house |-> h, assets |-> p, recv |-> 1]}
       /\ lastBeat = [g \in Houses |-> IF g = h THEN 1 ELSE 0]
       /\ store = [k \in Keys |->
            IF \E i \in DOMAIN p : k = Disc(p[i].id)
            THEN LET i == CHOOSE i \in DOMAIN p : k = Disc(p[i].id) IN
                 [house |-> h, type |-> p[i].type, caps |-> p[i].caps, seen |-> 1]
            ELSE None]
  /\ latest = [k \in Keys |-> IF store[k] = None THEN None ELSE store[k].caps]
  /\ holder = [l \in Locks |-> None]
  /\ tx = [n \in Handlers |-> None]
  /\ refused = {}
  /\ beats = MaxBeats
  /\ faults = MaxFaults

-----------------------------------------------------------------------------
(* Locks                                                                   *)

At(n, c) == tx[n] # None /\ tx[n].at = c

\* The row the entry is compared with: the registration before the observation.
KnownAs(n) ==
  IF Reg(Entry(n).id) \in DOMAIN tx[n].found
  THEN Reg(Entry(n).id) ELSE Disc(Entry(n).id)

Known(n) == KnownAs(n) \in DOMAIN tx[n].found

\* An entry neither registered nor observed when it was looked for.
Inserts(n) == At(n, "apply") /\ ~Known(n)

\* What the statement n is executing needs next, or None.  An INSERT of a key
\* that is already committed waits for nobody.
Wants(n) ==
  CASE At(n, "house") -> <<"house", tx[n].house>>
    [] At(n, "lock") -> Head(tx[n].todo)
    [] Inserts(n) ->
         IF store[Disc(Entry(n).id)] = None THEN Disc(Entry(n).id) ELSE None
    [] OTHER -> None

Blocked(n) == Wants(n) # None /\ holder[Wants(n)] \notin {None, n}

Granted(n) == Wants(n) # None /\ ~Blocked(n)

Acquire(n) == holder' = [holder EXCEPT ![Wants(n)] = n]

\* n waits for itself through others that wait.
InCycle(n) ==
  \E S \in SUBSET Handlers :
    /\ n \in S
    /\ \A m \in S : Blocked(m) /\ holder[Wants(m)] \in S
    /\ \A m \in S : \E k \in S : holder[Wants(k)] = m

ReleaseAll(n) ==
  holder' = [l \in Locks |-> IF holder[l] = n THEN None ELSE holder[l]]

-----------------------------------------------------------------------------
(* HandleRecord: an attempt, its end, and the retry                        *)

\* ApplyHeartbeat begins with the receivedAt of this attempt.
Attempt(n, h, p, tries) ==
  /\ clock' = clock + 1
  /\ tx' = [tx EXCEPT ![n] =
       [at |-> "house", house |-> h, assets |-> p, recv |-> clock + 1,
        tries |-> tries, table |-> "registered", todo |-> <<>>,
        found |-> Nothing, next |-> 1, writes |-> Nothing]]

Deliver(n) ==
  /\ tx[n] = None
  /\ beats > 0
  /\ beats' = beats - 1
  /\ \E h \in Houses, p \in Payloads : Attempt(n, h, p, 1)
  /\ UNCHANGED <<dbVars, histVars, faults>>

\* The handler returned: the record is finished, or its failure is recorded.
Return(n) == tx' = [tx EXCEPT ![n] = None] /\ UNCHANGED clock

\* An infrastructure error is retried while the budget lasts.
Retry(n) ==
  IF tx[n].tries < MaxTries
  THEN Attempt(n, tx[n].house, tx[n].assets, tx[n].tries + 1)
  ELSE Return(n)

\* Mutant of Rollback: the connection goes back to the pool with its
\* transaction still open.
BugLeaveOpen(n) == UNCHANGED dbVars

\* BeginFunc rolls back on any error: the writes are dropped.
Rollback(n) == ReleaseAll(n) /\ UNCHANGED <<store, lastBeat>>

Goto(n, c) == tx' = [tx EXCEPT ![n].at = c]

StepFrame == UNCHANGED <<clock, store, lastBeat, histVars, beats, faults>>

-----------------------------------------------------------------------------
(* applyHouse and applyAssets                                              *)

\* touchHouseSQL locks the row; a heartbeat without assets is then complete.
TouchHouse(n) ==
  /\ At(n, "house")
  /\ Granted(n)
  /\ Acquire(n)
  /\ Goto(n, IF tx[n].assets = <<>> THEN "commit" ELSE "select")
  /\ StepFrame

\* The IDs loadAssets asks for: all of them in the registry, then those
\* without a registration in the observations.
Asked(n) ==
  {tx[n].table} \X
    {e.id : e \in {tx[n].assets[i] : i \in DOMAIN tx[n].assets}}
  \ {Disc(k[2]) : k \in DOMAIN tx[n].found}

\* Both statements ran, or there is no unknown ID for the second.
Loaded(n, table, found) ==
  \/ table = "discovered"
  \/ \A i \in DOMAIN tx[n].assets : Reg(tx[n].assets[i].id) \in DOMAIN found

\* What follows when the statement has locked all its rows.
AfterLoad(n, found) ==
  IF Loaded(n, tx[n].table, found)
  THEN [tx[n] EXCEPT !.at = "apply", !.found = found, !.todo = <<>>]
  ELSE [tx[n] EXCEPT !.at = "select", !.table = "discovered",
                     !.found = found, !.todo = <<>>]

\* Every order in which the scan may visit the rows S.
Scans(S) == {s \in [1..Cardinality(S) -> S] : {s[i] : i \in DOMAIN s} = S}

\* loadAssets: SELECT ... FOR UPDATE starts, with the rows committed by now.
SelectAssets(n) ==
  /\ At(n, "select")
  /\ LET visible == {k \in Asked(n) : store[k] # None} IN
       IF visible = {}
       THEN tx' = [tx EXCEPT ![n] = AfterLoad(n, tx[n].found)]
       ELSE \E s \in Scans(visible) :
              tx' = [tx EXCEPT ![n].at = "lock", ![n].todo = s]
  /\ StepFrame
  /\ UNCHANGED holder

\* The next row of the scan is locked and its current version returned; the
\* reload of observeNewAsset asks for one row and goes back to its entry.
LockRow(n) ==
  /\ At(n, "lock")
  /\ Granted(n)
  /\ Acquire(n)
  /\ LET k == Head(tx[n].todo)
         found == Put(tx[n].found, k, store[k]) IN
       tx' = [tx EXCEPT ![n] =
                IF Len(tx[n].todo) > 1
                THEN [tx[n] EXCEPT !.todo = Tail(tx[n].todo), !.found = found]
                ELSE AfterLoad(n, found)]
  /\ StepFrame

\* Mutant of CompareAsset: the optional v2g_capable is not compared.
BugIgnoreV2G(row, entry, h) ==
  IF row.house # h \/ row.type # entry.type THEN "conflict"
  ELSE IF row.caps.kw # entry.caps.kw THEN "changed" ELSE "unchanged"

\* Mutant of CompareAsset: changed capabilities count as a conflict.
BugStrict(row, entry, h) ==
  IF row.house # h \/ row.type # entry.type \/ row.caps # entry.caps
  THEN "conflict" ELSE "unchanged"

\* compareAsset: house and type are identity, the rest are capabilities.
CompareAsset(row, entry, h) ==
  IF row.house # h \/ row.type # entry.type THEN "conflict"
  ELSE IF row.caps # entry.caps THEN "changed" ELSE "unchanged"

\* The entry is dealt with: the loop goes on, or the transaction commits.
NextEntry(n, writes) ==
  tx' = [tx EXCEPT ![n].next = @ + 1, ![n].writes = writes,
                   ![n].at = IF tx[n].next = Len(tx[n].assets)
                             THEN "commit" ELSE "apply"]

Verdict(n) == CompareAsset(tx[n].found[KnownAs(n)], Entry(n), tx[n].house)

\* applyKnownAsset: changed capabilities are written, and nothing else is.
ApplyKnown(n) ==
  /\ At(n, "apply")
  /\ Known(n)
  /\ LET row == tx[n].found[KnownAs(n)] IN
       \/ /\ Verdict(n) = "changed"
          /\ NextEntry(n, Put(tx[n].writes, KnownAs(n),
                              [row EXCEPT !.caps = Entry(n).caps,
                                          !.seen = Later(@, tx[n].recv)]))
       \/ /\ Verdict(n) = "unchanged"
          /\ NextEntry(n, tx[n].writes)
  /\ StepFrame
  /\ UNCHANGED holder

\* An identity conflict is permanent: everything is rolled back.
Conflict(n) ==
  /\ At(n, "apply")
  /\ Known(n)
  /\ Verdict(n) = "conflict"
  /\ Rollback(n)
  /\ Return(n)
  /\ refused' = refused \cup {[house |-> tx[n].house, entry |-> Entry(n)]}
  /\ UNCHANGED <<done, latest, beats, faults>>

\* observeNewAsset: INSERT ... ON CONFLICT DO NOTHING took effect.
Observe(n) ==
  /\ Inserts(n)
  /\ Granted(n)
  /\ Acquire(n)
  /\ NextEntry(n, Put(tx[n].writes, Disc(Entry(n).id),
                      [house |-> tx[n].house, type |-> Entry(n).type,
                       caps |-> Entry(n).caps, seen |-> tx[n].recv]))
  /\ StepFrame

\* Mutant of ObserveLost: the row someone else inserted is taken as success.
BugTrustInsert(n) ==
  /\ Inserts(n)
  /\ store[Disc(Entry(n).id)] # None
  /\ NextEntry(n, tx[n].writes)
  /\ StepFrame
  /\ UNCHANGED holder

\* Another transaction recorded the asset after our read: load it and compare.
ObserveLost(n) ==
  /\ Inserts(n)
  /\ store[Disc(Entry(n).id)] # None
  /\ tx' = [tx EXCEPT ![n].at = "lock", ![n].todo = <<Disc(Entry(n).id)>>]
  /\ StepFrame
  /\ UNCHANGED holder

-----------------------------------------------------------------------------
(* The end of the transaction                                              *)

\* The row an entry of n was compared with, or inserted as.
Reported(n, i) ==
  IF Reg(tx[n].assets[i].id) \in DOMAIN tx[n].found
  THEN Reg(tx[n].assets[i].id) ELSE Disc(tx[n].assets[i].id)

\* The writes of n become visible, last_heartbeat_at with GREATEST.
Visible(n) ==
  /\ store' = [k \in Keys |-> IF k \in DOMAIN tx[n].writes
                              THEN tx[n].writes[k] ELSE store[k]]
  /\ lastBeat' = [lastBeat EXCEPT ![tx[n].house] = Later(@, tx[n].recv)]

Committed(n) ==
  /\ At(n, "commit")
  /\ Visible(n)
  /\ ReleaseAll(n)
  /\ done' = done \cup {[house |-> tx[n].house, assets |-> tx[n].assets,
                         recv |-> tx[n].recv]}
  /\ latest' = [k \in Keys |->
       IF \E i \in DOMAIN tx[n].assets : Reported(n, i) = k
       THEN tx[n].assets[CHOOSE i \in DOMAIN tx[n].assets :
                           Reported(n, i) = k].caps
       ELSE latest[k]]
  /\ UNCHANGED <<refused, beats>>

Commit(n) == Committed(n) /\ Return(n) /\ UNCHANGED faults

\* The answer to COMMIT is lost: applied, and tried again.
CommitUnknown(n) == Committed(n) /\ Retry(n) /\ Fault

\* Postgres aborts a transaction of a cycle: an infrastructure error.
DeadlockDetected(n) ==
  /\ InCycle(n)
  /\ Rollback(n)
  /\ Retry(n)
  /\ UNCHANGED <<histVars, beats, faults>>

\* A lost connection, a statement timeout.
DatabaseError(n) ==
  /\ tx[n] # None
  /\ Fault
  /\ Rollback(n)
  /\ Retry(n)
  /\ UNCHANGED <<histVars, beats>>

\* A stop, or the end of the process: the transaction is gone.
Interrupted(n) ==
  /\ tx[n] # None
  /\ Fault
  /\ Rollback(n)
  /\ Return(n)
  /\ UNCHANGED <<histVars, beats>>

\* External: someone registers an asset.
RegisterAsset(r) ==
  /\ store[Reg(r.id)] = None
  /\ Fault
  /\ store' = [store EXCEPT ![Reg(r.id)] = r.row]
  /\ UNCHANGED <<clock, lastBeat, holder, tx, histVars, beats>>

\* Postgres answers.
Statement(n) ==
  \/ TouchHouse(n) \/ SelectAssets(n) \/ LockRow(n) \/ ApplyKnown(n)
  \/ Conflict(n) \/ Observe(n) \/ ObserveLost(n) \/ Commit(n)
  \/ DeadlockDetected(n)

Next ==
  \/ \E n \in Handlers :
       \/ Deliver(n) \/ Statement(n) \/ CommitUnknown(n) \/ DatabaseError(n)
       \/ Interrupted(n)
  \/ \E r \in Registrations : RegisterAsset(r)

Spec == Init /\ [][Next]_vars

\* A statement is executed and answered when the locks it needs are free;
\* the deadlock detector runs.  Nothing forces a heartbeat or a fault.
FairSpec == Spec /\ \A n \in Handlers : WF_vars(Statement(n))

-----------------------------------------------------------------------------
(* Properties                                                              *)

\* The state components keep their types; a transaction that is past the house
\* row holds it, and every row it has read and every row it will write.
TypeOK ==
  /\ clock \in 1..(1 + MaxBeats * MaxTries)
  /\ store \in [Keys -> Row \cup {None}]
  /\ lastBeat \in [Houses -> 0..clock]
  /\ holder \in [Locks -> Handlers \cup {None}]
  /\ latest \in [Keys -> Caps \cup {None}]
  /\ beats \in 0..MaxBeats
  /\ faults \in 0..MaxFaults
  /\ \A n \in Handlers : tx[n] # None =>
       /\ tx[n].tries \in 1..MaxTries
       /\ tx[n].at # "house" => holder[<<"house", tx[n].house>>] = n
       /\ \A k \in DOMAIN tx[n].found \cup DOMAIN tx[n].writes : holder[k] = n

\* All or nothing, and nothing twice: the liveness of a house is exactly the
\* latest receivedAt of its committed heartbeats, every asset such a heartbeat
\* listed is known under its house with its type, and every observation was
\* made by a committed heartbeat.  A rollback (conflict, deadlock, error) in
\* the middle of the asset loop leaves no trace, whatever ran beside it.
AppliedWhole ==
  /\ \A h \in Houses :
       LET times == {d.recv : d \in {d \in done : d.house = h}} IN
       /\ times = {} => lastBeat[h] = 0
       /\ times # {} => lastBeat[h] \in times /\ \A t \in times : t <= lastBeat[h]
  /\ \A d \in done : \A i \in DOMAIN d.assets : \E table \in Tables :
       LET row == store[<<table, d.assets[i].id>>] IN
       row # None /\ row.house = d.house /\ row.type = d.assets[i].type
  /\ \A a \in Assets : store[Disc(a)] # None =>
       \E d \in done : \E i \in DOMAIN d.assets :
         /\ d.assets[i].id = a
         /\ d.house = store[Disc(a)].house
         /\ d.assets[i].type = store[Disc(a)].type

\* The state is well typed, the locks cover what a transaction has read and
\* will write, and heartbeats are applied whole.
AppliedInv == TypeOK /\ AppliedWhole

\* The stored capabilities of a row are those of the last committed heartbeat
\* that reported on it, although they are written only when they changed: no
\* decision "unchanged" is taken on a version that is replaced before commit.
CapabilitiesCurrent ==
  \A k \in Keys : latest[k] # None => store[k].caps = latest[k]

\* A heartbeat is refused as an integrity conflict, which is permanent, only
\* when a committed row gives the asset another house or type: never because
\* of a row whose transaction was rolled back or of changed capabilities.
ConflictIsReal ==
  \A r \in refused : \E table \in Tables :
    LET row == store[<<table, r.entry.id>>] IN
    row # None /\ (row.house # r.house \/ row.type # r.entry.type)

\* Everyone waiting on everyone ends: with Postgres answering and breaking
\* cycles, every ApplyHeartbeat returns, however the rows it needs are locked.
EveryHeartbeatEnds ==
  \A n \in Handlers : tx[n] # None ~> tx[n] = None
=============================================================================
