------------------------- MODULE HeartbeatLiveness -------------------------
(***************************************************************************)
(* The liveness of houses: HeartbeatHandler.HandleRecord touches the       *)
(* house row in Postgres and then writes the status key in Redis, which    *)
(* expires; the query side shows a house online exactly while the key      *)
(* exists.  Houses are registered by register-houses only.  Redis may lose *)
(* its data and redis-rebuild restores memberships and status keys.        *)
(*                                                                         *)
(* Time is a clock in fractions of a second: Postgres keeps microseconds,  *)
(* Redis is given whole seconds.  A heartbeat names a house and an         *)
(* identity (grid and meter); it carries no time of its own: receivedAt is *)
(* the clock when an attempt starts.                                       *)
(***************************************************************************)
EXTENDS Integers, FiniteSets

CONSTANTS
  Houses,
  Identities,   \* pairs of a grid and a meter
  Handlers,     \* goroutines that may run the handler at the same time
  None,
  Second,       \* ticks of the clock in a second
  HeartbeatTTL, \* ticks a status key lives
  MaxTime,      \* bound on the clock
  Required,     \* REDIS_ACK_POLICY=required (else async-repair)
  MaxTries,     \* RetryPolicy.MaxTries
  MaxFaults,    \* bound on environment faults in one behaviour
  MaxRebuilds   \* bound on runs of redis-rebuild

\* The Redis status value, a row of the houses table, what a handler and
\* redis-rebuild are doing.
Times  == 0..MaxTime
Status == [at : Times, ends : Int]
HouseRow == [house : Houses, id : Identities, beat : Times]
Job == [at : {"touch", "explain", "cache"}, house : Houses, id : Identities,
        recv : Times, tries : 1..MaxTries]
Rebuild == [at : {"idle"}] \cup [at : {"read"}, now : Times]
             \cup [at : {"write"}, now : Times, rows : SUBSET HouseRow]

\* An unregistered house, a missing key and no job are "none".
ASSUME LivenessAssumption ==
  /\ Second \in Nat \ {0}
  /\ HeartbeatTTL \in Nat \ {0} /\ HeartbeatTTL % Second = 0
  /\ MaxTime \in Nat \ {0}
  /\ Required \in BOOLEAN
  /\ MaxTries \in 1..10
  /\ MaxFaults \in Nat
  /\ MaxRebuilds \in Nat
  /\ None \notin Identities \cup Status \cup Job

VARIABLES
  clock,
  reg,       \* iot_data.houses: the identity of a registered house, or None
  lastBeat,  \* last_heartbeat_at, 0 when NULL
  status,    \* house:{id}:status in Redis: None or [at, ends]
  members,   \* grid:{grid}:houses in Redis: pairs <<house, identity>>
  job,       \* what each handler is doing, or None
  shown,     \* latest receivedAt whose status Redis accepted and kept
  rb,        \* redis-rebuild: what it is doing
  page,      \* the house rows it has read, if Redis kept its data since
  rebuilds,  \* runs of redis-rebuild left
  faults     \* environment faults left

redisVars == <<status, members, shown>>
pgVars    == <<reg, lastBeat>>
rbVars    == <<rb, page, rebuilds>>
vars == <<clock, pgVars, redisVars, job, rbVars, faults>>

Fault == faults > 0 /\ faults' = faults - 1

Later(a, b) == IF a >= b THEN a ELSE b

Init ==
  /\ clock = 1
  /\ reg = [h \in Houses |-> None]
  /\ lastBeat = [h \in Houses |-> 0]
  /\ status = [h \in Houses |-> None]
  /\ members = {}
  /\ job = [n \in Handlers |-> None]
  /\ shown = [h \in Houses |-> 0]
  /\ rb = [at |-> "idle"]
  /\ page = {}
  /\ rebuilds = MaxRebuilds
  /\ faults = MaxFaults

-----------------------------------------------------------------------------
(* Time and Redis expiry                                                   *)

Tick ==
  /\ clock < MaxTime
  /\ clock' = clock + 1
  /\ status' = [h \in Houses |->
                  IF status[h] = None THEN None
                  ELSE IF status[h].ends <= clock + 1 THEN None ELSE status[h]]
  /\ UNCHANGED <<pgVars, members, shown, job, rbVars, faults>>

\* int(ttl.Seconds()) and time.RFC3339 cut to whole seconds.
WholeSeconds(t) == t - (t % Second)

\* update_heartbeat.lua: HSET and EXPIRE, whatever the key held before, and
\* SADD.
UpdateHeartbeat(h, id, at, ttl) ==
  /\ status' = [status EXCEPT ![h] = [at   |-> WholeSeconds(at),
                                      ends |-> clock + WholeSeconds(ttl)]]
  /\ members' = members \cup {<<h, id>>}

RedisLoss ==
  /\ Fault
  /\ status' = [h \in Houses |-> None]
  /\ members' = {}
  /\ shown' = [h \in Houses |-> 0]
  /\ page' = {}
  /\ UNCHANGED <<clock, pgVars, job, rb, rebuilds>>

-----------------------------------------------------------------------------
(* register-houses                                                         *)

\* RegisterHouse: an existing row is never changed, and a meter belongs to
\* one house.
RegisterHouse(h, id) ==
  /\ reg[h] = None
  /\ \A g \in Houses : reg[g] # id
  /\ reg' = [reg EXCEPT ![h] = id]
  /\ UNCHANGED <<clock, lastBeat, redisVars, job, rbVars, faults>>

-----------------------------------------------------------------------------
(* HeartbeatHandler.HandleRecord under retryHandle                         *)

At(n, c)  == job[n] # None /\ job[n].at = c
Go(n, c)  == job' = [job EXCEPT ![n].at = c]

\* The handler returned nil or failed for good: the record is finished.
Return(n) == job' = [job EXCEPT ![n] = None]

HandlerFrame == UNCHANGED <<clock, reg, rbVars>>

\* Mutant of Deliver: the cache is written before the database.
BugCacheFirst(n) ==
  /\ job[n] = None
  /\ \E h \in Houses, id \in Identities :
       job' = [job EXCEPT ![n] = [at |-> "cache", house |-> h, id |-> id,
                                  recv |-> clock, tries |-> 1]]
  /\ HandlerFrame
  /\ UNCHANGED <<lastBeat, redisVars, faults>>

\* An admitted heartbeat, live, redelivered or replayed from the failures.
Deliver(n) ==
  /\ job[n] = None
  /\ \E h \in Houses, id \in Identities :
       job' = [job EXCEPT ![n] = [at |-> "touch", house |-> h, id |-> id,
                                  recv |-> clock, tries |-> 1]]
  /\ HandlerFrame
  /\ UNCHANGED <<lastBeat, redisVars, faults>>

\* A transient error: the handler runs again, with a new receivedAt, while
\* the budget lasts.
Retry(n) ==
  IF job[n].tries < MaxTries
  THEN job' = [job EXCEPT ![n].at = "touch", ![n].recv = clock,
                          ![n].tries = job[n].tries + 1]
  ELSE Return(n)

\* touchHouseSQL: only a row with the same grid and meter, never backwards.
TouchHouse(n) ==
  /\ reg[job[n].house] = job[n].id
  /\ lastBeat' = [lastBeat EXCEPT
                    ![job[n].house] = Later(lastBeat[job[n].house], job[n].recv)]

\* ApplyHeartbeat commits.
Apply(n) ==
  /\ At(n, "touch")
  /\ TouchHouse(n)
  /\ Go(n, "cache")
  /\ HandlerFrame
  /\ UNCHANGED <<redisVars, faults>>

\* touchHouseSQL matched nothing ...
TouchMisses(n) ==
  /\ At(n, "touch")
  /\ reg[job[n].house] # job[n].id
  /\ Go(n, "explain")
  /\ HandlerFrame
  /\ UNCHANGED <<lastBeat, redisVars, faults>>

\* ... and explainHouseMismatch says why: permanent, unless the house was
\* registered between the two statements.
ExplainMismatch(n) ==
  /\ At(n, "explain")
  /\ IF reg[job[n].house] = job[n].id THEN Retry(n) ELSE Return(n)
  /\ HandlerFrame
  /\ UNCHANGED <<lastBeat, redisVars, faults>>

\* An asset conflict rolls the transaction back: permanent.
AssetConflict(n) ==
  /\ At(n, "touch")
  /\ reg[job[n].house] = job[n].id
  /\ Fault
  /\ Return(n)
  /\ HandlerFrame
  /\ UNCHANGED <<lastBeat, redisVars>>

\* Any other database error, the transaction applied or not.
ApplyError(n) ==
  /\ At(n, "touch")
  /\ Fault
  /\ TouchHouse(n) \/ UNCHANGED lastBeat
  /\ Retry(n)
  /\ HandlerFrame
  /\ UNCHANGED redisVars

\* Mutant of WriteStatus: the key expires HeartbeatTTL after receivedAt.
BugExpireFromReceipt(n) ==
  /\ UpdateHeartbeat(job[n].house, job[n].id, job[n].recv,
                     HeartbeatTTL - (clock - job[n].recv))
  /\ shown' = [shown EXCEPT
                 ![job[n].house] = Later(shown[job[n].house], job[n].recv)]

\* redisstore.UpdateHeartbeat with the receivedAt of the attempt.
WriteStatus(n) ==
  /\ UpdateHeartbeat(job[n].house, job[n].id, job[n].recv, HeartbeatTTL)
  /\ shown' = [shown EXCEPT
                 ![job[n].house] = Later(shown[job[n].house], job[n].recv)]

WriteCache(n) ==
  /\ At(n, "cache")
  /\ WriteStatus(n)
  /\ Return(n)
  /\ HandlerFrame
  /\ UNCHANGED <<lastBeat, faults>>

\* A Redis error, the script applied or not; absorbed under async-repair.
WriteCacheError(n) ==
  /\ At(n, "cache")
  /\ Fault
  /\ WriteStatus(n) \/ UNCHANGED redisVars
  /\ IF Required THEN Retry(n) ELSE Return(n)
  /\ HandlerFrame
  /\ UNCHANGED lastBeat

\* A stop or the end of the process.
Interrupted(n) ==
  /\ job[n] # None
  /\ Return(n)
  /\ HandlerFrame
  /\ UNCHANGED <<lastBeat, redisVars, faults>>

HandlerStep(n) ==
  \/ Deliver(n) \/ Apply(n) \/ TouchMisses(n) \/ ExplainMismatch(n)
  \/ AssetConflict(n) \/ ApplyError(n) \/ WriteCache(n) \/ WriteCacheError(n)
  \/ Interrupted(n)

-----------------------------------------------------------------------------
(* redis-rebuild: memberships and status keys                              *)

RebuildFrame == UNCHANGED <<clock, pgVars, shown, job, faults>>

\* Run takes the time once ...
RebuildStart ==
  /\ rb.at = "idle"
  /\ rebuilds > 0
  /\ rebuilds' = rebuilds - 1
  /\ rb' = [at |-> "read", now |-> clock]
  /\ page' = {}
  /\ RebuildFrame
  /\ UNCHANGED <<status, members>>

\* ... reads a page of houses (HousesPage) ...
RebuildRead ==
  /\ rb.at = "read"
  /\ page' = {[house |-> h, id |-> reg[h], beat |-> lastBeat[h]] :
                h \in {g \in Houses : reg[g] # None}}
  /\ rb' = [at |-> "write", now |-> rb.now, rows |-> page']
  /\ RebuildFrame
  /\ UNCHANGED <<status, members, rebuilds>>

\* What is left of the liveness window, as RestoreHeartbeat computes it.
Remaining(row) == HeartbeatTTL - (rb.now - row.beat)

\* Mutant of Restorable: the bound on the remaining time is off by one.
BugLastSecond(row) == row.beat # 0 /\ Remaining(row) > Second

\* A house without a heartbeat, or with less than a second of its window left,
\* gets no key.
Restorable(row) == row.beat # 0 /\ Remaining(row) >= Second

\* AddHouseToGrid and RestoreHeartbeat for one row.
Restore(row) ==
  IF Restorable(row)
  THEN UpdateHeartbeat(row.house, row.id, row.beat, Remaining(row))
  ELSE members' = members \cup {<<row.house, row.id>>} /\ UNCHANGED status

RebuildHouse ==
  /\ rb.at = "write"
  /\ \E row \in rb.rows :
       /\ Restore(row)
       /\ rb' = [rb EXCEPT !.rows = rb.rows \ {row}]
  /\ RebuildFrame
  /\ UNCHANGED <<page, rebuilds>>

RebuildDone ==
  /\ rb.at = "write"
  /\ rb.rows = {}
  /\ rb' = [at |-> "idle"]
  /\ RebuildFrame
  /\ UNCHANGED <<status, members, page, rebuilds>>

\* An error or a timeout ends the run: the calls of a row applied, only the
\* first of them, or none.
RebuildFails ==
  /\ rb.at \in {"read", "write"}
  /\ \/ UNCHANGED <<status, members>>
     \/ /\ rb.at = "write"
        /\ \E row \in rb.rows :
             \/ Restore(row)
             \/ members' = members \cup {<<row.house, row.id>>} /\ UNCHANGED status
  /\ rb' = [at |-> "idle"]
  /\ page' = {}
  /\ RebuildFrame
  /\ UNCHANGED rebuilds

RebuildStep ==
  RebuildStart \/ RebuildRead \/ RebuildHouse \/ RebuildDone \/ RebuildFails

-----------------------------------------------------------------------------
Next ==
  \/ Tick
  \/ RedisLoss
  \/ \E h \in Houses, id \in Identities : RegisterHouse(h, id)
  \/ \E n \in Handlers : HandlerStep(n)
  \/ RebuildStep

Spec == Init /\ [][Next]_vars

-----------------------------------------------------------------------------
(* Properties                                                              *)

\* The state components keep their types.
TypeOK ==
  /\ clock \in 1..MaxTime
  /\ reg \in [Houses -> Identities \cup {None}]
  /\ lastBeat \in [Houses -> Times]
  /\ status \in [Houses -> Status \cup {None}]
  /\ members \in SUBSET (Houses \X Identities)
  /\ job \in [Handlers -> Job \cup {None}]
  /\ shown \in [Houses -> Times]
  /\ rb \in Rebuild
  /\ page \in SUBSET HouseRow
  /\ rebuilds \in 0..MaxRebuilds
  /\ faults \in 0..MaxFaults

\* Redis never shows a heartbeat later than the last one in Postgres, nor the
\* status of a house that is not registered.
CacheNotAhead ==
  \A h \in Houses : status[h] # None =>
    reg[h] # None /\ status[h].at <= lastBeat[h]

\* A house is listed only under the identity it is registered with: neither a
\* heartbeat of another identity, nor a registration that arrives while one
\* is being handled, nor a rebuild adds it elsewhere.
MembersRegistered == \A m \in members : reg[m[1]] = m[2]

\* The state is well typed and Redis agrees with the houses table: its status
\* keys and its memberships belong to registered houses and are never ahead.
StatusInv == TypeOK /\ CacheNotAhead /\ MembersRegistered

\* A house whose heartbeat Redis accepted stays online for HeartbeatTTL after
\* receivedAt, also when an older heartbeat is written after it by a delayed
\* handler.  A rebuild may cut that short (RebuildNeverRegresses).
OnlineWhileAlive ==
  \A h \in Houses :
    (/\ rebuilds = MaxRebuilds
     /\ shown[h] # 0
     /\ clock < shown[h] + HeartbeatTTL) => status[h] # None

\* After a completed rebuild, on a Redis that lost nothing since the houses
\* were read, every house is a member of its grid, and every house whose
\* liveness window was open is online until less than a second before the
\* window ends: a house in its last second gets no key, and the time a key has
\* left is cut to whole seconds, while handlers of older heartbeats write the
\* same key.
RebuildRestoresAlive ==
  rb.at = "idle" =>
    \A row \in page :
      /\ <<row.house, row.id>> \in members
      /\ (row.beat # 0 /\ clock + Second <= row.beat + HeartbeatTTL) =>
           status[row.house] # None

\* Expected to fail.  rebuild.Run: every write is "newest-wins", so it "can
\* never regress state the consumer has already refreshed".  The status write
\* is unconditional.
RebuildNeverRegresses ==
  [][RebuildStep =>
       \A h \in Houses :
         (status[h] # None /\ status'[h] # None) =>
           status'[h].at >= status[h].at]_vars
=============================================================================
