-------------------------- MODULE HeartbeatProofs --------------------------
(***************************************************************************)
(* Proofs about HeartbeatLiveness for any houses, identities, handlers,    *)
(* second, heartbeat TTL, retry budget, clock bound and number of faults   *)
(* and of rebuilds.                                                        *)
(***************************************************************************)
EXTENDS HeartbeatLiveness, TLAPS

\* The status key of h lasts until e, unless e has passed.
KeptFor(h, e) == clock < e => status[h] # None /\ status[h].ends >= e

\* A rebuild lets the key of row x last less than a second short of its window.
RestoredUntil(x) == x.beat + HeartbeatTTL - Second + 1

\* Nothing in Postgres or accepted by Redis is from the future.
ClockInv == \A h \in Houses : lastBeat[h] <= clock /\ shown[h] <= clock

\* A handler writes the cache only for a house registered with the identity
\* of the heartbeat and touched at receivedAt or later.
JobSound(n) ==
  job[n] # None =>
    /\ job[n].recv <= clock
    /\ job[n].at = "cache" =>
         reg[job[n].house] = job[n].id /\ job[n].recv <= lastBeat[job[n].house]

JobInv == \A n \in Handlers : JobSound(n)

\* Before any rebuild, the key of a house outlives the window of the latest
\* heartbeat that Redis accepted.
ShownInv ==
  rebuilds = MaxRebuilds =>
    /\ rb.at = "idle"
    /\ \A h \in Houses : shown[h] # 0 => KeptFor(h, shown[h] + HeartbeatTTL)

\* Row x agrees with the houses table.
RowSound(x) == reg[x.house] = x.id /\ x.beat <= lastBeat[x.house]

\* Row x is restored: a member, and online for what is left of its window.
Restored(x) ==
  /\ <<x.house, x.id>> \in members
  /\ x.beat # 0 => KeptFor(x.house, RestoredUntil(x))

\* The rows redis-rebuild has read are rows of Postgres, one for each house,
\* and those it is done with are restored.
RebuildInv ==
  /\ rb.at # "idle" => rb.now <= clock
  /\ rb.at = "write" => \A x \in rb.rows : RowSound(x)
  /\ rb.at = "read" => page = {}
  /\ rb.at = "write" => page = {} \/ rb.rows \subseteq page
  /\ \A x, y \in page : x.house = y.house => x = y
  /\ \A x \in page :
       /\ RowSound(x)
       /\ (rb.at = "idle" \/ (rb.at = "write" /\ x \notin rb.rows)) => Restored(x)

\* The inductive invariant.
IInv ==
  /\ TypeOK
  /\ CacheNotAhead
  /\ MembersRegistered
  /\ ClockInv
  /\ JobInv
  /\ ShownInv
  /\ RebuildInv

-----------------------------------------------------------------------------
(* Postgres never goes back: registrations stay, last_heartbeat_at and the *)
(* clock only grow.                                                        *)

Advances ==
  /\ clock <= clock'
  /\ \A h \in Houses : reg[h] # None => reg'[h] = reg[h]
  /\ \A h \in Houses : lastBeat[h] <= lastBeat'[h]

\* The clock and the times of heartbeats are natural numbers.
LEMMA TimeTypes ==
  ASSUME TypeOK
  PROVE  /\ clock \in Nat /\ clock \in Times
         /\ Times \subseteq Nat
         /\ HeartbeatTTL \in Nat /\ Second \in Nat \ {0}
         /\ \A h \in Houses : lastBeat[h] \in Nat /\ shown[h] \in Nat
         /\ \A x \in HouseRow : x.house \in Houses /\ x.id \in Identities /\ x.beat \in Nat
<1>1. MaxTime \in Nat /\ HeartbeatTTL \in Nat /\ Second \in Nat \ {0}
  BY LivenessAssumption DEF LivenessAssumption
<1>2. clock \in Nat /\ clock \in Times /\ Times \subseteq Nat
  BY <1>1 DEF TypeOK, Times
<1>3. \A h \in Houses : lastBeat[h] \in Nat /\ shown[h] \in Nat
  BY <1>2 DEF TypeOK
<1>4. \A x \in HouseRow : x.house \in Houses /\ x.id \in Identities /\ x.beat \in Nat
  BY <1>2 DEF HouseRow
<1>5. QED
  BY <1>1, <1>2, <1>3, <1>4

\* Cutting to whole seconds takes away less than one, and nothing of the TTL.
LEMMA WholeSecondsEffect ==
  ASSUME NEW t \in Nat
  PROVE  /\ WholeSeconds(t) \in Nat
         /\ WholeSeconds(t) <= t /\ WholeSeconds(t) + Second > t
         /\ t \in Times => WholeSeconds(t) \in Times
         /\ WholeSeconds(HeartbeatTTL) = HeartbeatTTL
<1>1. /\ Second \in Nat \ {0} /\ HeartbeatTTL \in Nat /\ HeartbeatTTL % Second = 0
      /\ MaxTime \in Nat
  BY LivenessAssumption DEF LivenessAssumption
<1>2. t % Second \in 0..(Second - 1)
  BY <1>1
<1>3. t % Second <= t
  BY <1>1
<1>4. QED
  BY <1>1, <1>2, <1>3 DEF WholeSeconds, Times

\* A row of the houses table stays one.
LEMMA RowKept ==
  ASSUME TypeOK, TypeOK', Advances, NEW x \in HouseRow, RowSound(x)
  PROVE  RowSound(x)'
<1>1. x.house \in Houses /\ x.id \in Identities /\ x.beat \in Nat
  BY TimeTypes
<1>2. reg[x.house] # None
  BY <1>1, LivenessAssumption DEF RowSound, LivenessAssumption
<1>3. reg'[x.house] = x.id
  BY <1>1, <1>2 DEF RowSound, Advances
<1>4. lastBeat[x.house] \in Nat /\ lastBeat'[x.house] \in Nat
  <2>1. Times \subseteq Nat
    BY TimeTypes
  <2>2. QED
    BY <1>1, <2>1 DEF TypeOK
<1>5. x.beat <= lastBeat'[x.house]
  BY <1>1, <1>4 DEF RowSound, Advances
<1>6. QED
  BY <1>3, <1>5 DEF RowSound

\* The other handlers keep what they rely on.
LEMMA JobKept ==
  ASSUME TypeOK, TypeOK', Advances, NEW n \in Handlers, JobSound(n), job'[n] = job[n]
  PROVE  JobSound(n)'
<1>1. CASE job[n] = None
  BY <1>1 DEF JobSound
<1>2. CASE job[n] # None
  <2>1. PICK j \in Job : j = job[n]
    BY <1>2 DEF TypeOK
  <2>2. Times \subseteq Nat /\ clock \in Nat
    BY TimeTypes
  <2>3. clock' \in Nat
    BY LivenessAssumption DEF TypeOK, LivenessAssumption
  <2>4. j.house \in Houses /\ j.id \in Identities /\ j.recv \in Nat
    BY <2>1, <2>2 DEF Job
  <2>5. lastBeat[j.house] \in Nat /\ lastBeat'[j.house] \in Nat
    BY <2>2, <2>4 DEF TypeOK
  <2>6. j.recv <= clock'
    BY <1>2, <2>1, <2>2, <2>3, <2>4 DEF JobSound, Advances
  <2>7. ASSUME j.at = "cache"
        PROVE  reg'[j.house] = j.id /\ j.recv <= lastBeat'[j.house]
    <3>1. reg[j.house] = j.id /\ j.recv <= lastBeat[j.house]
      BY <1>2, <2>1, <2>7 DEF JobSound
    <3>2. j.id # None
      BY <2>4, LivenessAssumption DEF LivenessAssumption
    <3>3. QED
      BY <2>4, <2>5, <3>1, <3>2 DEF Advances
  <2>8. QED
    BY <2>1, <2>6, <2>7 DEF JobSound
<1>3. QED
  BY <1>1, <1>2

\* What is written to Redis agrees with Postgres, and stays so.
LEMMA CacheKept ==
  ASSUME TypeOK, TypeOK', Advances, CacheNotAhead, MembersRegistered,
         \A h \in Houses :
           \/ status'[h] \in {status[h], None}
           \/ reg'[h] # None /\ status'[h].at <= lastBeat'[h],
         \A m \in members' : m \in members \/ reg'[m[1]] = m[2]
  PROVE  CacheNotAhead' /\ MembersRegistered'
<1>1. Times \subseteq Nat
  BY TimeTypes
<1>2. ASSUME NEW h \in Houses, status'[h] # None
      PROVE  reg'[h] # None /\ status'[h].at <= lastBeat'[h]
  <2>1. CASE status'[h] = status[h]
    <3>1. status[h].at \in Nat /\ lastBeat[h] \in Nat /\ lastBeat'[h] \in Nat
      BY <1>1, <1>2, <2>1 DEF TypeOK, Status
    <3>2. reg[h] # None /\ status[h].at <= lastBeat[h] /\ lastBeat[h] <= lastBeat'[h]
      BY <1>2, <2>1 DEF CacheNotAhead, Advances
    <3>3. QED
      BY <2>1, <3>1, <3>2 DEF Advances
  <2>2. QED
    BY <1>2, <2>1
<1>3. ASSUME NEW m \in members'
      PROVE  reg'[m[1]] = m[2]
  <2>1. CASE m \in members
    <3>1. m[1] \in Houses /\ m[2] \in Identities /\ reg[m[1]] = m[2]
      BY <2>1 DEF TypeOK, MembersRegistered
    <3>2. m[2] # None
      BY <3>1, LivenessAssumption DEF LivenessAssumption
    <3>3. QED
      BY <3>1, <3>2 DEF Advances
  <2>2. QED
    BY <2>1
<1>4. QED
  BY <1>2, <1>3 DEF CacheNotAhead, MembersRegistered

\* update_heartbeat.lua changes one key and adds one member.
LEMMA UpdateEffect ==
  ASSUME TypeOK, NEW h \in Houses, NEW id \in Identities, NEW at \in Times, NEW ttl \in Nat,
         UpdateHeartbeat(h, id, at, ttl)
  PROVE  /\ status' \in [Houses -> Status \cup {None}]
         /\ members' \in SUBSET (Houses \X Identities)
         /\ \A g \in Houses \ {h} : status'[g] = status[g]
         /\ status'[h] # None /\ status'[h].at <= at
         /\ status'[h].ends = clock + WholeSeconds(ttl)
         /\ members' = members \cup {<<h, id>>}
<1>1. /\ clock + WholeSeconds(ttl) \in Int
      /\ WholeSeconds(at) \in Times /\ WholeSeconds(at) <= at
  BY TimeTypes, WholeSecondsEffect
<1>2. PICK st \in Status : st = [at |-> WholeSeconds(at), ends |-> clock + WholeSeconds(ttl)]
  BY <1>1 DEF Status
<1>3. status' = [status EXCEPT ![h] = st] /\ members' = members \cup {<<h, id>>}
  BY <1>2 DEF UpdateHeartbeat
<1>4. st # None
  BY LivenessAssumption DEF LivenessAssumption
<1>5. st.at <= at /\ st.ends = clock + WholeSeconds(ttl)
  BY <1>1, <1>2
<1>6. QED
  BY <1>3, <1>4, <1>5 DEF TypeOK

\* A key that is written to last until e, or left alone, does.
LEMMA KeptForStep ==
  ASSUME TypeOK, NEW h \in Houses, NEW e \in Int, clock' = clock,
         \/ KeptFor(h, e) /\ status'[h] = status[h]
         \/ status'[h] # None /\ status'[h].ends >= e
  PROVE  KeptFor(h, e)'
BY DEF KeptFor

\* What is restored stays so while the keys in the page are kept.
LEMMA RebuildKept ==
  ASSUME TypeOK, TypeOK', Advances, RebuildInv, UNCHANGED <<rb, page>>, members \subseteq members',
         \A x \in page : KeptFor(x.house, RestoredUntil(x)) => KeptFor(x.house, RestoredUntil(x))'
  PROVE  RebuildInv'
<1>1. page \subseteq HouseRow /\ (rb.at = "write" => rb.rows \subseteq HouseRow)
  BY DEF TypeOK, Rebuild
<1>2. rb.at # "idle" => rb.now <= clock'
  <2>1. clock \in Nat /\ Times \subseteq Nat
    BY TimeTypes
  <2>2. clock' \in Nat
    BY LivenessAssumption DEF TypeOK, LivenessAssumption
  <2>3. rb.at # "idle" => rb.now \in Nat /\ rb.now <= clock
    BY <2>1 DEF TypeOK, Rebuild, RebuildInv
  <2>4. QED
    BY <2>1, <2>2, <2>3 DEF Advances
<1>3. \A x \in page : RowSound(x)'
  BY <1>1, RowKept DEF RebuildInv
<1>4. rb.at = "write" => \A x \in rb.rows : RowSound(x)'
  BY <1>1, RowKept DEF RebuildInv
<1>5. \A x \in page : Restored(x) => Restored(x)'
  BY DEF Restored
<1>6. QED
  BY <1>2, <1>3, <1>4, <1>5 DEF RebuildInv

-----------------------------------------------------------------------------
(* Time, Redis losses and registrations.                                   *)

\* A second passes and keys expire.
LEMMA TickInv ==
  ASSUME IInv, Tick
  PROVE  IInv'
<1>1. /\ TypeOK /\ CacheNotAhead /\ MembersRegistered /\ ClockInv /\ JobInv /\ ShownInv
      /\ RebuildInv
      /\ UNCHANGED <<reg, lastBeat, members, shown, job, rb, page, rebuilds, faults>>
  BY DEF IInv, Tick, pgVars, rbVars
<1>2. /\ clock \in Nat /\ HeartbeatTTL \in Nat /\ Times \subseteq Nat
      /\ \A h \in Houses : lastBeat[h] \in Nat /\ shown[h] \in Nat
  BY <1>1, TimeTypes
<1>3. clock' = clock + 1 /\ clock' \in 1..MaxTime
  BY <1>1, LivenessAssumption DEF Tick, TypeOK, LivenessAssumption
<1>4. \A h \in Houses :
        /\ status'[h] \in {status[h], None}
        /\ status[h] # None /\ status[h].ends > clock + 1 => status'[h] = status[h]
  <2>1. \A h \in Houses : status[h] # None => status[h].ends \in Int
    BY <1>1 DEF TypeOK, Status
  <2>2. QED
    BY <1>2, <2>1 DEF Tick
<1>5. status' \in [Houses -> Status \cup {None}]
  <2>1. status' = [h \in Houses |-> status'[h]]
    BY DEF Tick
  <2>2. \A h \in Houses : status'[h] \in Status \cup {None}
    BY <1>1, <1>4 DEF TypeOK
  <2>3. QED
    BY <2>1, <2>2
<1>6. TypeOK'
  BY <1>1, <1>3, <1>5 DEF TypeOK
<1>7. Advances
  BY <1>1, <1>2, <1>3 DEF Advances
<1>8. ASSUME NEW h \in Houses, NEW e \in Int, KeptFor(h, e)
      PROVE  KeptFor(h, e)'
  <2>1. CASE clock' < e
    <3>1. status[h] # None /\ status[h].ends >= e /\ status[h].ends \in Int
      BY <1>1, <1>2, <1>3, <1>8, <2>1 DEF KeptFor, TypeOK, Status
    <3>2. status'[h] = status[h]
      BY <1>2, <1>3, <1>4, <2>1, <3>1
    <3>3. QED
      BY <3>1, <3>2 DEF KeptFor
  <2>2. CASE ~(clock' < e)
    BY <2>2 DEF KeptFor
  <2>3. QED
    BY <2>1, <2>2
<1>9. CacheNotAhead' /\ MembersRegistered'
  <2>1. \A h \in Houses :
          \/ status'[h] \in {status[h], None}
          \/ reg'[h] # None /\ status'[h].at <= lastBeat'[h]
    BY <1>4
  <2>2. \A m \in members' : m \in members \/ reg'[m[1]] = m[2]
    BY <1>1
  <2>3. QED
    BY <1>1, <1>6, <1>7, <2>1, <2>2, CacheKept
<1>10. ClockInv'
  BY <1>1, <1>2, <1>3 DEF ClockInv
<1>11. JobInv'
  BY <1>1, <1>6, <1>7, JobKept DEF JobInv
<1>12. ShownInv'
  <2>1. ASSUME NEW h \in Houses, KeptFor(h, shown[h] + HeartbeatTTL)
        PROVE  KeptFor(h, shown[h] + HeartbeatTTL)'
    <3>1. PICK e \in Int : e = shown[h] + HeartbeatTTL
      BY <1>2
    <3>2. KeptFor(h, e)'
      BY <1>8, <2>1, <3>1
    <3>3. QED
      BY <1>1, <3>1, <3>2 DEF KeptFor
  <2>2. QED
    BY <1>1, <2>1 DEF ShownInv
<1>13. RebuildInv'
  <2>1. \A x \in page : x.house \in Houses /\ RestoredUntil(x) \in Int
    BY <1>1, TimeTypes DEF TypeOK, RestoredUntil
  <2>2. \A x \in page : KeptFor(x.house, RestoredUntil(x)) => KeptFor(x.house, RestoredUntil(x))'
    BY <1>8, <2>1
  <2>3. QED
    BY <1>1, <1>6, <1>7, <2>2, RebuildKept
<1>14. QED
  BY <1>6, <1>9, <1>10, <1>11, <1>12, <1>13 DEF IInv

\* A fault uses up one of the budget.
LEMMA FaultType ==
  ASSUME TypeOK, Fault
  PROVE  faults' \in 0..MaxFaults
BY LivenessAssumption DEF TypeOK, Fault, LivenessAssumption

\* Redis loses everything it held.
LEMMA RedisLossInv ==
  ASSUME IInv, RedisLoss
  PROVE  IInv'
<1>1. /\ TypeOK /\ ClockInv /\ JobInv /\ ShownInv /\ RebuildInv
      /\ UNCHANGED <<clock, reg, lastBeat, job, rb, rebuilds>>
      /\ members' = {} /\ page' = {}
      /\ status' = [h \in Houses |-> None] /\ shown' = [h \in Houses |-> 0]
  BY DEF IInv, RedisLoss, pgVars
<1>2. clock \in Nat /\ 0 \in Times
  BY <1>1, TimeTypes, LivenessAssumption DEF Times, LivenessAssumption
<1>3. TypeOK'
  BY <1>1, <1>2, FaultType DEF TypeOK, RedisLoss
<1>4. CacheNotAhead' /\ MembersRegistered' /\ ClockInv'
  BY <1>1, <1>2 DEF CacheNotAhead, MembersRegistered, ClockInv
<1>5. JobInv'
  BY <1>1 DEF JobInv, JobSound
<1>6. ShownInv'
  BY <1>1 DEF ShownInv
<1>7. RebuildInv'
  BY <1>1 DEF RebuildInv, RowSound
<1>8. QED
  BY <1>3, <1>4, <1>5, <1>6, <1>7 DEF IInv

\* register-houses adds a row and changes none.
LEMMA RegisterInv ==
  ASSUME IInv, NEW h \in Houses, NEW id \in Identities, RegisterHouse(h, id)
  PROVE  IInv'
<1>1. /\ TypeOK /\ CacheNotAhead /\ MembersRegistered /\ ClockInv /\ JobInv /\ ShownInv
      /\ RebuildInv
      /\ UNCHANGED <<clock, lastBeat, status, members, shown, job, rb, page, rebuilds, faults>>
      /\ reg[h] = None /\ reg' = [reg EXCEPT ![h] = id]
  BY DEF IInv, RegisterHouse, redisVars, rbVars
<1>2. TypeOK'
  BY <1>1 DEF TypeOK
<1>3. Advances
  <2>1. clock \in Nat /\ \A g \in Houses : lastBeat[g] \in Nat
    BY <1>1, TimeTypes
  <2>2. \A g \in Houses : reg[g] # None => reg'[g] = reg[g]
    BY <1>1 DEF TypeOK
  <2>3. QED
    BY <1>1, <2>1, <2>2 DEF Advances
<1>4. CacheNotAhead' /\ MembersRegistered'
  BY <1>1, <1>2, <1>3, CacheKept
<1>5. ClockInv' /\ ShownInv'
  BY <1>1 DEF ClockInv, ShownInv, KeptFor
<1>6. JobInv'
  BY <1>1, <1>2, <1>3, JobKept DEF JobInv
<1>7. RebuildInv'
  <2>1. \A x \in page : KeptFor(x.house, RestoredUntil(x)) => KeptFor(x.house, RestoredUntil(x))'
    BY <1>1 DEF KeptFor
  <2>2. QED
    BY <1>1, <1>2, <1>3, <2>1, RebuildKept
<1>8. QED
  BY <1>2, <1>4, <1>5, <1>6, <1>7 DEF IInv

-----------------------------------------------------------------------------
(* The handlers.                                                           *)

\* What a step of handler n leaves behind.
HandlerMoves(n) ==
  /\ UNCHANGED <<clock, reg, rb, page, rebuilds>>
  /\ faults' \in 0..MaxFaults
  /\ job'[n] \in Job \cup {None}
  /\ job' = [job EXCEPT ![n] = job'[n]]
  /\ JobSound(n)'
  /\ lastBeat' \in [Houses -> Times]
  /\ \A h \in Houses : lastBeat[h] <= lastBeat'[h] /\ lastBeat'[h] <= clock
  /\ \/ UNCHANGED <<status, members, shown>>
     \/ At(n, "cache") /\ WriteStatus(n)

\* The write of a status key by a handler: the key lives HeartbeatTTL from now.
LEMMA WriteEffect ==
  ASSUME TypeOK, ClockInv, NEW n \in Handlers, JobSound(n), At(n, "cache"), WriteStatus(n)
  PROVE  /\ status' \in [Houses -> Status \cup {None}]
         /\ members' \in SUBSET (Houses \X Identities)
         /\ shown' \in [Houses -> Times]
         /\ members \subseteq members'
         /\ \A m \in members' : m \in members \/ reg[m[1]] = m[2]
         /\ \A h \in Houses :
              \/ status'[h] = status[h] /\ shown'[h] = shown[h]
              \/ /\ reg[h] # None
                 /\ status'[h] # None /\ status'[h].at <= lastBeat[h]
                 /\ status'[h].ends = clock + HeartbeatTTL
                 /\ shown'[h] <= clock
<1>1. PICK j \in Job : j = job[n] /\ job[n] # None
  BY DEF At, TypeOK
<1>2. Times \subseteq Nat /\ clock \in Nat /\ HeartbeatTTL \in Nat
  BY TimeTypes
<1>3. j.house \in Houses /\ j.id \in Identities /\ j.recv \in Times
  BY <1>1 DEF Job
<1>4. reg[j.house] = j.id /\ j.recv <= lastBeat[j.house] /\ j.recv <= clock
  BY <1>1 DEF JobSound, At
<1>5. /\ UpdateHeartbeat(j.house, j.id, j.recv, HeartbeatTTL)
      /\ shown' = [shown EXCEPT ![j.house] = Later(shown[j.house], j.recv)]
  BY <1>1 DEF WriteStatus
<1>6. /\ status' \in [Houses -> Status \cup {None}]
      /\ members' \in SUBSET (Houses \X Identities)
      /\ \A g \in Houses \ {j.house} : status'[g] = status[g]
      /\ status'[j.house] # None /\ status'[j.house].at <= j.recv
      /\ status'[j.house].ends = clock + HeartbeatTTL
      /\ members' = members \cup {<<j.house, j.id>>}
  BY <1>2, <1>3, <1>5, UpdateEffect, WholeSecondsEffect
<1>7. PICK t \in Times : t = Later(shown[j.house], j.recv) /\ t <= clock
  BY <1>2, <1>3, <1>4 DEF Later, TypeOK, ClockInv
<1>8. /\ shown' \in [Houses -> Times]
      /\ \A g \in Houses \ {j.house} : shown'[g] = shown[g]
      /\ shown'[j.house] <= clock
  BY <1>3, <1>5, <1>7 DEF TypeOK
<1>9. j.id # None
  BY <1>3, LivenessAssumption DEF LivenessAssumption
<1>10. \A m \in members' : m \in members \/ reg[m[1]] = m[2]
  BY <1>4, <1>6
<1>11. \A h \in Houses :
         \/ status'[h] = status[h] /\ shown'[h] = shown[h]
         \/ /\ reg[h] # None
            /\ status'[h] # None /\ status'[h].at <= lastBeat[h]
            /\ status'[h].ends = clock + HeartbeatTTL
            /\ shown'[h] <= clock
  <2>1. status'[j.house].at \in Nat /\ j.recv \in Nat /\ lastBeat[j.house] \in Nat
    BY <1>2, <1>3, <1>6 DEF TypeOK, Status
  <2>2. status'[j.house].at <= lastBeat[j.house]
    BY <1>4, <1>6, <2>1
  <2>3. QED
    BY <1>4, <1>6, <1>8, <1>9, <2>2
<1>12. QED
  BY <1>6, <1>8, <1>10, <1>11

\* Such a step preserves the invariant.
LEMMA HandlerMovesInv ==
  ASSUME IInv, NEW n \in Handlers, HandlerMoves(n)
  PROVE  IInv'
<1>1. /\ TypeOK /\ CacheNotAhead /\ MembersRegistered /\ ClockInv /\ JobInv /\ ShownInv
      /\ RebuildInv
      /\ UNCHANGED <<clock, reg, rb, page, rebuilds>>
  BY DEF IInv, HandlerMoves
<1>2. /\ clock \in Nat /\ HeartbeatTTL \in Nat /\ Times \subseteq Nat
      /\ \A h \in Houses : lastBeat[h] \in Nat /\ shown[h] \in Nat
  BY <1>1, TimeTypes
<1>3. /\ status' \in [Houses -> Status \cup {None}]
      /\ members' \in SUBSET (Houses \X Identities)
      /\ shown' \in [Houses -> Times]
      /\ members \subseteq members'
      /\ \A m \in members' : m \in members \/ reg[m[1]] = m[2]
      /\ \A h \in Houses :
           \/ status'[h] = status[h] /\ shown'[h] = shown[h]
           \/ /\ reg[h] # None
              /\ status'[h] # None /\ status'[h].at <= lastBeat[h]
              /\ status'[h].ends = clock + HeartbeatTTL
              /\ shown'[h] <= clock
  <2>1. CASE UNCHANGED <<status, members, shown>>
    BY <1>1, <2>1 DEF TypeOK
  <2>2. CASE At(n, "cache") /\ WriteStatus(n)
    BY <1>1, <2>2, WriteEffect DEF JobInv
  <2>3. QED
    BY <2>1, <2>2 DEF HandlerMoves
<1>4. job' \in [Handlers -> Job \cup {None}] /\ \A g \in Handlers \ {n} : job'[g] = job[g]
  BY <1>1 DEF TypeOK, HandlerMoves
<1>5. TypeOK'
  BY <1>1, <1>3, <1>4 DEF TypeOK, HandlerMoves
<1>6. Advances
  BY <1>1, <1>2 DEF Advances, HandlerMoves
<1>7. \A h \in Houses : lastBeat'[h] \in Nat /\ lastBeat[h] <= lastBeat'[h]
  BY <1>2, <1>5 DEF TypeOK, HandlerMoves
<1>8. CacheNotAhead' /\ MembersRegistered'
  <2>1. \A h \in Houses :
          \/ status'[h] \in {status[h], None}
          \/ reg'[h] # None /\ status'[h].at <= lastBeat'[h]
    <3>1. \A h \in Houses : status'[h] # None => status'[h].at \in Nat
      BY <1>2, <1>3 DEF Status
    <3>2. QED
      BY <1>1, <1>2, <1>3, <1>7, <3>1
  <2>2. \A m \in members' : m \in members \/ reg'[m[1]] = m[2]
    BY <1>1, <1>3
  <2>3. QED
    BY <1>1, <1>5, <1>6, <2>1, <2>2, CacheKept
<1>9. ClockInv'
  <2>1. \A h \in Houses : lastBeat'[h] <= clock /\ shown'[h] <= clock
    BY <1>1, <1>3 DEF ClockInv, HandlerMoves
  <2>2. QED
    BY <1>1, <2>1 DEF ClockInv
<1>10. JobInv'
  <2>1. \A g \in Handlers \ {n} : JobSound(g)'
    BY <1>1, <1>4, <1>5, <1>6, JobKept DEF JobInv
  <2>2. JobSound(n)'
    BY DEF HandlerMoves
  <2>3. QED
    BY <2>1, <2>2 DEF JobInv
<1>11. ASSUME NEW h \in Houses, NEW e \in Int, e <= clock + HeartbeatTTL, KeptFor(h, e)
       PROVE  KeptFor(h, e)'
  <2>1. CASE status'[h] = status[h]
    BY <1>1, <1>11, <2>1, KeptForStep
  <2>2. CASE status'[h] # None /\ status'[h].ends = clock + HeartbeatTTL
    BY <1>1, <1>2, <1>11, <2>2, KeptForStep
  <2>3. QED
    BY <1>3, <2>1, <2>2
<1>12. ShownInv'
  <2>1. ASSUME rebuilds = MaxRebuilds, NEW h \in Houses, shown'[h] # 0
        PROVE  KeptFor(h, shown[h] + HeartbeatTTL)'
    <3>1. PICK e \in Int : e = shown'[h] + HeartbeatTTL /\ e <= clock + HeartbeatTTL
      <4>1. PICK t \in Nat : t = shown'[h] /\ t <= clock
        BY <1>1, <1>2, <1>3, <1>9 DEF ClockInv
      <4>2. t + HeartbeatTTL \in Int /\ t + HeartbeatTTL <= clock + HeartbeatTTL
        BY <1>2, <4>1
      <4>3. QED
        BY <4>1, <4>2
    <3>2. KeptFor(h, e)'
      <4>1. CASE status'[h] = status[h] /\ shown'[h] = shown[h]
        BY <1>1, <1>11, <2>1, <3>1, <4>1 DEF ShownInv
      <4>2. CASE status'[h] # None /\ status'[h].ends = clock + HeartbeatTTL
        BY <1>1, <3>1, <4>2, KeptForStep
      <4>3. QED
        BY <1>3, <4>1, <4>2
    <3>3. QED
      BY <3>1, <3>2 DEF KeptFor
  <2>2. QED
    BY <1>1, <2>1 DEF ShownInv
<1>13. RebuildInv'
  <2>1. \A x \in page : /\ x.house \in Houses /\ RestoredUntil(x) \in Int
                        /\ RestoredUntil(x) <= clock + HeartbeatTTL
    <3>1. \A x \in page : x.house \in Houses /\ x.beat \in Nat
      BY <1>1, TimeTypes DEF TypeOK
    <3>2. \A x \in page : x.beat <= lastBeat[x.house] /\ lastBeat[x.house] <= clock
      BY <1>1, <3>1 DEF RebuildInv, RowSound, ClockInv
    <3>3. \A x \in page : x.beat <= clock
      BY <1>2, <3>1, <3>2
    <3>4. QED
      BY <1>1, <1>2, <3>1, <3>3, TimeTypes DEF RestoredUntil
  <2>2. \A x \in page : KeptFor(x.house, RestoredUntil(x)) => KeptFor(x.house, RestoredUntil(x))'
    BY <1>11, <2>1
  <2>3. QED
    BY <1>1, <1>3, <1>5, <1>6, <2>2, RebuildKept
<1>14. QED
  BY <1>5, <1>8, <1>9, <1>10, <1>12, <1>13 DEF IInv

\* A handler that ends, or runs again with a new receivedAt, relies on nothing.
LEMMA RetryEffect ==
  ASSUME TypeOK, NEW n \in Handlers, job[n] # None, Retry(n) \/ Return(n), clock' = clock
  PROVE  /\ job'[n] \in Job \cup {None}
         /\ job' = [job EXCEPT ![n] = job'[n]]
         /\ JobSound(n)'
<1>1. job[n] \in Job /\ job \in [Handlers -> Job \cup {None}] /\ MaxTries \in Nat
  BY LivenessAssumption DEF TypeOK, LivenessAssumption
<1>2. clock \in Times /\ clock \in Nat
  BY TimeTypes
<1>3. CASE Return(n)
  <2>1. job'[n] = None /\ job' = [job EXCEPT ![n] = job'[n]]
    BY <1>1, <1>3 DEF Return
  <2>2. QED
    BY <2>1 DEF JobSound
<1>4. CASE Retry(n) /\ ~Return(n)
  <2>1. /\ job[n].tries < MaxTries
        /\ job' = [job EXCEPT ![n].at = "touch", ![n].recv = clock,
                              ![n].tries = job[n].tries + 1]
    BY <1>4 DEF Retry
  <2>2. job[n].tries + 1 \in 1..MaxTries
    BY <1>1, <2>1 DEF Job
  <2>3. /\ job'[n] \in Job
        /\ job' = [job EXCEPT ![n] = job'[n]]
        /\ job'[n].at = "touch" /\ job'[n].recv = clock
    BY <1>1, <1>2, <2>1, <2>2 DEF Job
  <2>4. QED
    BY <1>2, <2>3 DEF JobSound
<1>5. QED
  BY <1>3, <1>4

\* touchHouseSQL: last_heartbeat_at only grows, up to receivedAt.
LEMMA TouchEffect ==
  ASSUME TypeOK, ClockInv, NEW n \in Handlers, job[n] # None, JobSound(n), TouchHouse(n)
  PROVE  /\ lastBeat' \in [Houses -> Times]
         /\ \A h \in Houses : lastBeat[h] <= lastBeat'[h] /\ lastBeat'[h] <= clock
         /\ reg[job[n].house] = job[n].id
         /\ job[n].recv <= lastBeat'[job[n].house]
<1>1. PICK j \in Job : j = job[n]
  BY DEF TypeOK
<1>2. Times \subseteq Nat /\ clock \in Nat /\ \A h \in Houses : lastBeat[h] \in Nat
  BY TimeTypes
<1>3. j.house \in Houses /\ j.recv \in Times /\ j.recv <= clock
  BY <1>1 DEF Job, JobSound
<1>4. PICK t \in Times : /\ t = Later(lastBeat[j.house], j.recv)
                          /\ lastBeat[j.house] <= t /\ j.recv <= t /\ t <= clock
  BY <1>2, <1>3 DEF Later, TypeOK, ClockInv
<1>5. lastBeat' = [lastBeat EXCEPT ![j.house] = t] /\ reg[j.house] = j.id
  BY <1>1, <1>4 DEF TouchHouse
<1>6. lastBeat' \in [Houses -> Times] /\ lastBeat'[j.house] = t
  BY <1>3, <1>5 DEF TypeOK
<1>7. \A h \in Houses : lastBeat[h] <= lastBeat'[h] /\ lastBeat'[h] <= clock
  <2>1. \A h \in Houses \ {j.house} : lastBeat'[h] = lastBeat[h]
    BY <1>5 DEF TypeOK
  <2>2. QED
    BY <1>2, <1>4, <1>6, <2>1 DEF ClockInv
<1>8. QED
  BY <1>1, <1>4, <1>5, <1>6, <1>7

\* Every step of a handler is such a step.
LEMMA HandlerNext ==
  ASSUME IInv, NEW n \in Handlers, HandlerStep(n)
  PROVE  HandlerMoves(n)
<1>1. /\ TypeOK /\ ClockInv /\ JobSound(n) /\ faults \in 0..MaxFaults
      /\ lastBeat \in [Houses -> Times]
      /\ UNCHANGED <<clock, reg, rb, page, rebuilds>>
  BY DEF IInv, TypeOK, JobInv, HandlerStep, Deliver, Apply, TouchMisses, ExplainMismatch,
         AssetConflict, ApplyError, WriteCache, WriteCacheError, Interrupted, HandlerFrame,
         rbVars
<1>2. clock \in Times /\ clock \in Nat /\ \A h \in Houses : lastBeat[h] \in Nat
  BY <1>1, TimeTypes
<1>3. \A h \in Houses : lastBeat[h] <= lastBeat[h] /\ lastBeat[h] <= clock
  BY <1>1, <1>2 DEF ClockInv
<1>4. CASE Deliver(n)
  <2>1. PICK h \in Houses, id \in Identities :
          job' = [job EXCEPT ![n] = [at |-> "touch", house |-> h, id |-> id,
                                     recv |-> clock, tries |-> 1]]
    BY <1>4 DEF Deliver
  <2>2. 1 \in 1..MaxTries
    BY LivenessAssumption DEF LivenessAssumption
  <2>3. /\ job'[n] \in Job
        /\ job' = [job EXCEPT ![n] = job'[n]]
        /\ job'[n].at = "touch" /\ job'[n].recv = clock
    BY <1>1, <1>2, <2>1, <2>2 DEF TypeOK, Job
  <2>4. JobSound(n)'
    BY <1>1, <1>2, <2>3 DEF JobSound
  <2>5. UNCHANGED <<lastBeat, status, members, shown, faults>>
    BY <1>4 DEF Deliver, redisVars
  <2>6. QED
    BY <1>1, <1>3, <2>3, <2>4, <2>5 DEF HandlerMoves
<1>5. CASE Apply(n)
  <2>1. /\ job[n] # None /\ TouchHouse(n) /\ Go(n, "cache")
        /\ UNCHANGED <<status, members, shown, faults>>
    BY <1>5 DEF Apply, At, redisVars
  <2>2. /\ lastBeat' \in [Houses -> Times]
        /\ \A h \in Houses : lastBeat[h] <= lastBeat'[h] /\ lastBeat'[h] <= clock
        /\ reg[job[n].house] = job[n].id
        /\ job[n].recv <= lastBeat'[job[n].house]
    BY <1>1, <2>1, TouchEffect
  <2>3. /\ job'[n] \in Job
        /\ job' = [job EXCEPT ![n] = job'[n]]
        /\ job'[n].house = job[n].house /\ job'[n].id = job[n].id
        /\ job'[n].recv = job[n].recv
    BY <1>1, <2>1 DEF Go, TypeOK, Job
  <2>4. JobSound(n)'
    BY <1>1, <2>1, <2>2, <2>3 DEF JobSound
  <2>5. QED
    BY <1>1, <2>1, <2>2, <2>3, <2>4 DEF HandlerMoves
<1>6. CASE TouchMisses(n)
  <2>1. /\ job[n] # None /\ Go(n, "explain")
        /\ UNCHANGED <<lastBeat, status, members, shown, faults>>
    BY <1>6 DEF TouchMisses, At, redisVars
  <2>2. /\ job'[n] \in Job
        /\ job' = [job EXCEPT ![n] = job'[n]]
        /\ job'[n].at = "explain" /\ job'[n].recv = job[n].recv
    BY <1>1, <2>1 DEF Go, TypeOK, Job
  <2>3. JobSound(n)'
    BY <1>1, <2>1, <2>2 DEF JobSound
  <2>4. QED
    BY <1>1, <1>3, <2>1, <2>2, <2>3 DEF HandlerMoves
<1>7. CASE ExplainMismatch(n) \/ AssetConflict(n) \/ Interrupted(n)
  <2>1. /\ job[n] # None /\ (Retry(n) \/ Return(n))
        /\ UNCHANGED <<lastBeat, status, members, shown>>
        /\ Fault \/ UNCHANGED faults
    BY <1>7 DEF ExplainMismatch, AssetConflict, Interrupted, At, redisVars
  <2>2. faults' \in 0..MaxFaults
    BY <1>1, <2>1, FaultType
  <2>3. /\ job'[n] \in Job \cup {None}
        /\ job' = [job EXCEPT ![n] = job'[n]]
        /\ JobSound(n)'
    BY <1>1, <2>1, RetryEffect
  <2>4. QED
    BY <1>1, <1>3, <2>1, <2>2, <2>3 DEF HandlerMoves
<1>8. CASE ApplyError(n)
  <2>1. /\ job[n] # None /\ Retry(n) /\ Fault
        /\ TouchHouse(n) \/ UNCHANGED lastBeat
        /\ UNCHANGED <<status, members, shown>>
    BY <1>8 DEF ApplyError, At, redisVars
  <2>2. faults' \in 0..MaxFaults
    BY <1>1, <2>1, FaultType
  <2>3. /\ job'[n] \in Job \cup {None}
        /\ job' = [job EXCEPT ![n] = job'[n]]
        /\ JobSound(n)'
    BY <1>1, <2>1, RetryEffect
  <2>4. /\ lastBeat' \in [Houses -> Times]
        /\ \A h \in Houses : lastBeat[h] <= lastBeat'[h] /\ lastBeat'[h] <= clock
    BY <1>1, <1>3, <2>1, TouchEffect
  <2>5. QED
    BY <1>1, <2>1, <2>2, <2>3, <2>4 DEF HandlerMoves
<1>9. CASE WriteCache(n) \/ WriteCacheError(n)
  <2>1. /\ At(n, "cache") /\ job[n] # None /\ (Retry(n) \/ Return(n))
        /\ Fault \/ UNCHANGED faults
        /\ WriteStatus(n) \/ UNCHANGED <<status, members, shown>>
        /\ UNCHANGED lastBeat
    BY <1>9 DEF WriteCache, WriteCacheError, At, redisVars
  <2>2. faults' \in 0..MaxFaults
    BY <1>1, <2>1, FaultType
  <2>3. /\ job'[n] \in Job \cup {None}
        /\ job' = [job EXCEPT ![n] = job'[n]]
        /\ JobSound(n)'
    BY <1>1, <2>1, RetryEffect
  <2>4. QED
    BY <1>1, <1>3, <2>1, <2>2, <2>3 DEF HandlerMoves
<1>10. QED
  BY <1>4, <1>5, <1>6, <1>7, <1>8, <1>9 DEF HandlerStep

-----------------------------------------------------------------------------
(* redis-rebuild.                                                          *)

\* What a step of redis-rebuild leaves behind: Postgres and the jobs as they
\* were, a run counted, and Redis in agreement with Postgres.
RebuildMoves ==
  /\ UNCHANGED <<clock, reg, lastBeat, shown, job, faults>>
  /\ rb' \in Rebuild
  /\ page' \in SUBSET HouseRow
  /\ rebuilds' \in 0..MaxRebuilds /\ rebuilds' # MaxRebuilds
  /\ status' \in [Houses -> Status \cup {None}]
  /\ members' \in SUBSET (Houses \X Identities)
  /\ \A h \in Houses :
       \/ status'[h] = status[h]
       \/ reg[h] # None /\ status'[h].at <= lastBeat[h]
  /\ \A m \in members' : m \in members \/ reg[m[1]] = m[2]
  /\ RebuildInv'

\* Such a step preserves the invariant.
LEMMA RebuildMovesInv ==
  ASSUME IInv, RebuildMoves
  PROVE  IInv'
<1>1. /\ TypeOK /\ CacheNotAhead /\ MembersRegistered /\ ClockInv /\ JobInv
      /\ UNCHANGED <<clock, reg, lastBeat, shown, job, faults>>
  BY DEF IInv, RebuildMoves
<1>2. TypeOK'
  BY <1>1 DEF TypeOK, RebuildMoves
<1>3. Advances
  <2>1. clock \in Nat /\ \A h \in Houses : lastBeat[h] \in Nat
    BY <1>1, TimeTypes
  <2>2. QED
    BY <1>1, <2>1 DEF Advances
<1>4. CacheNotAhead' /\ MembersRegistered'
  <2>1. \A h \in Houses :
          \/ status'[h] \in {status[h], None}
          \/ reg'[h] # None /\ status'[h].at <= lastBeat'[h]
    BY <1>1 DEF RebuildMoves
  <2>2. \A m \in members' : m \in members \/ reg'[m[1]] = m[2]
    BY <1>1 DEF RebuildMoves
  <2>3. QED
    BY <1>1, <1>2, <1>3, <2>1, <2>2, CacheKept
<1>5. ClockInv' /\ JobInv'
  BY <1>1 DEF ClockInv, JobInv, JobSound
<1>6. ShownInv' /\ RebuildInv'
  BY DEF ShownInv, RebuildMoves
<1>7. QED
  BY <1>2, <1>4, <1>5, <1>6 DEF IInv

\* One row of the page: its membership and its status key are written, and
\* the key, if a second of the window is left, lasts for all but less than one
\* of it.
LEMMA RestoreEffect ==
  ASSUME TypeOK, rb.at = "write", rb.now <= clock, NEW x \in rb.rows, RowSound(x),
         clock' = clock,
         Restore(x) \/ (members' = members \cup {<<x.house, x.id>>} /\ UNCHANGED status)
  PROVE  /\ status' \in [Houses -> Status \cup {None}]
         /\ members' \in SUBSET (Houses \X Identities)
         /\ members' = members \cup {<<x.house, x.id>>}
         /\ \A h \in Houses \ {x.house} : status'[h] = status[h]
         /\ \A h \in Houses :
              \/ status'[h] = status[h]
              \/ reg[h] # None /\ status'[h].at <= lastBeat[h]
         /\ Restore(x) => Restored(x)'
<1>1. rb.now \in Times /\ x \in HouseRow
  BY DEF TypeOK, Rebuild
<1>2. /\ clock \in Nat /\ HeartbeatTTL \in Nat /\ rb.now \in Nat /\ Second \in Nat \ {0}
      /\ x.house \in Houses /\ x.id \in Identities /\ x.beat \in Nat
      /\ RestoredUntil(x) \in Int
  BY <1>1, TimeTypes DEF RestoredUntil
<1>3. x.beat \in Times /\ reg[x.house] = x.id /\ x.beat <= lastBeat[x.house] /\ x.id # None
  BY <1>1, <1>2, LivenessAssumption DEF HouseRow, RowSound, LivenessAssumption
<1>4. Remaining(x) \in Int /\ Remaining(x) = HeartbeatTTL - (rb.now - x.beat)
  BY <1>2 DEF Remaining
<1>5. CASE Restore(x) /\ Restorable(x)
  <2>1. UpdateHeartbeat(x.house, x.id, x.beat, Remaining(x))
    BY <1>5 DEF Restore
  <2>2. Remaining(x) >= Second /\ Remaining(x) \in Nat
    BY <1>2, <1>4, <1>5 DEF Restorable
  <2>3. /\ status' \in [Houses -> Status \cup {None}]
        /\ members' \in SUBSET (Houses \X Identities)
        /\ \A g \in Houses \ {x.house} : status'[g] = status[g]
        /\ status'[x.house] # None /\ status'[x.house].at <= x.beat
        /\ status'[x.house].ends = clock + WholeSeconds(Remaining(x))
        /\ members' = members \cup {<<x.house, x.id>>}
    BY <1>2, <1>3, <2>1, <2>2, UpdateEffect
  <2>4. WholeSeconds(Remaining(x)) \in Nat /\ WholeSeconds(Remaining(x)) + Second > Remaining(x)
    BY <2>2, WholeSecondsEffect
  <2>5. status'[x.house].ends >= RestoredUntil(x)
    BY <1>2, <1>4, <2>3, <2>4 DEF RestoredUntil
  <2>6. KeptFor(x.house, RestoredUntil(x))'
    BY <1>2, <2>3, <2>5, KeptForStep
  <2>7. Restored(x)'
    BY <2>3, <2>6 DEF Restored, RestoredUntil
  <2>8. status'[x.house].at <= lastBeat[x.house]
    <3>1. status'[x.house].at \in Nat /\ lastBeat[x.house] \in Nat
      BY <1>2, <2>3, TimeTypes DEF Status
    <3>2. QED
      BY <1>2, <1>3, <2>3, <3>1
  <2>9. QED
    BY <1>3, <2>3, <2>7, <2>8
<1>6. CASE ~(Restore(x) /\ Restorable(x))
  <2>1. members' = members \cup {<<x.house, x.id>>} /\ status' = status
    BY <1>6 DEF Restore
  <2>2. ASSUME Restore(x)
        PROVE  Restored(x)'
    <3>1. x.beat = 0 \/ ~(Remaining(x) >= Second)
      BY <1>6, <2>2 DEF Restorable
    <3>2. CASE x.beat = 0
      BY <2>1, <3>2 DEF Restored
    <3>3. CASE ~(Remaining(x) >= Second)
      <4>1. ~(clock < RestoredUntil(x))
        BY <1>2, <1>4, <3>3 DEF RestoredUntil
      <4>2. KeptFor(x.house, RestoredUntil(x))'
        BY <4>1 DEF KeptFor, RestoredUntil
      <4>3. QED
        BY <2>1, <4>2 DEF Restored, RestoredUntil
    <3>4. QED
      BY <3>1, <3>2, <3>3
  <2>3. QED
    BY <1>2, <2>1, <2>2 DEF TypeOK
<1>7. QED
  BY <1>5, <1>6

\* A run is under way or starts: the number of runs left is not the initial one.
LEMMA RebuildCounted ==
  ASSUME IInv, RebuildStep
  PROVE  rebuilds' \in 0..MaxRebuilds /\ rebuilds' # MaxRebuilds
<1>1. rebuilds \in 0..MaxRebuilds /\ MaxRebuilds \in Nat
  BY LivenessAssumption DEF IInv, TypeOK, LivenessAssumption
<1>2. CASE RebuildStart
  BY <1>1, <1>2 DEF RebuildStart
<1>3. CASE RebuildRead \/ RebuildHouse \/ RebuildDone \/ RebuildFails
  <2>1. rb.at # "idle" /\ rebuilds' = rebuilds
    BY <1>3 DEF RebuildRead, RebuildHouse, RebuildDone, RebuildFails
  <2>2. rebuilds # MaxRebuilds
    BY <2>1 DEF IInv, ShownInv
  <2>3. QED
    BY <1>1, <2>1, <2>2
<1>4. QED
  BY <1>2, <1>3 DEF RebuildStep

\* The next row is restored, and the rows done before stay so.
LEMMA RebuildHouseMoves ==
  ASSUME IInv, RebuildHouse
  PROVE  RebuildMoves
<1>1. /\ TypeOK /\ RebuildInv /\ rb.at = "write" /\ rb.now <= clock
      /\ UNCHANGED <<clock, reg, lastBeat, shown, job, faults, page>>
  BY DEF IInv, RebuildInv, RebuildHouse, RebuildFrame, pgVars
<1>2. PICK x \in rb.rows : Restore(x) /\ rb' = [rb EXCEPT !.rows = rb.rows \ {x}]
  BY DEF RebuildHouse
<1>3. rb \in [at : {"write"}, now : Times, rows : SUBSET HouseRow] /\ page \in SUBSET HouseRow
  BY <1>1 DEF TypeOK, Rebuild
<1>4. /\ rb' \in Rebuild /\ rb'.at = "write" /\ rb'.now = rb.now
      /\ rb'.rows = rb.rows \ {x}
  BY <1>2, <1>3 DEF Rebuild
<1>5. /\ status' \in [Houses -> Status \cup {None}]
      /\ members' \in SUBSET (Houses \X Identities)
      /\ members' = members \cup {<<x.house, x.id>>}
      /\ \A h \in Houses \ {x.house} : status'[h] = status[h]
      /\ \A h \in Houses :
           \/ status'[h] = status[h]
           \/ reg[h] # None /\ status'[h].at <= lastBeat[h]
      /\ Restored(x)'
  BY <1>1, <1>2, RestoreEffect DEF RebuildInv
<1>6. \A m \in members' : m \in members \/ reg[m[1]] = m[2]
  BY <1>1, <1>5 DEF RebuildInv, RowSound
<1>7. ASSUME NEW y \in page, y \notin rb'.rows
      PROVE  Restored(y)'
  <2>1. CASE y = x
    BY <1>5, <2>1
  <2>2. CASE y # x
    <3>1. x \in page /\ y.house # x.house /\ Restored(y)
      BY <1>1, <1>4, <1>7, <2>2 DEF RebuildInv
    <3>2. y.house \in Houses
      BY <1>1, <1>3, TimeTypes
    <3>3. status'[y.house] = status[y.house]
      BY <1>5, <3>1, <3>2
    <3>4. QED
      BY <1>1, <1>5, <3>1, <3>3 DEF Restored, RestoredUntil, KeptFor
  <2>3. QED
    BY <2>1, <2>2
<1>8. (\A y \in page : RowSound(y)') /\ \A y \in rb.rows : RowSound(y)'
  BY <1>1 DEF RebuildInv, RowSound
<1>9. RebuildInv'
  BY <1>1, <1>4, <1>7, <1>8 DEF RebuildInv
<1>10. rebuilds' \in 0..MaxRebuilds /\ rebuilds' # MaxRebuilds
  BY RebuildCounted DEF RebuildStep
<1>11. QED
  BY <1>1, <1>3, <1>4, <1>5, <1>6, <1>9, <1>10 DEF RebuildMoves

\* HousesPage: the rows of the registered houses, one for each.
LEMMA RebuildReadMoves ==
  ASSUME IInv, RebuildRead
  PROVE  RebuildMoves
<1>1. /\ TypeOK /\ RebuildInv /\ rb.at = "read" /\ rb.now <= clock
      /\ UNCHANGED <<clock, reg, lastBeat, shown, job, faults, status, members>>
  BY DEF IInv, RebuildInv, RebuildRead, RebuildFrame, pgVars
<1>2. /\ page' = {[house |-> h, id |-> reg[h], beat |-> lastBeat[h]] :
                     h \in {g \in Houses : reg[g] # None}}
      /\ rb' = [at |-> "write", now |-> rb.now, rows |-> page']
  BY DEF RebuildRead
<1>3. rb.now \in Times
  BY <1>1 DEF TypeOK, Rebuild
<1>4. ASSUME NEW x \in page'
      PROVE  /\ x \in HouseRow /\ reg[x.house] = x.id /\ x.beat = lastBeat[x.house]
  <2>1. PICK h \in Houses :
          reg[h] # None /\ x = [house |-> h, id |-> reg[h], beat |-> lastBeat[h]]
    BY <1>2
  <2>2. reg[h] \in Identities /\ lastBeat[h] \in Times
    BY <1>1, <2>1 DEF TypeOK
  <2>3. QED
    BY <2>1, <2>2 DEF HouseRow
<1>5. page' \in SUBSET HouseRow
  BY <1>4
<1>6. \A x, y \in page' : x.house = y.house => x = y
  BY <1>2
<1>7. PICK P \in SUBSET HouseRow : P = page'
  BY <1>5
<1>8. rb' \in Rebuild /\ rb'.at = "write" /\ rb'.now = rb.now /\ rb'.rows = page'
  BY <1>2, <1>3, <1>7 DEF Rebuild
<1>9. \A x \in page' : RowSound(x)'
  <2>1. \A x \in page' : lastBeat[x.house] \in Nat
    BY <1>1, <1>5, TimeTypes
  <2>2. QED
    BY <1>1, <1>4, <2>1 DEF RowSound
<1>10. RebuildInv'
  BY <1>1, <1>6, <1>8, <1>9 DEF RebuildInv
<1>11. rebuilds' \in 0..MaxRebuilds /\ rebuilds' # MaxRebuilds
  BY RebuildCounted DEF RebuildStep
<1>12. QED
  BY <1>1, <1>5, <1>8, <1>10, <1>11 DEF RebuildMoves, TypeOK

\* A run that starts, ends or fails.
LEMMA RebuildEndsMoves ==
  ASSUME IInv, RebuildStart \/ RebuildDone \/ RebuildFails
  PROVE  RebuildMoves
<1>1. /\ TypeOK /\ RebuildInv
      /\ UNCHANGED <<clock, reg, lastBeat, shown, job, faults>>
  BY DEF IInv, RebuildStart, RebuildDone, RebuildFails, RebuildFrame, pgVars
<1>2. rebuilds' \in 0..MaxRebuilds /\ rebuilds' # MaxRebuilds
  BY RebuildCounted DEF RebuildStep
<1>3. clock \in Nat /\ clock \in Times
  BY <1>1, TimeTypes
<1>4. CASE RebuildStart
  <2>1. /\ rb' = [at |-> "read", now |-> clock] /\ page' = {}
        /\ UNCHANGED <<status, members>>
    BY <1>4 DEF RebuildStart
  <2>2. rb' \in Rebuild /\ RebuildInv'
    BY <1>1, <1>3, <2>1 DEF Rebuild, RebuildInv
  <2>3. QED
    BY <1>1, <1>2, <2>1, <2>2 DEF RebuildMoves, TypeOK
<1>5. CASE RebuildDone
  <2>1. /\ rb.at = "write" /\ rb.rows = {} /\ rb' = [at |-> "idle"]
        /\ UNCHANGED <<page, status, members>>
    BY <1>5 DEF RebuildDone
  <2>2. \A x \in page : RowSound(x)' /\ Restored(x)'
    BY <1>1, <2>1 DEF RebuildInv, RowSound, Restored, RestoredUntil, KeptFor
  <2>3. rb' \in Rebuild /\ RebuildInv'
    BY <1>1, <2>1, <2>2 DEF Rebuild, RebuildInv
  <2>4. QED
    BY <1>1, <1>2, <2>1, <2>3 DEF RebuildMoves, TypeOK
<1>6. CASE RebuildFails
  <2>1. rb' = [at |-> "idle"] /\ page' = {}
    BY <1>6 DEF RebuildFails
  <2>2. rb' \in Rebuild /\ RebuildInv'
    BY <2>1 DEF Rebuild, RebuildInv
  <2>3. CASE UNCHANGED <<status, members>>
    BY <1>1, <1>2, <2>1, <2>2, <2>3 DEF RebuildMoves, TypeOK
  <2>4. CASE ~UNCHANGED <<status, members>>
    <3>1. PICK x \in rb.rows :
            /\ rb.at = "write"
            /\ \/ Restore(x)
               \/ members' = members \cup {<<x.house, x.id>>} /\ UNCHANGED status
      BY <1>6, <2>4 DEF RebuildFails
    <3>2. RowSound(x) /\ rb.now <= clock
      BY <1>1, <3>1 DEF RebuildInv
    <3>3. /\ status' \in [Houses -> Status \cup {None}]
          /\ members' \in SUBSET (Houses \X Identities)
          /\ members' = members \cup {<<x.house, x.id>>}
          /\ \A h \in Houses :
               \/ status'[h] = status[h]
               \/ reg[h] # None /\ status'[h].at <= lastBeat[h]
      BY <1>1, <3>1, <3>2, RestoreEffect
    <3>4. \A m \in members' : m \in members \/ reg[m[1]] = m[2]
      BY <3>2, <3>3 DEF RowSound
    <3>5. QED
      BY <1>1, <1>2, <2>1, <2>2, <3>3, <3>4 DEF RebuildMoves
  <2>5. QED
    BY <2>3, <2>4
<1>7. QED
  BY <1>4, <1>5, <1>6

-----------------------------------------------------------------------------
(* The specification.                                                      *)

\* No house is registered, and Redis is empty, at the start.
LEMMA InitInv ==
  ASSUME Init
  PROVE  IInv
<1>1. /\ MaxTime \in Nat /\ 1 \in 1..MaxTime /\ 0 \in Times
      /\ MaxFaults \in 0..MaxFaults /\ MaxRebuilds \in 0..MaxRebuilds
  BY LivenessAssumption DEF LivenessAssumption, Times
<1>2. TypeOK
  <2>1. rb \in Rebuild
    BY DEF Init, Rebuild
  <2>2. QED
    BY <1>1, <2>1 DEF Init, TypeOK
<1>3. CacheNotAhead /\ MembersRegistered /\ ClockInv /\ JobInv
  BY DEF Init, CacheNotAhead, MembersRegistered, ClockInv, JobInv, JobSound
<1>4. ShownInv /\ RebuildInv
  BY DEF Init, ShownInv, RebuildInv
<1>5. QED
  BY <1>2, <1>3, <1>4 DEF IInv

\* A stuttering step changes nothing.
LEMMA StutterInv ==
  ASSUME IInv, UNCHANGED vars
  PROVE  IInv'
<1>1. UNCHANGED <<clock, reg, lastBeat, status, members, shown, job, rb, page, rebuilds, faults>>
  BY DEF vars, pgVars, redisVars, rbVars
<1>2. TypeOK' /\ CacheNotAhead' /\ MembersRegistered' /\ ClockInv'
  BY <1>1 DEF IInv, TypeOK, CacheNotAhead, MembersRegistered, ClockInv
<1>3. JobInv' /\ ShownInv'
  BY <1>1 DEF IInv, JobInv, JobSound, ShownInv, KeptFor
<1>4. RebuildInv'
  BY <1>1 DEF IInv, RebuildInv, RowSound, Restored, RestoredUntil, KeptFor
<1>5. QED
  BY <1>2, <1>3, <1>4 DEF IInv

\* Every step preserves the invariant.
LEMMA NextInv ==
  ASSUME IInv, [Next]_vars
  PROVE  IInv'
<1>1. CASE Tick
  BY <1>1, TickInv
<1>2. CASE RedisLoss
  BY <1>2, RedisLossInv
<1>3. CASE \E h \in Houses, id \in Identities : RegisterHouse(h, id)
  BY <1>3, RegisterInv
<1>4. CASE \E n \in Handlers : HandlerStep(n)
  BY <1>4, HandlerNext, HandlerMovesInv
<1>5. CASE RebuildStep
  BY <1>5, RebuildHouseMoves, RebuildReadMoves, RebuildEndsMoves, RebuildMovesInv DEF RebuildStep
<1>6. CASE UNCHANGED vars
  BY <1>6, StutterInv
<1>7. QED
  BY <1>1, <1>2, <1>3, <1>4, <1>5, <1>6 DEF Next

\* Along every behaviour Redis agrees with the houses table, handlers write
\* the cache only after the database, and the rows redis-rebuild has done are
\* restored.
THEOREM InductiveInvariant == Spec => []IInv
<1>1. Init => IInv
  BY InitInv
<1>2. IInv /\ [Next]_vars => IInv'
  BY NextInv
<1>3. QED
  BY <1>1, <1>2, PTL DEF Spec

\* Redis never shows a heartbeat later than the last one in Postgres, nor a
\* house that is not registered with that identity, and every component keeps
\* its type.
THEOREM StatusSound == Spec => []StatusInv
<1>1. IInv => StatusInv
  BY DEF IInv, StatusInv
<1>2. QED
  BY <1>1, InductiveInvariant, PTL

\* A house whose heartbeat Redis accepted stays online for HeartbeatTTL after
\* receivedAt, as long as no rebuild was started.
THEOREM OnlineSound == Spec => []OnlineWhileAlive
<1>1. IInv => OnlineWhileAlive
  BY DEF IInv, ShownInv, KeptFor, OnlineWhileAlive
<1>2. QED
  BY <1>1, InductiveInvariant, PTL

\* A completed rebuild, on a Redis that lost nothing since the houses were
\* read, leaves every house a member of its grid and online until less than a
\* second before its window ends.
THEOREM RebuildSound == Spec => []RebuildRestoresAlive
<1>1. ASSUME IInv, rb.at = "idle", NEW x \in page
      PROVE  /\ <<x.house, x.id>> \in members
             /\ (x.beat # 0 /\ clock + Second <= x.beat + HeartbeatTTL) =>
                  status[x.house] # None
  <2>1. Restored(x)
    BY <1>1 DEF IInv, RebuildInv
  <2>2. x.beat \in Nat /\ clock \in Nat /\ HeartbeatTTL \in Nat /\ Second \in Nat
    BY <1>1, TimeTypes DEF IInv, TypeOK
  <2>3. clock + Second <= x.beat + HeartbeatTTL => clock < RestoredUntil(x)
    BY <2>2 DEF RestoredUntil
  <2>4. QED
    BY <2>1, <2>3 DEF Restored, KeptFor
<1>2. IInv => RebuildRestoresAlive
  BY <1>1 DEF RebuildRestoresAlive
<1>3. QED
  BY <1>2, InductiveInvariant, PTL

=============================================================================
