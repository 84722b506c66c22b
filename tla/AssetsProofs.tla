---------------------------- MODULE AssetsProofs ----------------------------
(***************************************************************************)
(* Proofs about HeartbeatAssets for any houses, assets, payloads and       *)
(* registrations, any number of transactions at the same time, any retry   *)
(* budget and any number of heartbeats and faults.                         *)
(***************************************************************************)
EXTENDS HeartbeatAssets, FiniteSetTheorems, TLAPS

\* What a transaction has read or will write: rows by their keys.
RowMap == UNION {[D -> Row] : D \in SUBSET Keys}

AssetEntry == [id : Assets, type : Types, caps : Caps]

Tx == [at : {"house", "select", "lock", "apply", "commit"}, house : Houses,
       assets : Payloads, recv : Nat, tries : 1..MaxTries, table : Tables,
       todo : Seq(Keys), found : RowMap, next : Nat, writes : RowMap]

\* The database, the transactions and the histories have their types.
StateTypes ==
  /\ clock \in Nat
  /\ store \in [Keys -> Row \cup {None}]
  /\ lastBeat \in [Houses -> Nat]
  /\ holder \in [Locks -> Handlers \cup {None}]
  /\ tx \in [Handlers -> Tx \cup {None}]
  /\ done \subseteq [house : Houses, assets : Payloads, recv : Nat]
  /\ latest \in [Keys -> Caps \cup {None}]
  /\ refused \subseteq [house : Houses, entry : AssetEntry]
  /\ beats \in 0..MaxBeats
  /\ faults \in 0..MaxFaults

\* n holds the house row once it has touched it, and what it read and writes.
Locked(n) ==
  /\ tx[n].at # "house" => holder[<<"house", tx[n].house>>] = n
  /\ \A k \in DOMAIN tx[n].found \cup DOMAIN tx[n].writes : holder[k] = n

\* What n has read is still so, and what it is about to lock exists.
Current(n) ==
  /\ \A k \in DOMAIN tx[n].found : store[k] = tx[n].found[k]
  /\ \A i \in DOMAIN tx[n].todo :
       store[tx[n].todo[i]] # None /\ tx[n].todo[i][1] = tx[n].table
  /\ tx[n].at = "lock" => tx[n].todo # <<>>

\* Registrations are looked for before the loop over the entries only, and the
\* loop ends with the last entry.
Phase(n) ==
  /\ tx[n].at \in {"house", "select"} =>
       tx[n].next = 1 /\ tx[n].writes = Nothing
  /\ tx[n].at = "lock" /\ tx[n].table = "registered" =>
       tx[n].next = 1 /\ tx[n].writes = Nothing
  /\ tx[n].at = "apply" => Loaded(n, tx[n].table, tx[n].found)
  /\ tx[n].at \in {"select", "lock", "apply"} =>
       tx[n].next \in 1..Len(tx[n].assets)
  /\ tx[n].at = "commit" => tx[n].next = Len(tx[n].assets) + 1

\* Row r says what entry e of a heartbeat of house h says.
Says(r, h, e) == r.house = h /\ r.type = e.type /\ r.caps = e.caps

\* The entries n is done with will be in the tables as they say.
EntriesDone(n) ==
  \A i \in 1..(tx[n].next - 1) :
    IF Reported(n, i) \in DOMAIN tx[n].writes
    THEN Says(tx[n].writes[Reported(n, i)], tx[n].house, tx[n].assets[i])
    ELSE /\ Reported(n, i) \in DOMAIN tx[n].found
         /\ Says(tx[n].found[Reported(n, i)], tx[n].house, tx[n].assets[i])

\* n writes only rows of its entries: those it found, keeping their identity,
\* or new observations.
WritesOwn(n) ==
  \A k \in DOMAIN tx[n].writes :
    /\ \E i \in 1..(tx[n].next - 1) : k = Reported(n, i)
    /\ IF k \in DOMAIN tx[n].found
       THEN /\ tx[n].writes[k].house = tx[n].found[k].house
            /\ tx[n].writes[k].type = tx[n].found[k].type
       ELSE store[k] = None /\ k[1] = "discovered"

TxSound(n) ==
  tx[n] # None =>
    /\ Locked(n)
    /\ Current(n)
    /\ Phase(n)
    /\ EntriesDone(n)
    /\ WritesOwn(n)

\* No attempt and no committed heartbeat is from the future.
ClockInv ==
  /\ clock >= 1
  /\ \A n \in Handlers : tx[n] # None => tx[n].recv <= clock
  /\ \A h \in Houses : lastBeat[h] <= clock

\* A row that was reported on exists.
LatestStored == \A k \in Keys : latest[k] # None => store[k] # None

\* The attempts the transactions in progress may still make.
Left == {a \in Handlers \X (1..MaxTries) : tx[a[1]] # None /\ tx[a[1]].tries < a[2]}

\* The retry budget: attempts made, those left, and all of those of the
\* heartbeats to come.
BudgetInv ==
  clock + Cardinality(Left) + beats * MaxTries <= 1 + MaxBeats * MaxTries

\* The inductive invariant.
IInv ==
  /\ StateTypes
  /\ \A n \in Handlers : TxSound(n)
  /\ ClockInv
  /\ LatestStored
  /\ BudgetInv
  /\ AppliedWhole
  /\ CapabilitiesCurrent
  /\ ConflictIsReal

-----------------------------------------------------------------------------
(* Keys, rows and payloads                                                 *)

\* Keys are pairs of a table and an asset.
LEMMA KeyFacts ==
  ASSUME NEW a \in Assets
  PROVE  /\ Reg(a) \in Keys /\ Reg(a)[1] = "registered" /\ Reg(a)[2] = a
         /\ Disc(a) \in Keys /\ Disc(a)[1] = "discovered" /\ Disc(a)[2] = a
BY DEF Reg, Disc, Keys, Tables

\* Keys are lockable, and no house row is one.
LEMMA LockFacts ==
  /\ Keys \subseteq Locks
  /\ \A h \in Houses : <<"house", h>> \in Locks /\ <<"house", h>> \notin Keys
BY DEF Locks, Keys, Tables

\* The values of a map are rows.
LEMMA RowMapFacts ==
  ASSUME NEW f \in RowMap
  PROVE  /\ DOMAIN f \in SUBSET Keys
         /\ \A k \in DOMAIN f : f[k] \in Row /\ f[k] # None
<1>1. PICK D \in SUBSET Keys : f \in [D -> Row]
  BY DEF RowMap
<1> QED BY <1>1, AssetsAssumption

\* The empty map.
LEMMA NothingFacts == Nothing \in RowMap /\ DOMAIN Nothing = {}
<1>1. Nothing \in [{} -> Row] /\ DOMAIN Nothing = {}
  BY DEF Nothing
<1> QED BY <1>1 DEF RowMap

\* Put changes one value of a map.
LEMMA PutFacts ==
  ASSUME NEW f \in RowMap, NEW k \in Keys, NEW r \in Row
  PROVE  /\ Put(f, k, r) \in RowMap
         /\ DOMAIN Put(f, k, r) = DOMAIN f \cup {k}
         /\ Put(f, k, r)[k] = r
         /\ \A y \in DOMAIN f : y # k => Put(f, k, r)[y] = f[y]
<1> DEFINE D == DOMAIN f \cup {k}
<1>1. D \in SUBSET Keys /\ \A y \in DOMAIN f : f[y] \in Row
  BY RowMapFacts
<1>2. /\ DOMAIN Put(f, k, r) = D
      /\ \A y \in D : Put(f, k, r)[y] = IF y = k THEN r ELSE f[y]
  BY DEF Put
<1>3. Put(f, k, r) \in [D -> Row]
  BY <1>1 DEF Put
<1> QED BY <1>1, <1>2, <1>3 DEF RowMap

\* A payload is a sequence of entries with different assets.
LEMMA PayloadFacts ==
  ASSUME NEW p \in Payloads
  PROVE  /\ p \in Seq(AssetEntry) /\ Len(p) \in Nat /\ DOMAIN p = 1..Len(p)
         /\ \A i \in DOMAIN p : p[i] \in AssetEntry
         /\ \A i \in DOMAIN p : p[i].id \in Assets /\ p[i].type \in Types
                               /\ p[i].caps \in Caps
         /\ \A i, j \in DOMAIN p : p[i].id = p[j].id => i = j
<1>1. /\ p \in Seq(AssetEntry)
      /\ \A i, j \in DOMAIN p : p[i].id = p[j].id => i = j
  BY AssetsAssumption DEF AssetEntry
<1>2. \A i \in DOMAIN p : p[i] \in AssetEntry
  BY <1>1
<1>3. Len(p) \in Nat /\ DOMAIN p = 1..Len(p)
  BY <1>1
<1> QED BY <1>1, <1>2, <1>3 DEF AssetEntry

\* The first element of a sequence and the others.
LEMMA TailFacts ==
  ASSUME NEW S, NEW s \in Seq(S), s # <<>>
  PROVE  /\ Head(s) = s[1] /\ Head(s) \in S /\ 1 \in DOMAIN s
         /\ Tail(s) \in Seq(S)
         /\ \A i \in DOMAIN Tail(s) : i + 1 \in DOMAIN s /\ Tail(s)[i] = s[i + 1]
         /\ Len(s) > 1 => Tail(s) # <<>>
<1>1. Len(s) \in Nat /\ Len(s) # 0 /\ DOMAIN s = 1..Len(s)
  OBVIOUS
<1>2. Head(s) = s[1] /\ 1 \in DOMAIN s /\ s[1] \in S
  BY <1>1
<1>3. Tail(s) \in Seq(S) /\ Len(Tail(s)) = Len(s) - 1
  BY <1>1
<1>4. DOMAIN Tail(s) = 1..(Len(s) - 1)
  BY <1>1, <1>3
<1>5. \A i \in 1..(Len(s) - 1) : Tail(s)[i] = s[i + 1]
  BY <1>1
<1>6. Len(s) > 1 => Tail(s) # <<>>
  <2>1. Len(<<>>) = 0
    OBVIOUS
  <2>2. Len(s) > 1 => Len(Tail(s)) # 0
    BY <1>1, <1>3
  <2> QED BY <2>1, <2>2
<1> QED BY <1>1, <1>2, <1>3, <1>4, <1>5, <1>6

\* The fields of a transaction.
LEMMA TxFacts ==
  ASSUME StateTypes, NEW n \in Handlers, tx[n] # None
  PROVE  /\ tx[n] \in Tx
         /\ tx[n].house \in Houses /\ tx[n].assets \in Payloads
         /\ tx[n].recv \in Nat /\ tx[n].tries \in 1..MaxTries
         /\ tx[n].found \in RowMap /\ tx[n].writes \in RowMap
         /\ tx[n].todo \in Seq(Keys) /\ tx[n].next \in Nat /\ tx[n].table \in Tables
         /\ DOMAIN tx[n].found \in SUBSET Keys /\ DOMAIN tx[n].writes \in SUBSET Keys
<1>1. tx[n] \in Tx
  BY DEF StateTypes
<1>2. tx[n].found \in RowMap /\ tx[n].writes \in RowMap
  BY <1>1 DEF Tx
<1>3. DOMAIN tx[n].found \in SUBSET Keys /\ DOMAIN tx[n].writes \in SUBSET Keys
  BY <1>2, RowMapFacts
<1> QED BY <1>1, <1>2, <1>3 DEF Tx

\* Different entries report on different rows, and a row names its asset.
LEMMA ReportedFacts ==
  ASSUME StateTypes, NEW n \in Handlers, tx[n] # None
  PROVE  /\ \A i \in DOMAIN tx[n].assets :
              /\ Reported(n, i) \in Keys
              /\ Reported(n, i)[2] = tx[n].assets[i].id
              /\ Reported(n, i) \in {Reg(tx[n].assets[i].id), Disc(tx[n].assets[i].id)}
         /\ \A i, j \in DOMAIN tx[n].assets : Reported(n, i) = Reported(n, j) => i = j
<1>1. \A i \in DOMAIN tx[n].assets : tx[n].assets[i].id \in Assets
  BY TxFacts, PayloadFacts
<1>2. \A i \in DOMAIN tx[n].assets :
         /\ Reported(n, i) \in Keys
         /\ Reported(n, i)[2] = tx[n].assets[i].id
         /\ Reported(n, i) \in {Reg(tx[n].assets[i].id), Disc(tx[n].assets[i].id)}
  BY <1>1, KeyFacts DEF Reported
<1>3. \A i, j \in DOMAIN tx[n].assets :
         tx[n].assets[i].id = tx[n].assets[j].id => i = j
  BY TxFacts, PayloadFacts
<1> QED BY <1>2, <1>3

-----------------------------------------------------------------------------
(* The retry budget                                                        *)

\* The attempts left are finitely many.
LEMMA LeftFinite ==
  ASSUME NEW S \in SUBSET (Handlers \X (1..MaxTries))
  PROVE  IsFiniteSet(S) /\ Cardinality(S) \in Nat
<1>1. IsFiniteSet(Handlers) /\ IsFiniteSet(1..MaxTries)
  BY AssetsAssumption, FS_Interval
<1>2. IsFiniteSet(Handlers \X (1..MaxTries))
  BY <1>1, FS_Product
<1> QED BY <1>2, FS_Subset, FS_CardinalityType

\* A step that makes no attempt and leaves no more of them.
LEMMA BudgetKept ==
  ASSUME StateTypes, BudgetInv, UNCHANGED <<clock, beats>>, Left' \subseteq Left
  PROVE  BudgetInv'
<1>1. Left \in SUBSET (Handlers \X (1..MaxTries))
  BY DEF Left
<1>2. IsFiniteSet(Left) /\ Cardinality(Left) \in Nat
  BY <1>1, LeftFinite
<1>3. Cardinality(Left') <= Cardinality(Left) /\ Cardinality(Left') \in Nat
  BY <1>1, <1>2, LeftFinite, FS_Subset
<1>4. clock \in Nat /\ beats * MaxTries \in Int /\ MaxBeats * MaxTries \in Int
  BY AssetsAssumption DEF StateTypes
<1> DEFINE x == beats * MaxTries
           y == MaxBeats * MaxTries
<1>5. clock + Cardinality(Left) + x <= 1 + y
  BY DEF BudgetInv
<1>6. x' = x /\ y' = y
  OBVIOUS
<1> HIDE DEF x, y
<1>7. clock + Cardinality(Left') + x <= 1 + y
  BY <1>2, <1>3, <1>4, <1>5 DEF x, y
<1> QED BY <1>6, <1>7 DEF BudgetInv, x, y

\* A heartbeat that is delivered brings its attempts, the first of which is made.
LEMMA BudgetDelivered ==
  ASSUME StateTypes, BudgetInv, NEW n \in Handlers, clock' = clock + 1,
         beats > 0, beats' = beats - 1,
         Left' \subseteq Left \cup ({n} \X (2..MaxTries))
  PROVE  BudgetInv'
<1> DEFINE N == {n} \X (2..MaxTries)
<1>1. Left \in SUBSET (Handlers \X (1..MaxTries)) /\ N \in SUBSET (Handlers \X (1..MaxTries))
  BY AssetsAssumption DEF Left
<1>2. IsFiniteSet(Left) /\ Cardinality(Left) \in Nat /\ IsFiniteSet(N)
  BY <1>1, LeftFinite
<1>3. Cardinality(N) = MaxTries - 1
  <2>1. IsFiniteSet({n}) /\ Cardinality({n}) = 1
    BY FS_Singleton
  <2>2. IsFiniteSet(2..MaxTries) /\ Cardinality(2..MaxTries) = MaxTries - 1
    BY AssetsAssumption, FS_Interval
  <2>3. Cardinality(N) = Cardinality({n}) * Cardinality(2..MaxTries)
    BY <2>1, <2>2, FS_Product
  <2> HIDE DEF N
  <2> QED BY <2>1, <2>2, <2>3, AssetsAssumption
<1> HIDE DEF N
<1>4. /\ IsFiniteSet(Left \cup N) /\ Cardinality(Left \cap N) \in Nat
      /\ Cardinality(Left \cup N) =
           Cardinality(Left) + Cardinality(N) - Cardinality(Left \cap N)
  <2>1. Left \cap N \in SUBSET (Handlers \X (1..MaxTries))
    BY <1>1
  <2> QED BY <1>2, <2>1, LeftFinite, FS_Union
<1>5. Left' \in SUBSET (Left \cup N)
  BY DEF N
<1>6. Cardinality(Left') <= Cardinality(Left \cup N) /\ Cardinality(Left') \in Nat
  BY <1>4, <1>5, FS_Subset, FS_CardinalityType
<1>7. MaxTries \in Nat /\ MaxBeats \in Nat /\ beats \in Nat /\ clock \in Nat
  BY AssetsAssumption DEF StateTypes
<1>8. (beats - 1) * MaxTries = beats * MaxTries - MaxTries
      /\ beats * MaxTries \in Int /\ MaxBeats * MaxTries \in Int
  BY <1>7
<1> DEFINE x == beats * MaxTries
           y == MaxBeats * MaxTries
<1>9. clock + Cardinality(Left) + x <= 1 + y
  BY DEF BudgetInv
<1>10. beats' * MaxTries = x - MaxTries /\ x \in Int /\ y \in Int
  BY <1>8
<1>11. y' = y
  OBVIOUS
<1> HIDE DEF x, y
<1>12. (clock + 1) + Cardinality(Left') + (x - MaxTries) <= 1 + y
  BY <1>2, <1>3, <1>4, <1>6, <1>7, <1>9, <1>10
<1> QED BY <1>10, <1>11, <1>12 DEF BudgetInv, y

\* A retry uses one attempt up.
LEMMA BudgetRetried ==
  ASSUME StateTypes, BudgetInv, clock' = clock + 1, beats' = beats,
         NEW a \in Left, Left' \subseteq Left \ {a}
  PROVE  BudgetInv'
<1>1. Left \in SUBSET (Handlers \X (1..MaxTries))
  BY DEF Left
<1>2. IsFiniteSet(Left) /\ Cardinality(Left) \in Nat
  BY <1>1, LeftFinite
<1>3. IsFiniteSet(Left \ {a}) /\ Cardinality(Left \ {a}) = Cardinality(Left) - 1
  BY <1>2, FS_RemoveElement
<1>4. Cardinality(Left') <= Cardinality(Left \ {a}) /\ Cardinality(Left') \in Nat
  BY <1>3, FS_Subset, FS_CardinalityType
<1>5. clock \in Nat /\ beats * MaxTries \in Int /\ MaxBeats * MaxTries \in Int
  BY AssetsAssumption DEF StateTypes
<1> DEFINE x == beats * MaxTries
           y == MaxBeats * MaxTries
<1>6. clock + Cardinality(Left) + x <= 1 + y /\ x \in Int /\ y \in Int
  BY <1>5 DEF BudgetInv
<1>7. x' = x /\ y' = y
  OBVIOUS
<1> HIDE DEF x, y
<1>8. (clock + 1) + Cardinality(Left') + x <= 1 + y
  BY <1>2, <1>3, <1>4, <1>5, <1>6
<1> QED BY <1>7, <1>8 DEF BudgetInv, x, y

-----------------------------------------------------------------------------
(* Attempts begin and end                                                  *)

\* An attempt begins with nothing read, locked or written.
LEMMA AttemptFacts ==
  ASSUME StateTypes, NEW n \in Handlers, NEW h \in Houses, NEW p \in Payloads,
         NEW c \in 1..MaxTries, Attempt(n, h, p, c)
  PROVE  /\ clock' = clock + 1
         /\ tx' \in [Handlers -> Tx \cup {None}]
         /\ \A m \in Handlers : m # n => tx'[m] = tx[m]
         /\ tx'[n].tries = c /\ tx'[n].recv = clock'
         /\ TxSound(n)'
<1> DEFINE t == [at |-> "house", house |-> h, assets |-> p, recv |-> clock + 1,
                 tries |-> c, table |-> "registered", todo |-> <<>>,
                 found |-> Nothing, next |-> 1, writes |-> Nothing]
<1>1. t \in Tx
  <2>1. <<>> \in Seq(Keys) /\ "registered" \in Tables /\ clock + 1 \in Nat
    BY DEF Tables, StateTypes
  <2> QED BY <2>1, NothingFacts DEF Tx
<1>2. tx \in [Handlers -> Tx \cup {None}] /\ tx' = [tx EXCEPT ![n] = t]
  BY DEF StateTypes, Attempt
<1>3. tx'[n] = t /\ \A m \in Handlers : m # n => tx'[m] = tx[m]
  BY <1>2
<1>4. /\ t.at = "house" /\ t.found = Nothing /\ t.writes = Nothing /\ t.next = 1
      /\ t.todo = <<>> /\ t.tries = c /\ t.recv = clock + 1
  OBVIOUS
<1> HIDE DEF t
<1>5. DOMAIN t.found = {} /\ DOMAIN t.writes = {} /\ DOMAIN t.todo = {}
  BY <1>4, NothingFacts
<1>6. Locked(n)' /\ Current(n)' /\ Phase(n)' /\ WritesOwn(n)'
  BY <1>3, <1>4, <1>5 DEF Locked, Current, Phase, WritesOwn
<1>7. EntriesDone(n)'
  BY <1>3, <1>4 DEF EntriesDone
<1> QED BY <1>1, <1>2, <1>3, <1>4, <1>6, <1>7 DEF TxSound, Attempt

\* At the end of an attempt the handler returns or begins another one.
LEMMA EndFacts ==
  ASSUME StateTypes, BudgetInv, NEW n \in Handlers, tx[n] # None,
         Return(n) \/ Retry(n), beats' = beats
  PROVE  /\ clock' \in Nat /\ clock <= clock'
         /\ tx' \in [Handlers -> Tx \cup {None}]
         /\ \A m \in Handlers : m # n => tx'[m] = tx[m]
         /\ tx'[n] # None => tx'[n].recv <= clock'
         /\ TxSound(n)'
         /\ BudgetInv'
<1>0. clock \in Nat /\ tx \in [Handlers -> Tx \cup {None}] /\ tx[n].tries \in 1..MaxTries
  BY TxFacts DEF StateTypes
<1>1. CASE Return(n)
  <2>1. tx'[n] = None /\ \A m \in Handlers : m # n => tx'[m] = tx[m]
    BY <1>0, <1>1 DEF Return
  <2>2. Left' \subseteq Left
    BY <2>1 DEF Left
  <2>3. BudgetInv'
    BY <1>1, <2>2, BudgetKept DEF Return
  <2> QED BY <1>0, <1>1, <2>1, <2>3 DEF Return, TxSound
<1>2. CASE ~Return(n)
  <2>1. tx[n].tries < MaxTries /\ Attempt(n, tx[n].house, tx[n].assets, tx[n].tries + 1)
    BY <1>2 DEF Retry
  <2>2. tx[n].tries + 1 \in 1..MaxTries
    BY <1>0, <2>1, AssetsAssumption
  <2>3. /\ clock' = clock + 1
        /\ tx' \in [Handlers -> Tx \cup {None}]
        /\ \A m \in Handlers : m # n => tx'[m] = tx[m]
        /\ tx'[n].tries = tx[n].tries + 1 /\ tx'[n].recv = clock'
        /\ TxSound(n)'
    BY <2>1, <2>2, TxFacts, AttemptFacts
  <2> DEFINE a == <<n, tx[n].tries + 1>>
  <2>4. a \in Left
    BY <1>0, <2>2 DEF Left
  <2>5. Left' \subseteq Left \ {a}
    <3>1. ASSUME NEW b \in Left' PROVE b \in Left /\ b # a
      <4>1. /\ b \in Handlers \X (1..MaxTries) /\ b[1] \in Handlers /\ b[2] \in Nat
            /\ tx'[b[1]] # None /\ tx'[b[1]].tries < b[2]
        BY <3>1, AssetsAssumption DEF Left
      <4>2. CASE b[1] # n
        BY <2>3, <4>1, <4>2 DEF Left
      <4>3. CASE b[1] = n
        <5>1. tx[n].tries + 1 < b[2] /\ tx[n].tries \in Nat
          BY <1>0, <2>3, <4>1, <4>3, AssetsAssumption
        <5>2. tx[n].tries < b[2]
          BY <4>1, <5>1
        <5> QED BY <4>1, <4>3, <5>1, <5>2 DEF Left
      <4> QED BY <4>2, <4>3
    <3> QED BY <3>1
  <2>6. BudgetInv'
    <3> HIDE DEF a
    <3> QED BY <2>3, <2>4, <2>5, BudgetRetried
  <2> QED BY <1>0, <2>3, <2>6
<1> QED BY <1>1, <1>2

-----------------------------------------------------------------------------
(* What the others see                                                     *)

\* A transaction that takes no step is not disturbed, as long as it keeps its
\* locks, what it holds does not change and no row disappears.
LEMMA Undisturbed ==
  ASSUME StateTypes, NEW m \in Handlers, TxSound(m), tx'[m] = tx[m],
         \A l \in Locks : holder[l] = m => holder'[l] = m,
         \A k \in Keys : store[k] # None => store'[k] # None,
         \A k \in Keys : holder[k] = m /\ (store[k] # None \/ k[1] = "discovered")
                          => store'[k] = store[k]
  PROVE  TxSound(m)'
<1> SUFFICES ASSUME tx[m] # None PROVE TxSound(m)'
  BY DEF TxSound
<1>1. Locked(m) /\ Current(m) /\ Phase(m) /\ EntriesDone(m) /\ WritesOwn(m)
  BY DEF TxSound
<1>2. /\ tx[m].house \in Houses /\ tx[m].todo \in Seq(Keys)
      /\ tx[m].found \in RowMap
      /\ DOMAIN tx[m].found \in SUBSET Keys /\ DOMAIN tx[m].writes \in SUBSET Keys
  BY TxFacts
<1>3. \A k \in DOMAIN tx[m].found : tx[m].found[k] # None
  BY <1>2, RowMapFacts
<1>4. Locked(m)'
  BY <1>1, <1>2, LockFacts DEF Locked
<1>5. Current(m)'
  <2>1. \A k \in DOMAIN tx[m].found : store'[k] = tx[m].found[k]
    BY <1>1, <1>2, <1>3 DEF Locked, Current
  <2>2. \A i \in DOMAIN tx[m].todo : tx[m].todo[i] \in Keys
    BY <1>2
  <2>3. \A i \in DOMAIN tx[m].todo : store'[tx[m].todo[i]] # None
    BY <1>1, <2>2 DEF Current
  <2> QED BY <1>1, <2>1, <2>3 DEF Current
<1>6. Phase(m)'
  BY <1>1 DEF Phase, Loaded
<1>7. EntriesDone(m)'
  BY <1>1 DEF EntriesDone, Reported
<1>8. WritesOwn(m)'
  <2>1. \A i \in 1..(tx[m].next - 1) : Reported(m, i)' = Reported(m, i)
    BY DEF Reported
  <2>2. \A k \in DOMAIN tx[m].writes : holder[k] = m /\ k \in Keys
    BY <1>1, <1>2 DEF Locked
  <2>3. \A k \in DOMAIN tx[m].writes :
          k \notin DOMAIN tx[m].found => store'[k] = None
    BY <1>1, <2>2 DEF WritesOwn
  <2> QED BY <1>1, <2>1, <2>3 DEF WritesOwn
<1> QED BY <1>4, <1>5, <1>6, <1>7, <1>8 DEF TxSound

-----------------------------------------------------------------------------
(* Statements inside a transaction                                         *)

\* Transaction n takes at most locks that are free and goes on, soundly.
TxMoves(n) ==
  /\ tx[n] # None
  /\ StepFrame
  /\ holder' \in [Locks -> Handlers \cup {None}]
  /\ \A l \in Locks : holder'[l] = holder[l] \/ holder[l] \in {None, n}
  /\ \E t \in Tx : /\ tx' = [tx EXCEPT ![n] = t]
                   /\ t.recv = tx[n].recv /\ t.tries = tx[n].tries
  /\ TxSound(n)'

\* Such a step keeps the invariant.
LEMMA TxMovesInv ==
  ASSUME IInv, NEW n \in Handlers, TxMoves(n)
  PROVE  IInv'
<1> USE DEF StepFrame, histVars
<1>1. PICK t \in Tx : /\ tx' = [tx EXCEPT ![n] = t]
                      /\ t.recv = tx[n].recv /\ t.tries = tx[n].tries
  BY DEF TxMoves
<1>2. /\ StateTypes /\ tx \in [Handlers -> Tx \cup {None}] /\ tx[n] # None
      /\ UNCHANGED <<clock, store, lastBeat, done, latest, refused, beats, faults>>
  BY DEF IInv, StateTypes, TxMoves
<1>3. tx'[n] = t /\ \A m \in Handlers : m # n => tx'[m] = tx[m]
  BY <1>1, <1>2
<1>4. StateTypes'
  <2>1. tx' \in [Handlers -> Tx \cup {None}] /\ holder' \in [Locks -> Handlers \cup {None}]
    BY <1>1, <1>2 DEF TxMoves
  <2> QED BY <1>2, <2>1 DEF StateTypes
<1>5. \A m \in Handlers : TxSound(m)'
  <2>1. ASSUME NEW m \in Handlers, m # n PROVE TxSound(m)'
    <3>1. \A l \in Locks : holder[l] = m => holder'[l] = m
      BY <2>1, AssetsAssumption DEF TxMoves
    <3> QED BY <1>2, <1>3, <2>1, <3>1, Undisturbed DEF IInv
  <2> QED BY <2>1 DEF TxMoves
<1>6. ClockInv'
  BY <1>1, <1>2, <1>3 DEF IInv, ClockInv
<1>7. LatestStored' /\ AppliedWhole' /\ CapabilitiesCurrent' /\ ConflictIsReal'
  BY <1>2 DEF IInv, LatestStored, AppliedWhole, CapabilitiesCurrent, ConflictIsReal
<1>8. BudgetInv'
  <2>1. Left' \subseteq Left
    BY <1>1, <1>2, <1>3 DEF Left
  <2> QED BY <1>2, <2>1, BudgetKept DEF IInv
<1> QED BY <1>4, <1>5, <1>6, <1>7, <1>8 DEF IInv

\* What the invariant says of n while it runs.
LEMMA TxSoundFacts ==
  ASSUME IInv, NEW n \in Handlers, tx[n] # None
  PROVE  /\ StateTypes /\ tx \in [Handlers -> Tx \cup {None}]
         /\ holder \in [Locks -> Handlers \cup {None}]
         /\ Locked(n) /\ Current(n) /\ Phase(n) /\ EntriesDone(n) /\ WritesOwn(n)
BY DEF IInv, StateTypes, TxSound

\* What the statements wait for.
LEMMA WantsFacts ==
  ASSUME NEW n \in Handlers, tx[n] # None
  PROVE  /\ tx[n].at = "house" => Wants(n) = <<"house", tx[n].house>>
         /\ tx[n].at = "lock" => Wants(n) = Head(tx[n].todo)
         /\ Inserts(n) /\ Wants(n) # None =>
              Wants(n) = Disc(Entry(n).id) /\ store[Disc(Entry(n).id)] = None
<1>1. CASE tx[n].at = "house"
  BY <1>1 DEF Wants, At, Inserts
<1>2. CASE tx[n].at = "lock"
  BY <1>2 DEF Wants, At, Inserts
<1>3. CASE Inserts(n)
  <2>1. tx[n].at = "apply"
    BY <1>3 DEF Inserts, At
  <2> QED BY <1>3, <2>1 DEF Wants, At
<1> QED BY <1>1, <1>2, <1>3 DEF Inserts, At

\* A lock that is granted was free or held by n, and is taken.
LEMMA AcquireFacts ==
  ASSUME IInv, NEW n \in Handlers, Granted(n), Acquire(n), Wants(n) \in Locks
  PROVE  /\ holder' \in [Locks -> Handlers \cup {None}]
         /\ holder'[Wants(n)] = n
         /\ \A l \in Locks : holder'[l] = holder[l] \/ holder[l] \in {None, n}
         /\ \A l \in Locks : holder[l] = n => holder'[l] = n
<1>1. holder \in [Locks -> Handlers \cup {None}]
  BY DEF IInv, StateTypes
<1>2. holder[Wants(n)] \in {None, n} /\ holder' = [holder EXCEPT ![Wants(n)] = n]
  BY DEF Granted, Blocked, Acquire
<1> QED BY <1>1, <1>2

\* The house row is touched.
LEMMA TouchHouseInv ==
  ASSUME IInv, NEW n \in Handlers, TouchHouse(n)
  PROVE  IInv'
<1>1. tx[n] # None /\ tx[n].at = "house"
  BY DEF TouchHouse, At
<1>2. /\ StateTypes /\ tx \in [Handlers -> Tx \cup {None}]
      /\ Locked(n) /\ Current(n) /\ Phase(n) /\ EntriesDone(n) /\ WritesOwn(n)
  BY <1>1, TxSoundFacts
<1>3. tx[n] \in Tx /\ tx[n].house \in Houses /\ tx[n].assets \in Payloads
  BY <1>1, <1>2, TxFacts
<1>4. Wants(n) = <<"house", tx[n].house>> /\ Wants(n) \in Locks
  BY <1>1, <1>3, LockFacts, WantsFacts
<1>5. /\ holder' \in [Locks -> Handlers \cup {None}]
      /\ holder'[<<"house", tx[n].house>>] = n
      /\ \A l \in Locks : holder'[l] = holder[l] \/ holder[l] \in {None, n}
      /\ \A l \in Locks : holder[l] = n => holder'[l] = n
  BY <1>4, AcquireFacts DEF TouchHouse
<1> DEFINE c == IF tx[n].assets = <<>> THEN "commit" ELSE "select"
           t == [tx[n] EXCEPT !.at = c]
<1>6. tx' = [tx EXCEPT ![n] = t]
  BY <1>2 DEF TouchHouse, Goto
<1>7. /\ t \in Tx /\ t.at = c /\ t.house = tx[n].house /\ t.assets = tx[n].assets
      /\ t.recv = tx[n].recv /\ t.tries = tx[n].tries /\ t.todo = tx[n].todo
      /\ t.table = tx[n].table
      /\ t.found = tx[n].found /\ t.writes = tx[n].writes /\ t.next = tx[n].next
  BY <1>3 DEF Tx
<1>8. tx'[n] = t /\ store' = store
  BY <1>2, <1>6 DEF TouchHouse, StepFrame
<1>9. c = "commit" => tx[n].next = Len(tx[n].assets) + 1
  BY <1>1, <1>2 DEF Phase
<1>10. c = "select" => tx[n].next \in 1..Len(tx[n].assets)
  <2>1. tx[n].next = 1
    BY <1>1, <1>2 DEF Phase
  <2>2. c = "select" => Len(tx[n].assets) >= 1 /\ Len(tx[n].assets) \in Nat
    BY <1>3, PayloadFacts
  <2> QED BY <2>1, <2>2
<1>11. c \in {"commit", "select"}
  OBVIOUS
<1> HIDE DEF t, c
<1>12. Locked(n)'
  <2>1. DOMAIN tx[n].found \in SUBSET Keys /\ DOMAIN tx[n].writes \in SUBSET Keys
    BY <1>1, <1>2, TxFacts
  <2> QED BY <1>2, <1>5, <1>7, <1>8, <2>1, LockFacts DEF Locked
<1>13. Current(n)'
  BY <1>2, <1>7, <1>8, <1>11 DEF Current
<1>14. Phase(n)'
  BY <1>1, <1>2, <1>7, <1>8, <1>9, <1>10, <1>11 DEF Phase
<1>15. EntriesDone(n)' /\ WritesOwn(n)'
  BY <1>2, <1>7, <1>8 DEF EntriesDone, WritesOwn, Reported
<1>16. TxMoves(n)
  BY <1>1, <1>5, <1>6, <1>7, <1>12, <1>13, <1>14, <1>15 DEF TxMoves, TxSound, TouchHouse
<1> QED BY <1>16, TxMovesInv

\* Transaction n reads on: it knows more rows, of the table it is reading, as
\* they are, and goes on to lock, to apply or to the second table.
LEMMA ReadsOn ==
  ASSUME IInv, NEW n \in Handlers, tx[n] # None, tx[n].at # "house",
         tx[n].table = "discovered" \/ (tx[n].next = 1 /\ tx[n].writes = Nothing),
         tx[n].next \in 1..Len(tx[n].assets),
         store' = store, \A l \in Locks : holder[l] = n => holder'[l] = n,
         NEW t \in Tx, tx'[n] = t,
         t.house = tx[n].house, t.assets = tx[n].assets, t.next = tx[n].next,
         t.writes = tx[n].writes,
         DOMAIN tx[n].found \subseteq DOMAIN t.found,
         \A k \in DOMAIN tx[n].found : t.found[k] = tx[n].found[k],
         \A k \in DOMAIN t.found : store[k] = t.found[k] /\ holder'[k] = n,
         \A k \in DOMAIN t.found : k \in DOMAIN tx[n].found \/ k[1] = tx[n].table,
         \A i \in DOMAIN t.todo : store[t.todo[i]] # None /\ t.todo[i][1] = t.table,
         \/ t.at = "lock" /\ t.table = tx[n].table /\ t.todo # <<>>
         \/ t.at = "apply" /\ t.table = tx[n].table /\ Loaded(n, tx[n].table, t.found)
         \/ t.at = "select" /\ t.table = "discovered" /\ tx[n].table = "registered"
  PROVE  TxSound(n)'
<1>1. /\ StateTypes /\ Locked(n) /\ Current(n) /\ Phase(n)
      /\ EntriesDone(n) /\ WritesOwn(n)
  BY TxSoundFacts
<1>2. /\ DOMAIN tx[n].found \in SUBSET Keys /\ DOMAIN tx[n].writes \in SUBSET Keys
      /\ tx[n].house \in Houses /\ tx[n].assets \in Payloads
      /\ t.found \in RowMap
  BY <1>1, TxFacts DEF Tx
<1>3. \A k \in DOMAIN t.found : store[k] # None
  BY <1>2, RowMapFacts
<1>4. Locked(n)'
  BY <1>1, <1>2, LockFacts DEF Locked
<1>5. Current(n)'
  BY DEF Current
<1>6. Phase(n)'
  <2>1. Loaded(n, t.table, t.found)' <=> Loaded(n, t.table, t.found)
    BY DEF Loaded
  <2>2. t.at = "apply" => Loaded(n, t.table, t.found)
    OBVIOUS
  <2>3. t.at \in {"lock", "apply", "select"}
    OBVIOUS
  <2>4. t.at = "select" => t.next = 1 /\ t.writes = Nothing
    OBVIOUS
  <2>5. t.at = "lock" /\ t.table = "registered" => t.next = 1 /\ t.writes = Nothing
    OBVIOUS
  <2> QED BY <2>1, <2>2, <2>3, <2>4, <2>5 DEF Phase
<1>7. \A i \in 1..(tx[n].next - 1) : Reported(n, i)' = Reported(n, i)
  <2>1. SUFFICES ASSUME NEW i \in 1..(tx[n].next - 1)
                 PROVE  Reg(tx[n].assets[i].id) \in DOMAIN t.found
                          <=> Reg(tx[n].assets[i].id) \in DOMAIN tx[n].found
    BY DEF Reported
  <2>2. tx[n].table = "discovered"
    BY <2>1
  <2>3. Reg(tx[n].assets[i].id)[1] = "registered"
    BY DEF Reg
  <2> QED BY <2>2, <2>3
<1>8. EntriesDone(n)'
  BY <1>1, <1>7 DEF EntriesDone
<1>9. WritesOwn(n)'
  BY <1>1, <1>3, <1>7 DEF WritesOwn
<1> QED BY <1>4, <1>5, <1>6, <1>8, <1>9 DEF TxSound

\* AfterLoad, once F is what n has found.
LEMMA AfterLoadFacts ==
  ASSUME StateTypes, NEW n \in Handlers, tx[n] # None, NEW F \in RowMap
  PROVE  LET t == AfterLoad(n, F) IN
         /\ t \in Tx /\ t.house = tx[n].house /\ t.assets = tx[n].assets
         /\ t.recv = tx[n].recv /\ t.tries = tx[n].tries /\ t.next = tx[n].next
         /\ t.writes = tx[n].writes /\ t.found = F /\ t.todo = <<>>
         /\ \/ t.at = "apply" /\ t.table = tx[n].table /\ Loaded(n, tx[n].table, F)
            \/ t.at = "select" /\ t.table = "discovered" /\ tx[n].table = "registered"
<1>1. tx[n] \in Tx /\ tx[n].table \in {"registered", "discovered"}
  BY TxFacts DEF Tables
<1>2. <<>> \in Seq(Keys) /\ "discovered" \in Tables
  BY DEF Tables
<1>3. CASE Loaded(n, tx[n].table, F)
  <2> DEFINE t == [tx[n] EXCEPT !.at = "apply", !.found = F, !.todo = <<>>]
  <2>1. AfterLoad(n, F) = t
    BY <1>3 DEF AfterLoad
  <2>2. /\ t \in Tx /\ t.house = tx[n].house /\ t.assets = tx[n].assets
        /\ t.recv = tx[n].recv /\ t.tries = tx[n].tries /\ t.next = tx[n].next
        /\ t.writes = tx[n].writes /\ t.found = F /\ t.todo = <<>>
        /\ t.at = "apply" /\ t.table = tx[n].table
    BY <1>1, <1>2 DEF Tx
  <2> HIDE DEF t
  <2> QED BY <1>3, <2>1, <2>2
<1>4. CASE ~Loaded(n, tx[n].table, F)
  <2> DEFINE t == [tx[n] EXCEPT !.at = "select", !.table = "discovered",
                                !.found = F, !.todo = <<>>]
  <2>1. AfterLoad(n, F) = t
    BY <1>4 DEF AfterLoad
  <2>2. /\ t \in Tx /\ t.house = tx[n].house /\ t.assets = tx[n].assets
        /\ t.recv = tx[n].recv /\ t.tries = tx[n].tries /\ t.next = tx[n].next
        /\ t.writes = tx[n].writes /\ t.found = F /\ t.todo = <<>>
        /\ t.at = "select" /\ t.table = "discovered"
    BY <1>1, <1>2 DEF Tx
  <2>3. tx[n].table = "registered"
    BY <1>1, <1>4 DEF Loaded
  <2> HIDE DEF t
  <2> QED BY <2>1, <2>2, <2>3
<1> QED BY <1>3, <1>4

\* A scan visits some keys of the table that is read.
LEMMA ScanFacts ==
  ASSUME StateTypes, NEW n \in Handlers, tx[n] # None,
         NEW S \in SUBSET Asked(n), S # {}, NEW s \in Scans(S)
  PROVE  /\ s \in Seq(Keys) /\ s # <<>>
         /\ \A i \in DOMAIN s : s[i] \in S /\ s[i][1] = tx[n].table
<1>1. Asked(n) \subseteq {tx[n].table} \X Assets /\ tx[n].table \in Tables
  BY TxFacts, PayloadFacts DEF Asked
<1>2. S \in SUBSET Keys
  BY <1>1 DEF Keys
<1>3. IsFiniteSet(Keys)
  <2>1. Tables = {"registered"} \cup {"discovered"}
    BY DEF Tables
  <2>2. IsFiniteSet(Tables)
    <3>1. IsFiniteSet({"registered"}) /\ IsFiniteSet({"discovered"})
      BY FS_Singleton
    <3> QED BY <2>1, <3>1, FS_Union
  <2> QED BY <2>2, AssetsAssumption, FS_Product DEF Keys
<1>4. IsFiniteSet(S) /\ Cardinality(S) \in Nat /\ Cardinality(S) # 0
  <2>1. IsFiniteSet(S)
    BY <1>2, <1>3, FS_Subset
  <2> QED BY <2>1, FS_CardinalityType, FS_EmptySet
<1>5. s \in [1..Cardinality(S) -> S]
  BY DEF Scans
<1>6. s \in Seq(Keys) /\ Len(s) = Cardinality(S)
  BY <1>2, <1>4, <1>5
<1>7. s # <<>>
  BY <1>4, <1>6
<1>8. \A i \in DOMAIN s : s[i] \in S /\ s[i][1] = tx[n].table
  BY <1>1, <1>5
<1> QED BY <1>6, <1>7, <1>8

\* loadAssets starts.
LEMMA SelectAssetsInv ==
  ASSUME IInv, NEW n \in Handlers, SelectAssets(n)
  PROVE  IInv'
<1>1. tx[n] # None /\ tx[n].at = "select" /\ store' = store /\ holder' = holder
      /\ StepFrame
  BY DEF SelectAssets, At, StepFrame
<1>2. /\ StateTypes /\ tx \in [Handlers -> Tx \cup {None}]
      /\ holder \in [Locks -> Handlers \cup {None}]
      /\ Locked(n) /\ Current(n) /\ Phase(n)
  BY <1>1, TxSoundFacts
<1>3. /\ tx[n].next = 1 /\ tx[n].writes = Nothing /\ tx[n].next \in 1..Len(tx[n].assets)
      /\ tx[n] \in Tx /\ tx[n].found \in RowMap
  BY <1>1, <1>2, TxFacts DEF Phase
<1>4. \A k \in DOMAIN tx[n].found : store[k] = tx[n].found[k] /\ holder[k] = n
  BY <1>2 DEF Current, Locked
<1> DEFINE visible == {k \in Asked(n) : store[k] # None}
<1>5. CASE visible = {}
  <2> DEFINE t == AfterLoad(n, tx[n].found)
  <2>1. /\ t \in Tx /\ t.house = tx[n].house /\ t.assets = tx[n].assets
        /\ t.recv = tx[n].recv /\ t.tries = tx[n].tries /\ t.next = tx[n].next
        /\ t.writes = tx[n].writes /\ t.found = tx[n].found /\ t.todo = <<>>
        /\ \/ t.at = "apply" /\ t.table = tx[n].table /\ Loaded(n, tx[n].table, t.found)
           \/ t.at = "select" /\ t.table = "discovered" /\ tx[n].table = "registered"
    BY <1>1, <1>2, <1>3, AfterLoadFacts
  <2>2. tx' = [tx EXCEPT ![n] = t]
    BY <1>5 DEF SelectAssets
  <2> HIDE DEF t
  <2>3. tx'[n] = t
    BY <1>2, <2>2
  <2>4. TxSound(n)'
    BY <1>1, <1>3, <1>4, <2>1, <2>3, ReadsOn
  <2>5. TxMoves(n)
    BY <1>1, <1>2, <2>1, <2>2, <2>4 DEF TxMoves
  <2> QED BY <2>5, TxMovesInv
<1>6. ASSUME visible # {}, NEW s \in Scans(visible),
             tx' = [tx EXCEPT ![n].at = "lock", ![n].todo = s]
      PROVE  IInv'
  <2>1. /\ s \in Seq(Keys) /\ s # <<>>
        /\ \A i \in DOMAIN s : s[i] \in visible /\ s[i][1] = tx[n].table
    BY <1>1, <1>2, <1>6, ScanFacts
  <2> DEFINE t == [tx[n] EXCEPT !.at = "lock", !.todo = s]
  <2>2. tx' = [tx EXCEPT ![n] = t]
    BY <1>2, <1>6
  <2>3. /\ t \in Tx /\ t.house = tx[n].house /\ t.assets = tx[n].assets
        /\ t.recv = tx[n].recv /\ t.tries = tx[n].tries /\ t.next = tx[n].next
        /\ t.writes = tx[n].writes /\ t.found = tx[n].found /\ t.todo = s
        /\ t.at = "lock" /\ t.table = tx[n].table
    BY <1>3, <2>1 DEF Tx
  <2>4. \A i \in DOMAIN s : store[s[i]] # None /\ s[i][1] = tx[n].table
    BY <2>1
  <2> HIDE DEF t, visible
  <2>5. tx'[n] = t
    BY <1>2, <2>2
  <2>6. TxSound(n)'
    BY <1>1, <1>3, <1>4, <2>1, <2>3, <2>4, <2>5, ReadsOn
  <2>7. TxMoves(n)
    BY <1>1, <1>2, <2>2, <2>3, <2>6 DEF TxMoves
  <2> QED BY <2>7, TxMovesInv
<1> QED BY <1>5, <1>6 DEF SelectAssets

\* The next row of a scan is locked and read.
LEMMA LockRowInv ==
  ASSUME IInv, NEW n \in Handlers, LockRow(n)
  PROVE  IInv'
<1>1. tx[n] # None /\ tx[n].at = "lock" /\ store' = store /\ StepFrame
  BY DEF LockRow, At, StepFrame
<1>2. /\ StateTypes /\ tx \in [Handlers -> Tx \cup {None}]
      /\ Locked(n) /\ Current(n) /\ Phase(n)
  BY <1>1, TxSoundFacts
<1>3. /\ tx[n].table = "discovered" \/ (tx[n].next = 1 /\ tx[n].writes = Nothing)
      /\ tx[n].next \in 1..Len(tx[n].assets)
      /\ tx[n] \in Tx /\ tx[n].found \in RowMap /\ tx[n].todo \in Seq(Keys)
      /\ tx[n].todo # <<>> /\ DOMAIN tx[n].found \in SUBSET Keys
  BY <1>1, <1>2, TxFacts DEF Phase, Current, Tables
<1> DEFINE todo == tx[n].todo
           k == Head(todo)
<1>4. /\ k = todo[1] /\ k \in Keys /\ 1 \in DOMAIN todo
      /\ Tail(todo) \in Seq(Keys)
      /\ \A i \in DOMAIN Tail(todo) : i + 1 \in DOMAIN todo /\ Tail(todo)[i] = todo[i + 1]
      /\ Len(todo) > 1 => Tail(todo) # <<>>
  BY <1>3, TailFacts
<1>5. store[k] \in Row /\ store[k] # None /\ k[1] = tx[n].table
  <2>1. store[k] # None /\ k[1] = tx[n].table
    BY <1>2, <1>4 DEF Current
  <2> QED BY <1>2, <1>4, <2>1 DEF StateTypes
<1>6. Wants(n) = k /\ k \in Locks
  BY <1>1, <1>4, LockFacts, WantsFacts
<1>7. /\ holder' \in [Locks -> Handlers \cup {None}] /\ holder'[k] = n
      /\ \A l \in Locks : holder'[l] = holder[l] \/ holder[l] \in {None, n}
      /\ \A l \in Locks : holder[l] = n => holder'[l] = n
  BY <1>6, AcquireFacts DEF LockRow
<1> DEFINE F == Put(tx[n].found, k, store[k])
<1>8. /\ F \in RowMap /\ DOMAIN F = DOMAIN tx[n].found \cup {k}
      /\ F[k] = store[k] /\ \A y \in DOMAIN tx[n].found : y # k => F[y] = tx[n].found[y]
  BY <1>3, <1>4, <1>5, PutFacts
<1>9. \A y \in DOMAIN tx[n].found : store[y] = tx[n].found[y] /\ holder[y] = n
  BY <1>2 DEF Current, Locked
<1>10. /\ DOMAIN tx[n].found \subseteq DOMAIN F
       /\ \A y \in DOMAIN tx[n].found : F[y] = tx[n].found[y]
       /\ \A y \in DOMAIN F : store[y] = F[y] /\ holder'[y] = n
       /\ \A y \in DOMAIN F : y \in DOMAIN tx[n].found \/ y[1] = tx[n].table
  <2> HIDE DEF F, k
  <2> QED BY <1>3, <1>5, <1>7, <1>8, <1>9, LockFacts
<1>11. CASE Len(todo) > 1
  <2> DEFINE t == [tx[n] EXCEPT !.todo = Tail(todo), !.found = F]
  <2>1. tx' = [tx EXCEPT ![n] = t]
    <3>1. tx' = [tx EXCEPT ![n] = IF Len(todo) > 1 THEN t ELSE AfterLoad(n, F)]
      BY DEF LockRow
    <3> QED BY <1>11, <3>1
  <2>2. /\ t \in Tx /\ t.house = tx[n].house /\ t.assets = tx[n].assets
        /\ t.recv = tx[n].recv /\ t.tries = tx[n].tries /\ t.next = tx[n].next
        /\ t.writes = tx[n].writes /\ t.found = F /\ t.todo = Tail(todo)
        /\ t.at = "lock" /\ t.table = tx[n].table
    <3> HIDE DEF F
    <3> QED BY <1>1, <1>3, <1>4, <1>8 DEF Tx
  <2>3. \A i \in DOMAIN Tail(todo) :
          store[Tail(todo)[i]] # None /\ Tail(todo)[i][1] = tx[n].table
    BY <1>2, <1>4 DEF Current
  <2> HIDE DEF t, F, k, todo
  <2>4. tx'[n] = t
    BY <1>2, <2>1
  <2>5. TxSound(n)'
    <3>1. \A i \in DOMAIN t.todo : store[t.todo[i]] # None /\ t.todo[i][1] = t.table
      BY <2>2, <2>3
    <3>2. t.at = "lock" /\ t.table = tx[n].table /\ t.todo # <<>>
      BY <1>4, <1>11, <2>2
    <3>3. tx[n].at # "house"
      BY <1>1
    <3>4. /\ DOMAIN tx[n].found \subseteq DOMAIN t.found
          /\ \A y \in DOMAIN tx[n].found : t.found[y] = tx[n].found[y]
          /\ \A y \in DOMAIN t.found : store[y] = t.found[y] /\ holder'[y] = n
          /\ \A y \in DOMAIN t.found : y \in DOMAIN tx[n].found \/ y[1] = tx[n].table
      BY <1>10, <2>2
    <3>5. /\ t \in Tx /\ t.house = tx[n].house /\ t.assets = tx[n].assets
          /\ t.next = tx[n].next /\ t.writes = tx[n].writes
      BY <2>2
    <3>6. \A l \in Locks : holder[l] = n => holder'[l] = n
      BY <1>7
    <3> QED BY <1>1, <1>3, <2>4, <3>1, <3>2, <3>3, <3>4, <3>5, <3>6, ReadsOn
  <2>6. TxMoves(n)
    BY <1>1, <1>7, <2>1, <2>2, <2>5 DEF TxMoves
  <2> QED BY <2>6, TxMovesInv
<1>12. CASE ~(Len(todo) > 1)
  <2> DEFINE t == AfterLoad(n, F)
  <2>1. tx' = [tx EXCEPT ![n] = t]
    BY <1>12 DEF LockRow
  <2>2. /\ t \in Tx /\ t.house = tx[n].house /\ t.assets = tx[n].assets
        /\ t.recv = tx[n].recv /\ t.tries = tx[n].tries /\ t.next = tx[n].next
        /\ t.writes = tx[n].writes /\ t.found = F /\ t.todo = <<>>
        /\ \/ t.at = "apply" /\ t.table = tx[n].table /\ Loaded(n, tx[n].table, t.found)
           \/ t.at = "select" /\ t.table = "discovered" /\ tx[n].table = "registered"
    <3> HIDE DEF F
    <3> QED BY <1>1, <1>2, <1>8, AfterLoadFacts
  <2> HIDE DEF t, F, k, todo
  <2>3. tx'[n] = t
    BY <1>2, <2>1
  <2>4. TxSound(n)'
    BY <1>1, <1>3, <1>7, <1>10, <2>2, <2>3, ReadsOn
  <2>5. TxMoves(n)
    BY <1>1, <1>7, <2>1, <2>2, <2>4 DEF TxMoves
  <2> QED BY <2>5, TxMovesInv
<1> QED BY <1>11, <1>12

\* An entry to insert has no registration, and both tables were read.
LEMMA InsertFacts ==
  ASSUME IInv, NEW n \in Handlers, Inserts(n)
  PROVE  /\ tx[n] # None /\ tx[n].at = "apply" /\ tx[n].table = "discovered"
         /\ Entry(n).id \in Assets
         /\ Disc(Entry(n).id) = Reported(n, tx[n].next)
         /\ Disc(Entry(n).id) \notin DOMAIN tx[n].found
<1>1. tx[n] # None /\ tx[n].at = "apply" /\ ~Known(n)
  BY DEF Inserts, At
<1>2. StateTypes /\ Phase(n)
  BY <1>1, TxSoundFacts
<1>3. tx[n].assets \in Payloads /\ tx[n].next \in 1..Len(tx[n].assets)
  BY <1>1, <1>2, TxFacts DEF Phase
<1>4. tx[n].next \in DOMAIN tx[n].assets /\ Entry(n).id \in Assets
  BY <1>3, PayloadFacts DEF Entry
<1>5. Reg(Entry(n).id) \notin DOMAIN tx[n].found
  BY <1>1 DEF Known, KnownAs
<1>6. tx[n].table = "discovered"
  BY <1>1, <1>2, <1>4, <1>5 DEF Phase, Loaded, Entry
<1> QED BY <1>1, <1>4, <1>5, <1>6 DEF Known, KnownAs, Reported, Entry

\* The observation of another transaction is read.
LEMMA ObserveLostInv ==
  ASSUME IInv, NEW n \in Handlers, ObserveLost(n)
  PROVE  IInv'
<1>1. /\ tx[n] # None /\ tx[n].at = "apply" /\ tx[n].table = "discovered"
      /\ Entry(n).id \in Assets
  BY InsertFacts DEF ObserveLost
<1>2. store' = store /\ holder' = holder /\ StepFrame
  BY DEF ObserveLost, StepFrame
<1>3. /\ StateTypes /\ tx \in [Handlers -> Tx \cup {None}]
      /\ holder \in [Locks -> Handlers \cup {None}]
      /\ Locked(n) /\ Current(n) /\ Phase(n)
  BY <1>1, TxSoundFacts
<1>4. tx[n].next \in 1..Len(tx[n].assets) /\ tx[n] \in Tx
  BY <1>1, <1>3, TxFacts DEF Phase
<1> DEFINE k == Disc(Entry(n).id)
           t == [tx[n] EXCEPT !.at = "lock", !.todo = <<k>>]
<1>5. tx' = [tx EXCEPT ![n] = t]
  BY <1>3 DEF ObserveLost
<1>6. k \in Keys /\ k[1] = "discovered" /\ store[k] # None
  BY <1>1, KeyFacts DEF ObserveLost
<1> HIDE DEF k
<1>7. /\ <<k>> \in Seq(Keys) /\ <<k>> # <<>>
      /\ \A i \in DOMAIN <<k>> : store[<<k>>[i]] # None /\ <<k>>[i][1] = "discovered"
  BY <1>6
<1>8. /\ t \in Tx /\ t.house = tx[n].house /\ t.assets = tx[n].assets
      /\ t.recv = tx[n].recv /\ t.tries = tx[n].tries /\ t.next = tx[n].next
      /\ t.writes = tx[n].writes /\ t.found = tx[n].found /\ t.todo = <<k>>
      /\ t.at = "lock" /\ t.table = tx[n].table
  BY <1>4, <1>7 DEF Tx
<1> HIDE DEF t
<1>9. \A y \in DOMAIN tx[n].found : store[y] = tx[n].found[y] /\ holder[y] = n
  BY <1>3 DEF Current, Locked
<1>10. tx'[n] = t
  BY <1>3, <1>5
<1>11. TxSound(n)'
  <2>1. \A i \in DOMAIN t.todo : store[t.todo[i]] # None /\ t.todo[i][1] = t.table
    BY <1>1, <1>7, <1>8
  <2>2. t.at = "lock" /\ t.table = tx[n].table /\ t.todo # <<>>
    BY <1>7, <1>8
  <2>3. tx[n].at # "house"
    BY <1>1
  <2> QED BY <1>1, <1>2, <1>4, <1>8, <1>9, <1>10, <2>1, <2>2, <2>3, ReadsOn
<1>12. TxMoves(n)
  BY <1>1, <1>2, <1>3, <1>5, <1>8, <1>11 DEF TxMoves
<1> QED BY <1>12, TxMovesInv

-----------------------------------------------------------------------------
(* Entries are applied                                                     *)

\* The entry that is applied has not been written about.
LEMMA EntryFacts ==
  ASSUME IInv, NEW n \in Handlers, tx[n] # None, tx[n].at = "apply"
  PROVE  /\ tx[n].next \in DOMAIN tx[n].assets /\ Entry(n) \in AssetEntry
         /\ KnownAs(n) = Reported(n, tx[n].next)
         /\ Reported(n, tx[n].next) \in Keys
         /\ \A i \in 1..(tx[n].next - 1) :
              /\ i \in DOMAIN tx[n].assets
              /\ Reported(n, i) # Reported(n, tx[n].next)
         /\ Reported(n, tx[n].next) \notin DOMAIN tx[n].writes
<1>1. StateTypes /\ Phase(n) /\ WritesOwn(n)
  BY TxSoundFacts
<1>2. tx[n].assets \in Payloads /\ tx[n].next \in 1..Len(tx[n].assets)
  BY <1>1, TxFacts DEF Phase
<1>3. /\ Len(tx[n].assets) \in Nat /\ DOMAIN tx[n].assets = 1..Len(tx[n].assets)
      /\ \A i \in DOMAIN tx[n].assets : tx[n].assets[i] \in AssetEntry
  BY <1>2, PayloadFacts
<1>4. tx[n].next \in DOMAIN tx[n].assets /\ Entry(n) \in AssetEntry
  BY <1>2, <1>3 DEF Entry
<1>5. \A i \in 1..(tx[n].next - 1) : i \in DOMAIN tx[n].assets /\ i # tx[n].next
  BY <1>2, <1>3
<1>6. /\ Reported(n, tx[n].next) \in Keys
      /\ \A i \in 1..(tx[n].next - 1) : Reported(n, i) # Reported(n, tx[n].next)
  BY <1>1, <1>4, <1>5, ReportedFacts
<1>7. Reported(n, tx[n].next) \notin DOMAIN tx[n].writes
  BY <1>1, <1>6 DEF WritesOwn
<1> QED BY <1>4, <1>5, <1>6, <1>7 DEF KnownAs, Reported, Entry

\* An entry is dealt with: its row is found as the entry says, or will be
\* written so under the identity it has, or as a new observation.
LEMMA EntryApplied ==
  ASSUME IInv, NEW n \in Handlers, tx[n] # None, tx[n].at = "apply", StepFrame,
         holder' \in [Locks -> Handlers \cup {None}],
         \A l \in Locks : holder'[l] = holder[l] \/ holder[l] \in {None, n},
         \A l \in Locks : holder[l] = n => holder'[l] = n,
         NEW k, k = Reported(n, tx[n].next),
         NEW W \in RowMap, NextEntry(n, W),
         DOMAIN tx[n].writes \subseteq DOMAIN W,
         DOMAIN W \subseteq DOMAIN tx[n].writes \cup {k},
         \A y \in DOMAIN tx[n].writes : W[y] = tx[n].writes[y],
         k \notin DOMAIN W =>
           k \in DOMAIN tx[n].found /\ Says(tx[n].found[k], tx[n].house, Entry(n)),
         k \in DOMAIN W =>
           /\ Says(W[k], tx[n].house, Entry(n)) /\ holder'[k] = n
           /\ IF k \in DOMAIN tx[n].found
              THEN W[k].house = tx[n].found[k].house /\ W[k].type = tx[n].found[k].type
              ELSE store[k] = None /\ k[1] = "discovered"
  PROVE  IInv'
<1>1. /\ StateTypes /\ tx \in [Handlers -> Tx \cup {None}]
      /\ Locked(n) /\ Current(n) /\ Phase(n) /\ EntriesDone(n) /\ WritesOwn(n)
  BY TxSoundFacts
<1>2. /\ tx[n] \in Tx /\ tx[n].next \in Nat /\ tx[n].house \in Houses
      /\ tx[n].assets \in Payloads
      /\ DOMAIN tx[n].found \in SUBSET Keys /\ DOMAIN tx[n].writes \in SUBSET Keys
  BY <1>1, TxFacts
<1>3. /\ \A i \in 1..(tx[n].next - 1) : Reported(n, i) # k
      /\ k \notin DOMAIN tx[n].writes /\ k \in Keys
  BY EntryFacts
<1> DEFINE c == IF tx[n].next = Len(tx[n].assets) THEN "commit" ELSE "apply"
           t == [tx[n] EXCEPT !.next = tx[n].next + 1, !.writes = W, !.at = c]
<1>4. tx' = [tx EXCEPT ![n] = t]
  BY <1>1 DEF NextEntry
<1>5. tx[n].next + 1 \in Nat
  BY <1>2
<1>6. c \in {"commit", "apply"} /\ (c = "commit" <=> tx[n].next = Len(tx[n].assets))
  OBVIOUS
<1> HIDE DEF c
<1>7. /\ t \in Tx /\ t.house = tx[n].house /\ t.assets = tx[n].assets
      /\ t.recv = tx[n].recv /\ t.tries = tx[n].tries /\ t.next = tx[n].next + 1
      /\ t.writes = W /\ t.found = tx[n].found /\ t.todo = tx[n].todo
      /\ t.at = c /\ t.table = tx[n].table
  BY <1>2, <1>5, <1>6 DEF Tx
<1> HIDE DEF t
<1>8. tx'[n] = t /\ store' = store
  BY <1>1, <1>4 DEF StepFrame
<1>9. \A i : Reported(n, i)' = Reported(n, i)
  BY <1>7, <1>8 DEF Reported
<1>10. Locked(n)'
  BY <1>1, <1>2, <1>7, <1>8, LockFacts DEF Locked
<1>11. Current(n)'
  BY <1>1, <1>6, <1>7, <1>8 DEF Current
<1>12. Phase(n)'
  <2>1. Loaded(n, tx[n].table, tx[n].found)' <=> Loaded(n, tx[n].table, tx[n].found)
    BY <1>7, <1>8 DEF Loaded
  <2>2. Loaded(n, tx[n].table, tx[n].found) /\ tx[n].next \in 1..Len(tx[n].assets)
    BY <1>1 DEF Phase
  <2>3. Len(tx[n].assets) \in Nat
    BY <1>2, PayloadFacts
  <2>4. /\ c = "apply" => tx[n].next + 1 \in 1..Len(tx[n].assets)
        /\ c = "commit" => tx[n].next + 1 = Len(tx[n].assets) + 1
    BY <1>6, <2>2, <2>3
  <2> QED BY <1>6, <1>7, <1>8, <2>1, <2>2, <2>4 DEF Phase
<1>13. \A i \in 1..t.next - 1 : i \in 1..(tx[n].next - 1) \/ i = tx[n].next
  BY <1>2, <1>7
<1>14. EntriesDone(n)'
  <2> SUFFICES ASSUME NEW i \in 1..(t.next - 1)
               PROVE  IF Reported(n, i) \in DOMAIN W
                      THEN Says(W[Reported(n, i)], tx[n].house, tx[n].assets[i])
                      ELSE /\ Reported(n, i) \in DOMAIN tx[n].found
                           /\ Says(tx[n].found[Reported(n, i)], tx[n].house,
                                   tx[n].assets[i])
    BY <1>7, <1>8, <1>9 DEF EntriesDone
  <2>1. CASE i = tx[n].next
    BY <2>1 DEF Entry
  <2>2. CASE i \in 1..(tx[n].next - 1)
    <3>1. Reported(n, i) # k
      BY <1>3, <2>2
    <3>2. Reported(n, i) \in DOMAIN W <=> Reported(n, i) \in DOMAIN tx[n].writes
      BY <3>1
    <3> QED BY <1>1, <2>2, <3>2 DEF EntriesDone
  <2> QED BY <1>13, <2>1, <2>2
<1>15. WritesOwn(n)'
  <2>1. \A i \in 1..(tx[n].next - 1) : i \in 1..(t.next - 1)
    BY <1>2, <1>7
  <2>2. tx[n].next \in 1..(t.next - 1)
    <3>1. tx[n].next \in 1..Len(tx[n].assets)
      BY <1>1 DEF Phase
    <3> QED BY <1>2, <1>7, <3>1
  <2> SUFFICES ASSUME NEW y \in DOMAIN W
               PROVE  /\ \E i \in 1..(t.next - 1) : y = Reported(n, i)
                      /\ IF y \in DOMAIN tx[n].found
                         THEN /\ W[y].house = tx[n].found[y].house
                              /\ W[y].type = tx[n].found[y].type
                         ELSE store[y] = None /\ y[1] = "discovered"
    BY <1>7, <1>8, <1>9 DEF WritesOwn
  <2>3. CASE y = k
    BY <2>2, <2>3
  <2>4. CASE y \in DOMAIN tx[n].writes
    BY <1>1, <2>1, <2>4 DEF WritesOwn
  <2> QED BY <2>3, <2>4
<1>16. TxMoves(n)
  BY <1>4, <1>7, <1>10, <1>11, <1>12, <1>14, <1>15 DEF TxMoves, TxSound
<1> QED BY <1>16, TxMovesInv

\* An entry with a known row is applied.
LEMMA ApplyKnownInv ==
  ASSUME IInv, NEW n \in Handlers, ApplyKnown(n)
  PROVE  IInv'
<1>1. /\ tx[n] # None /\ tx[n].at = "apply" /\ Known(n) /\ StepFrame
      /\ holder' = holder
  BY DEF ApplyKnown, At
<1>2. /\ StateTypes /\ holder \in [Locks -> Handlers \cup {None}] /\ Locked(n)
  BY <1>1, TxSoundFacts
<1> DEFINE k == KnownAs(n)
           row == tx[n].found[k]
           e == Entry(n)
<1>3. /\ e \in AssetEntry /\ k = Reported(n, tx[n].next) /\ k \in Keys
      /\ k \notin DOMAIN tx[n].writes
  BY <1>1, EntryFacts
<1>4. /\ tx[n].writes \in RowMap /\ tx[n].found \in RowMap /\ tx[n].recv \in Nat
      /\ tx[n].house \in Houses
  BY <1>1, <1>2, TxFacts
<1>5. k \in DOMAIN tx[n].found /\ row \in Row /\ holder[k] = n
  BY <1>1, <1>2, <1>4, RowMapFacts DEF Known, Locked
<1>6. CASE Verdict(n) = "changed" /\
           NextEntry(n, Put(tx[n].writes, k,
                            [row EXCEPT !.caps = e.caps, !.seen = Later(@, tx[n].recv)]))
  <2> DEFINE r == [row EXCEPT !.caps = e.caps, !.seen = Later(row.seen, tx[n].recv)]
             W == Put(tx[n].writes, k, r)
  <2>1. row.house = tx[n].house /\ row.type = e.type
    BY <1>6 DEF Verdict, CompareAsset
  <2>2. e.caps \in Caps /\ Later(row.seen, tx[n].recv) \in Nat
    BY <1>3, <1>4, <1>5 DEF AssetEntry, Row, Later
  <2> HIDE DEF row, e, k
  <2>3. r \in Row /\ r.house = row.house /\ r.type = row.type /\ r.caps = e.caps
    BY <1>5, <2>2 DEF Row
  <2>4. NextEntry(n, W)
    BY <1>6
  <2> HIDE DEF r
  <2>5. /\ W \in RowMap /\ DOMAIN W = DOMAIN tx[n].writes \cup {k} /\ W[k] = r
        /\ \A y \in DOMAIN tx[n].writes : y # k => W[y] = tx[n].writes[y]
    <3>1. tx[n].writes \in RowMap /\ k \in Keys /\ r \in Row
      BY <1>3, <1>4, <2>3
    <3> QED BY <3>1, PutFacts
  <2> HIDE DEF W
  <2>6. Says(W[k], tx[n].house, Entry(n))
    BY <2>1, <2>3, <2>5 DEF Says, e
  <2>7. W[k].house = tx[n].found[k].house /\ W[k].type = tx[n].found[k].type
    BY <2>3, <2>5 DEF row
  <2>8. \A y \in DOMAIN tx[n].writes : W[y] = tx[n].writes[y]
    BY <1>3, <2>5
  <2> QED BY <1>1, <1>2, <1>3, <1>5, <2>4, <2>5, <2>6, <2>7, <2>8, EntryApplied
<1>7. CASE Verdict(n) = "unchanged" /\ NextEntry(n, tx[n].writes)
  <2>1. row.house = tx[n].house /\ row.type = e.type /\ row.caps = e.caps
    BY <1>7 DEF Verdict, CompareAsset
  <2>2. Says(tx[n].found[k], tx[n].house, Entry(n))
    BY <2>1 DEF Says
  <2> HIDE DEF k
  <2> QED BY <1>1, <1>2, <1>3, <1>4, <1>5, <1>7, <2>2, EntryApplied
<1> QED BY <1>6, <1>7 DEF ApplyKnown

\* A new asset is observed.
LEMMA ObserveInv ==
  ASSUME IInv, NEW n \in Handlers, Observe(n)
  PROVE  IInv'
<1>1. Inserts(n) /\ Granted(n) /\ Acquire(n) /\ StepFrame
  BY DEF Observe
<1> DEFINE k == Disc(Entry(n).id)
           e == Entry(n)
<1>2. /\ tx[n] # None /\ tx[n].at = "apply" /\ k = Reported(n, tx[n].next)
      /\ k \notin DOMAIN tx[n].found /\ e.id \in Assets
  BY <1>1, InsertFacts
<1>3. /\ e \in AssetEntry /\ k \in Keys /\ k \notin DOMAIN tx[n].writes
      /\ k[1] = "discovered"
  BY <1>2, EntryFacts, KeyFacts
<1>4. /\ StateTypes /\ tx[n].writes \in RowMap /\ tx[n].recv \in Nat
      /\ tx[n].house \in Houses
  BY <1>2, TxSoundFacts, TxFacts
<1>5. Wants(n) = k /\ store[k] = None /\ Wants(n) \in Locks
  BY <1>1, <1>2, <1>3, WantsFacts, LockFacts DEF Granted
<1>6. /\ holder' \in [Locks -> Handlers \cup {None}] /\ holder'[k] = n
      /\ \A l \in Locks : holder'[l] = holder[l] \/ holder[l] \in {None, n}
      /\ \A l \in Locks : holder[l] = n => holder'[l] = n
  BY <1>1, <1>5, AcquireFacts
<1> DEFINE r == [house |-> tx[n].house, type |-> e.type, caps |-> e.caps,
                 seen |-> tx[n].recv]
           W == Put(tx[n].writes, k, r)
<1>7. NextEntry(n, W)
  BY DEF Observe
<1> HIDE DEF e, k
<1>8. r \in Row /\ Says(r, tx[n].house, e)
  BY <1>3, <1>4 DEF Row, AssetEntry, Says
<1> HIDE DEF r
<1>9. /\ W \in RowMap /\ DOMAIN W = DOMAIN tx[n].writes \cup {k} /\ W[k] = r
      /\ \A y \in DOMAIN tx[n].writes : y # k => W[y] = tx[n].writes[y]
  BY <1>3, <1>4, <1>8, PutFacts
<1> HIDE DEF W
<1>10. Says(W[k], tx[n].house, Entry(n))
  BY <1>8, <1>9 DEF e
<1>11. \A y \in DOMAIN tx[n].writes : W[y] = tx[n].writes[y]
  BY <1>3, <1>9
<1> QED BY <1>1, <1>2, <1>3, <1>5, <1>6, <1>7, <1>9, <1>10, <1>11, EntryApplied

-----------------------------------------------------------------------------
(* Deliveries, rollbacks and registrations                                 *)

\* A heartbeat arrives.
LEMMA DeliverInv ==
  ASSUME IInv, NEW n \in Handlers, Deliver(n)
  PROVE  IInv'
<1> USE DEF dbVars, histVars
<1>1. PICK h \in Houses, p \in Payloads : Attempt(n, h, p, 1)
  BY DEF Deliver
<1>2. /\ StateTypes /\ BudgetInv /\ tx[n] = None /\ beats > 0 /\ beats' = beats - 1
      /\ UNCHANGED <<store, lastBeat, holder, done, latest, refused, faults>>
  BY DEF IInv, Deliver
<1>3. 1 \in 1..MaxTries /\ clock \in Nat /\ beats \in 0..MaxBeats
  BY <1>2, AssetsAssumption DEF StateTypes
<1>4. /\ clock' = clock + 1
      /\ tx' \in [Handlers -> Tx \cup {None}]
      /\ \A m \in Handlers : m # n => tx'[m] = tx[m]
      /\ tx'[n].tries = 1 /\ tx'[n].recv = clock'
      /\ TxSound(n)'
  BY <1>1, <1>2, <1>3, AttemptFacts
<1>5. StateTypes'
  <2>1. clock' \in Nat /\ beats' \in 0..MaxBeats
    BY <1>2, <1>3, <1>4, AssetsAssumption
  <2> QED BY <1>2, <1>4, <2>1 DEF StateTypes
<1>6. \A m \in Handlers : TxSound(m)'
  <2>1. ASSUME NEW m \in Handlers, m # n PROVE TxSound(m)'
    BY <1>2, <1>4, <2>1, Undisturbed DEF IInv
  <2> QED BY <1>4, <2>1
<1>7. ClockInv'
  <2>1. \A m \in Handlers : tx[m] # None => tx[m].recv \in Nat /\ tx[m].recv <= clock
    BY <1>2, TxFacts DEF IInv, ClockInv
  <2>2. \A m \in Handlers : tx'[m] # None => tx'[m].recv <= clock'
    BY <1>3, <1>4, <2>1
  <2>3. \A h1 \in Houses : lastBeat[h1] \in Nat /\ lastBeat[h1] <= clock
    BY <1>2 DEF IInv, ClockInv, StateTypes
  <2> QED BY <1>2, <1>3, <1>4, <2>2, <2>3 DEF ClockInv
<1>8. LatestStored' /\ AppliedWhole' /\ CapabilitiesCurrent' /\ ConflictIsReal'
  BY <1>2 DEF IInv, LatestStored, AppliedWhole, CapabilitiesCurrent, ConflictIsReal
<1>9. BudgetInv'
  <2>1. Left' \subseteq Left \cup ({n} \X (2..MaxTries))
    <3> SUFFICES ASSUME NEW b \in Left' PROVE b \in Left \cup ({n} \X (2..MaxTries))
      OBVIOUS
    <3>1. /\ b \in Handlers \X (1..MaxTries) /\ b[1] \in Handlers /\ b[2] \in 1..MaxTries
          /\ tx'[b[1]] # None /\ tx'[b[1]].tries < b[2]
      BY AssetsAssumption DEF Left
    <3>2. CASE b[1] # n
      BY <1>4, <3>1, <3>2 DEF Left
    <3>3. CASE b[1] = n
      <4>1. b[2] \in 2..MaxTries
        BY <1>4, <3>1, <3>3, AssetsAssumption
      <4> QED BY <3>1, <3>3, <4>1
    <3> QED BY <3>2, <3>3
  <2> QED BY <1>2, <1>4, <2>1, BudgetDelivered
<1> QED BY <1>5, <1>6, <1>7, <1>8, <1>9 DEF IInv

\* The locks of n are released, those of the others are not.
LEMMA ReleaseFacts ==
  ASSUME StateTypes, NEW n \in Handlers, ReleaseAll(n)
  PROVE  /\ holder' \in [Locks -> Handlers \cup {None}]
         /\ \A m \in Handlers : m # n =>
              \A l \in Locks : holder[l] = m => holder'[l] = m
BY DEF StateTypes, ReleaseAll

\* The clock, the transactions and the budget when n ends its attempt.
LEMMA EndInv ==
  ASSUME IInv, NEW n \in Handlers, tx[n] # None, Return(n) \/ Retry(n), beats' = beats,
         ReleaseAll(n),
         \A k \in Keys : store[k] # None => store'[k] # None,
         \A k \in Keys : holder[k] # n => store'[k] = store[k]
  PROVE  /\ clock' \in Nat /\ clock <= clock'
         /\ tx' \in [Handlers -> Tx \cup {None}]
         /\ holder' \in [Locks -> Handlers \cup {None}]
         /\ \A m \in Handlers : TxSound(m)'
         /\ \A m \in Handlers : tx'[m] # None => tx'[m].recv <= clock'
         /\ BudgetInv'
<1>1. StateTypes /\ BudgetInv /\ clock \in Nat
  BY DEF IInv, StateTypes
<1>2. /\ clock' \in Nat /\ clock <= clock'
      /\ tx' \in [Handlers -> Tx \cup {None}]
      /\ \A m \in Handlers : m # n => tx'[m] = tx[m]
      /\ tx'[n] # None => tx'[n].recv <= clock'
      /\ TxSound(n)'
      /\ BudgetInv'
  BY <1>1, EndFacts
<1>3. /\ holder' \in [Locks -> Handlers \cup {None}]
      /\ \A m \in Handlers : m # n =>
           \A l \in Locks : holder[l] = m => holder'[l] = m
  BY <1>1, ReleaseFacts
<1>4. ASSUME NEW m \in Handlers, m # n PROVE TxSound(m)'
  <2>1. \A k \in Keys : holder[k] = m => store'[k] = store[k]
    BY <1>4
  <2> QED BY <1>1, <1>2, <1>3, <1>4, <2>1, Undisturbed DEF IInv
<1>5. ASSUME NEW m \in Handlers, m # n, tx'[m] # None PROVE tx'[m].recv <= clock'
  <2>1. tx[m] # None /\ tx[m].recv \in Nat /\ tx[m].recv <= clock /\ tx'[m] = tx[m]
    BY <1>1, <1>2, <1>5, TxFacts DEF IInv, ClockInv
  <2> QED BY <1>1, <1>2, <2>1
<1> QED BY <1>2, <1>3, <1>4, <1>5

\* A transaction is rolled back; a refusal has its reason in the store.
LEMMA RollbackInv ==
  ASSUME IInv, NEW n \in Handlers, tx[n] # None, Rollback(n), Return(n) \/ Retry(n),
         UNCHANGED <<done, latest, beats>>, faults' \in 0..MaxFaults,
         \/ refused' = refused
         \/ \E r \in [house : Houses, entry : AssetEntry] :
              /\ refused' = refused \cup {r}
              /\ \E table \in Tables :
                   LET row == store[<<table, r.entry.id>>] IN
                   row # None /\ (row.house # r.house \/ row.type # r.entry.type)
  PROVE  IInv'
<1>1. StateTypes /\ ReleaseAll(n) /\ store' = store /\ lastBeat' = lastBeat
  BY DEF IInv, Rollback
<1>2. /\ clock' \in Nat /\ clock <= clock'
      /\ tx' \in [Handlers -> Tx \cup {None}]
      /\ holder' \in [Locks -> Handlers \cup {None}]
      /\ \A m \in Handlers : TxSound(m)'
      /\ \A m \in Handlers : tx'[m] # None => tx'[m].recv <= clock'
      /\ BudgetInv'
  BY <1>1, EndInv
<1>3. /\ refused' \subseteq [house : Houses, entry : AssetEntry]
      /\ \A r \in refused' : \E table \in Tables :
           LET row == store[<<table, r.entry.id>>] IN
           row # None /\ (row.house # r.house \/ row.type # r.entry.type)
  BY <1>1 DEF IInv, StateTypes, ConflictIsReal
<1>4. StateTypes'
  BY <1>1, <1>2, <1>3 DEF StateTypes
<1>5. ClockInv'
  <2>1. \A h \in Houses : lastBeat[h] \in Nat /\ lastBeat[h] <= clock /\ clock \in Nat
    BY <1>1 DEF IInv, ClockInv, StateTypes
  <2>2. clock >= 1 /\ clock \in Nat
    BY <1>1 DEF IInv, ClockInv, StateTypes
  <2>3. clock' >= 1
    BY <1>2, <2>2
  <2> QED BY <1>1, <1>2, <2>1, <2>3 DEF ClockInv
<1>6. LatestStored' /\ AppliedWhole' /\ CapabilitiesCurrent'
  BY <1>1 DEF IInv, LatestStored, AppliedWhole, CapabilitiesCurrent
<1>7. ConflictIsReal'
  BY <1>1, <1>3 DEF ConflictIsReal
<1> QED BY <1>2, <1>4, <1>5, <1>6, <1>7 DEF IInv

\* The entry conflicts with the row it was compared with.
LEMMA ConflictInv ==
  ASSUME IInv, NEW n \in Handlers, Conflict(n)
  PROVE  IInv'
<1>1. /\ tx[n] # None /\ tx[n].at = "apply" /\ Known(n) /\ Verdict(n) = "conflict"
      /\ Rollback(n) /\ Return(n) /\ UNCHANGED <<done, latest, beats, faults>>
  BY DEF Conflict, At
<1>2. StateTypes /\ Current(n) /\ faults \in 0..MaxFaults
  BY <1>1, TxSoundFacts DEF StateTypes
<1> DEFINE k == KnownAs(n)
           e == Entry(n)
           r == [house |-> tx[n].house, entry |-> e]
<1>3. e \in AssetEntry /\ k = Reported(n, tx[n].next) /\ tx[n].house \in Houses
  BY <1>1, <1>2, EntryFacts, TxFacts
<1>4. k = <<"registered", e.id>> \/ k = <<"discovered", e.id>>
  BY DEF KnownAs, Reg, Disc
<1>5. /\ k \in DOMAIN tx[n].found /\ store[k] = tx[n].found[k]
      /\ tx[n].found[k] # None
  BY <1>1, <1>2, TxFacts, RowMapFacts DEF Known, Current
<1>6. store[k].house # tx[n].house \/ store[k].type # e.type
  <2>1. tx[n].found[k].house # tx[n].house \/ tx[n].found[k].type # e.type
    BY <1>1 DEF Verdict, CompareAsset
  <2> QED BY <1>5, <2>1
<1>7. refused' = refused \cup {r}
  BY DEF Conflict
<1> HIDE DEF e, k
<1>8. /\ r \in [house : Houses, entry : AssetEntry] /\ r.house = tx[n].house
      /\ r.entry = e
  BY <1>3
<1> HIDE DEF r
<1>9. \E table \in Tables : /\ store[<<table, r.entry.id>>] # None
                            /\ \/ store[<<table, r.entry.id>>].house # r.house
                               \/ store[<<table, r.entry.id>>].type # r.entry.type
  BY <1>4, <1>5, <1>6, <1>8 DEF Tables
<1> QED BY <1>1, <1>2, <1>7, <1>8, <1>9, RollbackInv

\* A deadlock, a database error and an interruption leave no trace.
LEMMA AbortInv ==
  ASSUME IInv, NEW n \in Handlers,
         DeadlockDetected(n) \/ DatabaseError(n) \/ Interrupted(n)
  PROVE  IInv'
<1>1. faults \in 0..MaxFaults /\ MaxFaults \in Nat
  BY AssetsAssumption DEF IInv, StateTypes
<1>2. tx[n] # None
  <2>1. CASE DeadlockDetected(n)
    <3>1. Wants(n) # None
      BY <2>1 DEF DeadlockDetected, InCycle, Blocked
    <3> QED BY <3>1 DEF Wants, At, Inserts
  <2> QED BY <2>1 DEF DatabaseError, Interrupted
<1>3. faults' \in 0..MaxFaults
  BY <1>1 DEF DeadlockDetected, DatabaseError, Interrupted, Fault
<1> QED BY <1>2, <1>3, RollbackInv
        DEF DeadlockDetected, DatabaseError, Interrupted, histVars

\* Committed rows keep their house and their type.
Keeps ==
  \A k \in Keys : store[k] # None =>
    store'[k] # None /\ store'[k].house = store[k].house /\ store'[k].type = store[k].type

\* Such a step keeps what was refused and what was listed.
LEMMA KeepsFacts ==
  ASSUME IInv, Keeps
  PROVE  /\ \A r \in refused : \E table \in Tables :
              LET row == store'[<<table, r.entry.id>>] IN
              row # None /\ (row.house # r.house \/ row.type # r.entry.type)
         /\ \A d \in done : \A i \in DOMAIN d.assets : \E table \in Tables :
              LET row == store'[<<table, d.assets[i].id>>] IN
              row # None /\ row.house = d.house /\ row.type = d.assets[i].type
<1>1. \A a \in Assets, table \in Tables : <<table, a>> \in Keys
  BY DEF Keys
<1>2. \A r \in refused : r.entry.id \in Assets
  BY DEF IInv, StateTypes, AssetEntry
<1>3. \A d \in done : \A i \in DOMAIN d.assets : d.assets[i].id \in Assets
  BY PayloadFacts DEF IInv, StateTypes
<1>4. ASSUME NEW r \in refused
      PROVE  \E table \in Tables :
               LET row == store'[<<table, r.entry.id>>] IN
               row # None /\ (row.house # r.house \/ row.type # r.entry.type)
  <2>1. PICK table \in Tables :
          LET row == store[<<table, r.entry.id>>] IN
          row # None /\ (row.house # r.house \/ row.type # r.entry.type)
    BY DEF IInv, ConflictIsReal
  <2> QED BY <1>1, <1>2, <2>1 DEF Keeps
<1>5. ASSUME NEW d \in done, NEW i \in DOMAIN d.assets
      PROVE  \E table \in Tables :
               LET row == store'[<<table, d.assets[i].id>>] IN
               row # None /\ row.house = d.house /\ row.type = d.assets[i].type
  <2>1. PICK table \in Tables :
          LET row == store[<<table, d.assets[i].id>>] IN
          row # None /\ row.house = d.house /\ row.type = d.assets[i].type
    BY DEF IInv, AppliedWhole
  <2> QED BY <1>1, <1>3, <2>1 DEF Keeps
<1> QED BY <1>4, <1>5

\* The three parts of AppliedWhole.
TimesSound ==
  \A h \in Houses :
    LET times == {d.recv : d \in {d \in done : d.house = h}} IN
    /\ times = {} => lastBeat[h] = 0
    /\ times # {} => lastBeat[h] \in times /\ \A t \in times : t <= lastBeat[h]

ListedKnown ==
  \A d \in done : \A i \in DOMAIN d.assets : \E table \in Tables :
    LET row == store[<<table, d.assets[i].id>>] IN
    row # None /\ row.house = d.house /\ row.type = d.assets[i].type

ObservedListed ==
  \A a \in Assets : store[Disc(a)] # None =>
    \E d \in done : \E i \in DOMAIN d.assets :
      /\ d.assets[i].id = a
      /\ d.house = store[Disc(a)].house
      /\ d.assets[i].type = store[Disc(a)].type

\* They are what it says.
LEMMA WholeFacts == AppliedWhole <=> TimesSound /\ ListedKnown /\ ObservedListed
BY DEF AppliedWhole, TimesSound, ListedKnown, ObservedListed

\* Someone registers an asset.
LEMMA RegisterAssetInv ==
  ASSUME IInv, NEW r \in Registrations, RegisterAsset(r)
  PROVE  IInv'
<1> USE DEF histVars
<1> DEFINE k == Reg(r.id)
<1>1. /\ store[k] = None /\ store' = [store EXCEPT ![k] = r.row]
      /\ faults > 0 /\ faults' = faults - 1
      /\ UNCHANGED <<clock, lastBeat, holder, tx, done, latest, refused, beats>>
  BY DEF RegisterAsset, Fault
<1>2. /\ StateTypes /\ store \in [Keys -> Row \cup {None}] /\ faults \in 0..MaxFaults
      /\ r.id \in Assets /\ r.row \in Row
  BY AssetsAssumption DEF IInv, StateTypes
<1>3. k \in Keys /\ \A a \in Assets : Disc(a) \in Keys /\ Disc(a) # k
  BY <1>2, KeyFacts
<1>4. k[1] # "discovered"
  BY <1>2, KeyFacts
<1> HIDE DEF k
<1>5. /\ store' \in [Keys -> Row \cup {None}]
      /\ \A y \in Keys : store[y] # None => store'[y] = store[y]
      /\ \A y \in Keys : y[1] = "discovered" => store'[y] = store[y]
      /\ \A a \in Assets : store'[Disc(a)] = store[Disc(a)]
  BY <1>1, <1>2, <1>3, <1>4
<1>6. StateTypes'
  <2>1. faults' \in 0..MaxFaults
    BY <1>1, <1>2, AssetsAssumption
  <2> QED BY <1>1, <1>2, <1>5, <2>1 DEF StateTypes
<1>7. \A m \in Handlers : TxSound(m)'
  BY <1>1, <1>2, <1>5, Undisturbed DEF IInv
<1>8. ClockInv' /\ BudgetInv'
  BY <1>1 DEF IInv, ClockInv, BudgetInv, Left
<1>9. LatestStored' /\ CapabilitiesCurrent'
  BY <1>1, <1>5 DEF IInv, LatestStored, CapabilitiesCurrent
<1>10. Keeps
  BY <1>5 DEF Keeps
<1>11. ConflictIsReal'
  BY <1>1, <1>10, KeepsFacts DEF ConflictIsReal
<1>12. AppliedWhole'
  <2>1. TimesSound /\ ListedKnown /\ ObservedListed
    BY WholeFacts DEF IInv
  <2>2. TimesSound' /\ ObservedListed'
    BY <1>1, <1>5, <2>1 DEF TimesSound, ObservedListed
  <2>3. ListedKnown'
    BY <1>1, <1>10, KeepsFacts DEF ListedKnown
  <2> QED BY <2>2, <2>3 DEF AppliedWhole, TimesSound, ListedKnown, ObservedListed
<1> QED BY <1>6, <1>7, <1>8, <1>9, <1>11, <1>12 DEF IInv

-----------------------------------------------------------------------------
(* Commits                                                                 *)

\* At the commit every entry is dealt with: what n writes are the rows of its
\* entries, and afterwards these rows say what the entries say.
LEMMA CommitFacts ==
  ASSUME IInv, NEW n \in Handlers, Committed(n)
  PROVE  /\ tx[n] # None /\ store' \in [Keys -> Row \cup {None}]
         /\ Keeps
         /\ \A k \in Keys : holder[k] # n => store'[k] = store[k]
         /\ \A i \in DOMAIN tx[n].assets :
              /\ store'[Reported(n, i)] # None
              /\ Says(store'[Reported(n, i)], tx[n].house, tx[n].assets[i])
         /\ \A k \in Keys : store'[k] = store[k]
              \/ \E i \in DOMAIN tx[n].assets : k = Reported(n, i)
<1>1. /\ tx[n] # None /\ tx[n].at = "commit"
      /\ store' = [k \in Keys |-> IF k \in DOMAIN tx[n].writes
                                  THEN tx[n].writes[k] ELSE store[k]]
  BY DEF Committed, At, Visible
<1>2. /\ StateTypes /\ Locked(n) /\ Current(n) /\ Phase(n)
      /\ EntriesDone(n) /\ WritesOwn(n) /\ store \in [Keys -> Row \cup {None}]
  BY <1>1, TxSoundFacts DEF StateTypes
<1>3. /\ tx[n].assets \in Payloads /\ tx[n].found \in RowMap /\ tx[n].writes \in RowMap
      /\ DOMAIN tx[n].found \in SUBSET Keys /\ DOMAIN tx[n].writes \in SUBSET Keys
  BY <1>1, <1>2, TxFacts
<1>4. /\ \A k \in DOMAIN tx[n].writes : tx[n].writes[k] \in Row /\ tx[n].writes[k] # None
      /\ \A k \in DOMAIN tx[n].found : tx[n].found[k] \in Row /\ tx[n].found[k] # None
  BY <1>3, RowMapFacts
<1>5. /\ \A k \in DOMAIN tx[n].writes : store'[k] = tx[n].writes[k]
      /\ \A k \in Keys : k \notin DOMAIN tx[n].writes => store'[k] = store[k]
      /\ store' \in [Keys -> Row \cup {None}]
  BY <1>1, <1>2, <1>3, <1>4
<1>6. 1..(tx[n].next - 1) = DOMAIN tx[n].assets
  <2>1. tx[n].next = Len(tx[n].assets) + 1
    BY <1>1, <1>2 DEF Phase
  <2>2. Len(tx[n].assets) \in Nat /\ DOMAIN tx[n].assets = 1..Len(tx[n].assets)
    BY <1>3, PayloadFacts
  <2>3. tx[n].next - 1 = Len(tx[n].assets)
    BY <2>1, <2>2
  <2> QED BY <2>2, <2>3
<1>7. Keeps
  <2> SUFFICES ASSUME NEW k \in Keys, store[k] # None
               PROVE  /\ store'[k] # None /\ store'[k].house = store[k].house
                      /\ store'[k].type = store[k].type
    BY DEF Keeps
  <2>1. CASE k \in DOMAIN tx[n].writes
    <3>1. /\ k \in DOMAIN tx[n].found
          /\ tx[n].writes[k].house = tx[n].found[k].house
          /\ tx[n].writes[k].type = tx[n].found[k].type
      BY <1>2, <2>1 DEF WritesOwn
    <3>2. store[k] = tx[n].found[k]
      BY <1>2, <3>1 DEF Current
    <3> QED BY <1>4, <1>5, <2>1, <3>1, <3>2
  <2> QED BY <1>5, <2>1
<1>8. \A k \in Keys : holder[k] # n => store'[k] = store[k]
  BY <1>2, <1>5 DEF Locked
<1>9. ASSUME NEW i \in DOMAIN tx[n].assets
      PROVE  /\ store'[Reported(n, i)] # None
             /\ Says(store'[Reported(n, i)], tx[n].house, tx[n].assets[i])
  <2> DEFINE k == Reported(n, i)
  <2>1. k \in Keys /\ i \in 1..(tx[n].next - 1)
    BY <1>1, <1>2, <1>6, ReportedFacts
  <2>2. IF k \in DOMAIN tx[n].writes
        THEN Says(tx[n].writes[k], tx[n].house, tx[n].assets[i])
        ELSE k \in DOMAIN tx[n].found
             /\ Says(tx[n].found[k], tx[n].house, tx[n].assets[i])
    BY <1>2, <2>1 DEF EntriesDone
  <2> HIDE DEF k
  <2>3. CASE k \in DOMAIN tx[n].writes
    BY <1>4, <1>5, <2>2, <2>3 DEF k
  <2>4. CASE k \notin DOMAIN tx[n].writes
    <3>1. store'[k] = tx[n].found[k] /\ k \in DOMAIN tx[n].found
      BY <1>2, <1>5, <2>1, <2>2, <2>4 DEF Current
    <3> QED BY <1>4, <2>2, <2>4, <3>1 DEF k
  <2> QED BY <2>3, <2>4
<1>10. \A k \in Keys : store'[k] = store[k]
         \/ \E i \in DOMAIN tx[n].assets : k = Reported(n, i)
  BY <1>2, <1>5, <1>6 DEF WritesOwn
<1> QED BY <1>1, <1>5, <1>7, <1>8, <1>9, <1>10

\* The report that a commit makes the latest of a row.
LEMMA LatestFacts ==
  ASSUME IInv, NEW n \in Handlers, Committed(n)
  PROVE  /\ latest' \in [Keys -> Caps \cup {None}]
         /\ \A i \in DOMAIN tx[n].assets :
              latest'[Reported(n, i)] = tx[n].assets[i].caps
         /\ \A k \in Keys : latest'[k] = latest[k]
              \/ \E i \in DOMAIN tx[n].assets : k = Reported(n, i)
<1>1. /\ tx[n] # None
      /\ latest' = [k \in Keys |->
           IF \E i \in DOMAIN tx[n].assets : Reported(n, i) = k
           THEN tx[n].assets[CHOOSE i \in DOMAIN tx[n].assets :
                               Reported(n, i) = k].caps
           ELSE latest[k]]
  BY DEF Committed, At
<1>2. StateTypes /\ latest \in [Keys -> Caps \cup {None}]
  BY DEF IInv, StateTypes
<1>3. /\ \A i \in DOMAIN tx[n].assets : Reported(n, i) \in Keys
      /\ \A i, j \in DOMAIN tx[n].assets : Reported(n, i) = Reported(n, j) => i = j
      /\ \A i \in DOMAIN tx[n].assets : tx[n].assets[i].caps \in Caps
  BY <1>1, <1>2, ReportedFacts, TxFacts, PayloadFacts
<1>4. ASSUME NEW i \in DOMAIN tx[n].assets
      PROVE  latest'[Reported(n, i)] = tx[n].assets[i].caps
  <2> DEFINE j == CHOOSE j \in DOMAIN tx[n].assets : Reported(n, j) = Reported(n, i)
  <2>1. j \in DOMAIN tx[n].assets /\ Reported(n, j) = Reported(n, i)
    BY <1>4
  <2>2. j = i
    <3> HIDE DEF j
    <3> QED BY <1>3, <1>4, <2>1
  <2>3. latest'[Reported(n, i)] = tx[n].assets[j].caps
    BY <1>1, <1>3, <1>4
  <2> QED BY <2>2, <2>3
<1>5. \A k \in Keys : latest'[k] = latest[k]
        \/ \E i \in DOMAIN tx[n].assets : k = Reported(n, i)
  BY <1>1
<1>6. latest' \in [Keys -> Caps \cup {None}]
  <2>1. \A k \in Keys : latest'[k] \in Caps \cup {None}
    BY <1>2, <1>3, <1>4, <1>5
  <2> QED BY <1>1, <2>1
<1> QED BY <1>4, <1>5, <1>6

\* A transaction commits, and its handler returns or, without the answer to
\* COMMIT, begins again.
LEMMA CommittedInv ==
  ASSUME IInv, NEW n \in Handlers, Commit(n) \/ CommitUnknown(n)
  PROVE  IInv'
<1>1. Committed(n) /\ (Return(n) \/ Retry(n)) /\ (UNCHANGED faults \/ Fault)
  BY DEF Commit, CommitUnknown
<1>2. /\ tx[n] # None /\ store' \in [Keys -> Row \cup {None}]
      /\ Keeps
      /\ \A k \in Keys : holder[k] # n => store'[k] = store[k]
      /\ \A i \in DOMAIN tx[n].assets :
           /\ store'[Reported(n, i)] # None
           /\ Says(store'[Reported(n, i)], tx[n].house, tx[n].assets[i])
      /\ \A k \in Keys : store'[k] = store[k]
           \/ \E i \in DOMAIN tx[n].assets : k = Reported(n, i)
  BY <1>1, CommitFacts
<1> DEFINE d == [house |-> tx[n].house, assets |-> tx[n].assets, recv |-> tx[n].recv]
<1>3. /\ lastBeat' = [lastBeat EXCEPT ![tx[n].house] = Later(@, tx[n].recv)]
      /\ ReleaseAll(n) /\ done' = done \cup {d} /\ UNCHANGED <<refused, beats>>
  BY <1>1 DEF Committed, Visible
<1>4. /\ StateTypes /\ lastBeat \in [Houses -> Nat] /\ clock \in Nat
      /\ faults \in 0..MaxFaults
  BY DEF IInv, StateTypes
<1>5. /\ tx[n].house \in Houses /\ tx[n].assets \in Payloads /\ tx[n].recv \in Nat
  BY <1>2, <1>4, TxFacts
<1>6. /\ d \in [house : Houses, assets : Payloads, recv : Nat]
      /\ d.house = tx[n].house /\ d.assets = tx[n].assets /\ d.recv = tx[n].recv
  BY <1>5
<1> HIDE DEF d
<1>7. /\ clock' \in Nat /\ clock <= clock'
      /\ tx' \in [Handlers -> Tx \cup {None}]
      /\ holder' \in [Locks -> Handlers \cup {None}]
      /\ \A m \in Handlers : TxSound(m)'
      /\ \A m \in Handlers : tx'[m] # None => tx'[m].recv <= clock'
      /\ BudgetInv'
  <2>1. \A k \in Keys : store[k] # None => store'[k] # None
    BY <1>2 DEF Keeps
  <2> QED BY <1>1, <1>2, <1>3, <2>1, EndInv
<1>8. /\ latest' \in [Keys -> Caps \cup {None}]
      /\ \A i \in DOMAIN tx[n].assets :
           latest'[Reported(n, i)] = tx[n].assets[i].caps
      /\ \A k \in Keys : latest'[k] = latest[k]
           \/ \E i \in DOMAIN tx[n].assets : k = Reported(n, i)
  BY <1>1, LatestFacts
<1> DEFINE g == tx[n].house
           b == lastBeat'[g]
<1>9. /\ lastBeat' \in [Houses -> Nat]
      /\ \A h \in Houses : h # g => lastBeat'[h] = lastBeat[h]
      /\ b \in {lastBeat[g], tx[n].recv}
      /\ lastBeat[g] <= b /\ tx[n].recv <= b /\ b \in Nat
  <2>1. Later(lastBeat[g], tx[n].recv) \in Nat
    BY <1>4, <1>5 DEF Later
  <2>2. lastBeat' \in [Houses -> Nat] /\ \A h \in Houses : h # g => lastBeat'[h] = lastBeat[h]
    BY <1>3, <1>4, <1>5, <2>1
  <2>3. b = Later(lastBeat[g], tx[n].recv)
    BY <1>3, <1>4, <1>5
  <2>4. lastBeat[g] \in Nat
    BY <1>4, <1>5
  <2> QED BY <1>5, <2>1, <2>2, <2>3, <2>4 DEF Later
<1>10. StateTypes'
  <2>1. faults' \in 0..MaxFaults
    BY <1>1, <1>4, AssetsAssumption DEF Fault
  <2>2. done' \subseteq [house : Houses, assets : Payloads, recv : Nat]
    BY <1>3, <1>4, <1>6 DEF StateTypes
  <2>3. refused' \subseteq [house : Houses, entry : AssetEntry] /\ beats' \in 0..MaxBeats
    BY <1>3, <1>4 DEF StateTypes
  <2> QED BY <1>2, <1>7, <1>8, <1>9, <2>1, <2>2, <2>3 DEF StateTypes
<1>11. ClockInv'
  <2>1. tx[n].recv <= clock /\ \A h \in Houses : lastBeat[h] \in Nat /\ lastBeat[h] <= clock
    BY <1>2, <1>4 DEF IInv, ClockInv
  <2>2. ASSUME NEW h \in Houses PROVE lastBeat'[h] <= clock'
    <3>1. CASE h # g
      <4>1. lastBeat'[h] = lastBeat[h] /\ lastBeat[h] \in Nat /\ lastBeat[h] <= clock
        BY <1>9, <2>1, <3>1
      <4> QED BY <1>4, <1>7, <4>1
    <3>2. CASE h = g
      <4>1. b <= clock /\ b \in Nat
        BY <1>5, <1>9, <2>1
      <4>2. b <= clock'
        <5> HIDE DEF b
        <5> QED BY <1>4, <1>7, <4>1
      <4> QED BY <3>2, <4>2
    <3> QED BY <3>1, <3>2
  <2>3. clock' >= 1
    <3>1. clock >= 1
      BY DEF IInv, ClockInv
    <3> QED BY <1>4, <1>7, <3>1
  <2> QED BY <1>7, <2>2, <2>3 DEF ClockInv
<1>12. LatestStored' /\ CapabilitiesCurrent'
  <2>1. ASSUME NEW k \in Keys, latest'[k] # None
        PROVE  store'[k] # None /\ store'[k].caps = latest'[k]
    <3>1. CASE \E i \in DOMAIN tx[n].assets : k = Reported(n, i)
      BY <1>2, <1>8, <3>1 DEF Says
    <3>2. CASE ~ \E i \in DOMAIN tx[n].assets : k = Reported(n, i)
      <4>1. latest'[k] = latest[k] /\ store'[k] = store[k]
        BY <1>2, <1>8, <3>2
      <4> QED BY <2>1, <4>1 DEF IInv, LatestStored, CapabilitiesCurrent
    <3> QED BY <3>1, <3>2
  <2> QED BY <2>1 DEF LatestStored, CapabilitiesCurrent
<1>13. ConflictIsReal'
  BY <1>2, <1>3, KeepsFacts DEF ConflictIsReal
<1>14. AppliedWhole'
  <2>1. TimesSound /\ ObservedListed
    BY WholeFacts DEF IInv
  <2>2. TimesSound'
    <3> SUFFICES ASSUME NEW h \in Houses
                 PROVE  LET times == {e.recv : e \in {e \in done' : e.house = h}} IN
                        /\ times = {} => lastBeat'[h] = 0
                        /\ times # {} => /\ lastBeat'[h] \in times
                                         /\ \A t \in times : t <= lastBeat'[h]
      BY DEF TimesSound
    <3> DEFINE old == {e.recv : e \in {e \in done : e.house = h}}
               new == {e.recv : e \in {e \in done' : e.house = h}}
    <3>1. /\ old = {} => lastBeat[h] = 0
          /\ old # {} => lastBeat[h] \in old /\ \A t \in old : t <= lastBeat[h]
      BY <2>1 DEF TimesSound
    <3>2. \A t \in old : t \in Nat
      BY <1>4 DEF StateTypes
    <3>3. CASE h # g
      <4>1. new = old
        BY <1>3, <1>6, <3>3
      <4>2. lastBeat'[h] = lastBeat[h]
        BY <1>9, <3>3
      <4> HIDE DEF old, new
      <4>3. /\ new = {} => lastBeat'[h] = 0
            /\ new # {} => lastBeat'[h] \in new /\ \A t \in new : t <= lastBeat'[h]
        BY <3>1, <4>1, <4>2
      <4> QED BY <4>3 DEF new
    <3>4. CASE h = g
      <4>1. new = old \cup {tx[n].recv}
        BY <1>3, <1>6, <3>4
      <4> HIDE DEF old, new
      <4>2. b \in new
        <5>1. CASE old = {}
          <6>1. lastBeat[g] = 0
            BY <3>1, <3>4, <5>1
          <6>2. b = tx[n].recv
            BY <1>5, <1>9, <6>1
          <6> QED BY <4>1, <6>2
        <5>2. CASE old # {}
          BY <1>9, <3>1, <3>4, <4>1, <5>2
        <5> QED BY <5>1, <5>2
      <4>3. \A t \in new : t <= b
        <5>1. lastBeat[g] \in Nat /\ \A t \in old : t <= lastBeat[g] /\ t \in Nat
          BY <1>4, <1>5, <3>1, <3>2, <3>4
        <5>2. \A t \in old : t <= b
          <6> HIDE DEF b
          <6> QED BY <1>9, <5>1
        <5> QED BY <1>9, <4>1, <5>2
      <4>4. /\ new = {} => lastBeat'[h] = 0
            /\ new # {} => lastBeat'[h] \in new /\ \A t \in new : t <= lastBeat'[h]
        BY <3>4, <4>2, <4>3
      <4> QED BY <4>4 DEF new
    <3> QED BY <3>3, <3>4
  <2>3. ASSUME NEW i \in DOMAIN d.assets
        PROVE  \E table \in Tables :
                 LET row == store'[<<table, d.assets[i].id>>] IN
                 row # None /\ row.house = d.house /\ row.type = d.assets[i].type
    <3>1. i \in DOMAIN tx[n].assets
      BY <1>6, <2>3
    <3>2. PICK table \in Tables : Reported(n, i) = <<table, tx[n].assets[i].id>>
      BY DEF Reported, Reg, Disc, Tables
    <3>3. /\ store'[Reported(n, i)] # None
          /\ store'[Reported(n, i)].house = tx[n].house
          /\ store'[Reported(n, i)].type = tx[n].assets[i].type
      BY <1>2, <3>1 DEF Says
    <3> QED BY <1>6, <3>2, <3>3
  <2>4. ListedKnown'
    BY <1>2, <1>3, <2>3, KeepsFacts DEF ListedKnown
  <2>5. ObservedListed'
    <3> SUFFICES ASSUME NEW a \in Assets, store'[Disc(a)] # None
                 PROVE  \E e \in done' : \E i \in DOMAIN e.assets :
                          /\ e.assets[i].id = a
                          /\ e.house = store'[Disc(a)].house
                          /\ e.assets[i].type = store'[Disc(a)].type
      BY DEF ObservedListed
    <3>1. Disc(a) \in Keys /\ Disc(a)[2] = a
      BY KeyFacts
    <3>2. CASE store'[Disc(a)] = store[Disc(a)]
      BY <1>3, <2>1, <3>2 DEF ObservedListed
    <3>3. ASSUME NEW i \in DOMAIN tx[n].assets, Disc(a) = Reported(n, i)
          PROVE  /\ i \in DOMAIN d.assets /\ d.assets[i].id = a
                 /\ d.house = store'[Disc(a)].house
                 /\ d.assets[i].type = store'[Disc(a)].type
      <4>1. Reported(n, i)[2] = tx[n].assets[i].id
        BY <1>2, <1>4, <3>3, ReportedFacts
      <4>2. Says(store'[Disc(a)], tx[n].house, tx[n].assets[i])
        BY <1>2, <3>3
      <4> QED BY <1>6, <3>1, <3>3, <4>1, <4>2 DEF Says
    <3> QED BY <1>2, <1>3, <3>1, <3>2, <3>3
  <2> QED BY <2>2, <2>4, <2>5 DEF AppliedWhole, TimesSound, ListedKnown, ObservedListed
<1> QED BY <1>7, <1>10, <1>11, <1>12, <1>13, <1>14 DEF IInv

-----------------------------------------------------------------------------
(* The theorems                                                            *)

\* One heartbeat was applied to empty tables.
LEMMA InitInv ==
  ASSUME Init
  PROVE  IInv
<1>1. PICK h \in Houses, p \in Payloads :
        /\ done = {[house |-> h, assets |-> p, recv |-> 1]}
        /\ lastBeat = [g \in Houses |-> IF g = h THEN 1 ELSE 0]
        /\ store = [k \in Keys |->
             IF \E i \in DOMAIN p : k = Disc(p[i].id)
             THEN LET i == CHOOSE i \in DOMAIN p : k = Disc(p[i].id) IN
                  [house |-> h, type |-> p[i].type, caps |-> p[i].caps, seen |-> 1]
             ELSE None]
  BY DEF Init
<1>2. /\ clock = 1 /\ holder = [l \in Locks |-> None] /\ tx = [n \in Handlers |-> None]
      /\ refused = {} /\ beats = MaxBeats /\ faults = MaxFaults
      /\ latest = [k \in Keys |-> IF store[k] = None THEN None ELSE store[k].caps]
  BY DEF Init
<1>3. /\ \A i \in DOMAIN p : /\ p[i].id \in Assets /\ p[i].type \in Types
                             /\ p[i].caps \in Caps
      /\ \A i, j \in DOMAIN p : p[i].id = p[j].id => i = j
  BY PayloadFacts
<1> DEFINE R(i) == [house |-> h, type |-> p[i].type, caps |-> p[i].caps, seen |-> 1]
<1>4. \A i \in DOMAIN p : /\ R(i) \in Row /\ R(i) # None /\ R(i).house = h
                          /\ R(i).type = p[i].type /\ R(i).caps = p[i].caps
  BY <1>3, AssetsAssumption DEF Row
<1>5. ASSUME NEW i \in DOMAIN p PROVE store[Disc(p[i].id)] = R(i)
  <2> DEFINE k == Disc(p[i].id)
             j == CHOOSE j \in DOMAIN p : k = Disc(p[j].id)
  <2>1. k \in Keys
    BY <1>3, KeyFacts
  <2>2. j \in DOMAIN p /\ k = Disc(p[j].id)
    BY <1>5
  <2>3. p[j].id = p[i].id
    <3> HIDE DEF j
    <3> QED BY <1>3, <2>2, KeyFacts
  <2>4. j = i
    <3> HIDE DEF j
    <3> QED BY <1>3, <2>2, <2>3
  <2>5. store[k] = R(j)
    BY <1>1, <1>5, <2>1
  <2> QED BY <2>4, <2>5
<1>6. ASSUME NEW k \in Keys
      PROVE  store[k] = None \/ \E i \in DOMAIN p : k = Disc(p[i].id)
  BY <1>1
<1>7. /\ store \in [Keys -> Row \cup {None}]
  <2>1. \A k \in Keys : store[k] \in Row \cup {None}
    <3> HIDE DEF R
    <3> QED BY <1>4, <1>5, <1>6
  <2> QED BY <1>1, <2>1
<1>8. \A k \in Keys : latest[k] # None => store[k] # None /\ store[k].caps = latest[k]
  BY <1>2
<1>9. StateTypes
  <2>1. clock \in Nat /\ refused \subseteq [house : Houses, entry : AssetEntry]
    BY <1>2
  <2>2. beats \in 0..MaxBeats /\ faults \in 0..MaxFaults
    BY <1>2, AssetsAssumption
  <2>3. lastBeat \in [Houses -> Nat]
        /\ done \subseteq [house : Houses, assets : Payloads, recv : Nat]
    BY <1>1
  <2>4. holder \in [Locks -> Handlers \cup {None}] /\ tx \in [Handlers -> Tx \cup {None}]
    BY <1>2
  <2>5. latest \in [Keys -> Caps \cup {None}]
    <3>1. \A k \in Keys : store[k] # None => store[k].caps \in Caps
      BY <1>7 DEF Row
    <3> QED BY <1>2, <3>1
  <2> QED BY <1>7, <2>1, <2>2, <2>3, <2>4, <2>5 DEF StateTypes
<1>10. \A n \in Handlers : TxSound(n)
  BY <1>2 DEF TxSound
<1>11. ClockInv
  BY <1>1, <1>2 DEF ClockInv
<1>12. BudgetInv
  <2>1. Left = {}
    BY <1>2 DEF Left
  <2>2. Cardinality(Left) = 0
    BY <2>1, FS_EmptySet
  <2>3. MaxBeats * MaxTries \in Nat
    BY AssetsAssumption
  <2> QED BY <1>2, <2>2, <2>3 DEF BudgetInv
<1>13. LatestStored /\ CapabilitiesCurrent /\ ConflictIsReal
  BY <1>2, <1>8 DEF LatestStored, CapabilitiesCurrent, ConflictIsReal
<1>14. AppliedWhole
  <2> DEFINE d == [house |-> h, assets |-> p, recv |-> 1]
  <2>1. done = {d} /\ d.house = h /\ d.assets = p /\ d.recv = 1
    BY <1>1
  <2> HIDE DEF d
  <2>2. TimesSound
    BY <1>1, <2>1 DEF TimesSound
  <2>3. ListedKnown
    <3>1. \A i \in DOMAIN p : /\ store[<<"discovered", p[i].id>>] # None
                              /\ store[<<"discovered", p[i].id>>].house = h
                              /\ store[<<"discovered", p[i].id>>].type = p[i].type
      <4> HIDE DEF R
      <4> QED BY <1>4, <1>5 DEF Disc
    <3> QED BY <2>1, <3>1 DEF ListedKnown, Tables
  <2>4. ObservedListed
    <3> SUFFICES ASSUME NEW a \in Assets, store[Disc(a)] # None
                 PROVE  \E i \in DOMAIN p : /\ p[i].id = a
                                            /\ h = store[Disc(a)].house
                                            /\ p[i].type = store[Disc(a)].type
      BY <2>1 DEF ObservedListed
    <3>1. PICK i \in DOMAIN p : Disc(a) = Disc(p[i].id)
      BY <1>6, KeyFacts
    <3>2. p[i].id = a
      BY <1>3, <3>1, KeyFacts
    <3> HIDE DEF R
    <3> QED BY <1>4, <1>5, <3>1, <3>2
  <2> QED BY <2>2, <2>3, <2>4, WholeFacts
<1> QED BY <1>9, <1>10, <1>11, <1>12, <1>13, <1>14 DEF IInv

\* Every step keeps the invariant.
LEMMA NextInv ==
  ASSUME IInv, [Next]_vars
  PROVE  IInv'
<1>1. CASE UNCHANGED vars
  <2>1. UNCHANGED <<clock, store, lastBeat, holder, tx, done, latest, refused,
                    beats, faults>>
    BY <1>1 DEF vars, dbVars, histVars
  <2>2. StateTypes /\ StateTypes'
    BY <2>1 DEF IInv, StateTypes
  <2>3. \A n \in Handlers : TxSound(n)'
    BY <2>1, <2>2, Undisturbed DEF IInv
  <2>4. ClockInv' /\ LatestStored' /\ BudgetInv'
    BY <2>1 DEF IInv, ClockInv, LatestStored, BudgetInv, Left
  <2>5. AppliedWhole' /\ CapabilitiesCurrent' /\ ConflictIsReal'
    BY <2>1 DEF IInv, AppliedWhole, CapabilitiesCurrent, ConflictIsReal
  <2> QED BY <2>2, <2>3, <2>4, <2>5 DEF IInv
<1>2. ASSUME NEW n \in Handlers,
             \/ Deliver(n) \/ Statement(n) \/ CommitUnknown(n) \/ DatabaseError(n)
             \/ Interrupted(n)
      PROVE  IInv'
  BY <1>2, DeliverInv, TouchHouseInv, SelectAssetsInv, LockRowInv, ApplyKnownInv,
     ConflictInv, ObserveInv, ObserveLostInv, CommittedInv, AbortInv DEF Statement
<1>3. ASSUME NEW r \in Registrations, RegisterAsset(r)
      PROVE  IInv'
  BY <1>3, RegisterAssetInv
<1> QED BY <1>1, <1>2, <1>3 DEF Next

\* In every reachable state the transactions hold the locks of what they have
\* read and will write, what they have read is current, and the retry budget,
\* the tables and the histories agree.
THEOREM InductiveInvariant == Spec => []IInv
<1>1. Init => IInv
  BY InitInv
<1>2. IInv /\ [Next]_vars => IInv'
  BY NextInv
<1> QED BY <1>1, <1>2, PTL DEF Spec

\* ApplyHeartbeat applies a heartbeat whole or not at all, whatever runs
\* beside it and wherever it is rolled back, within the attempts that the
\* retry policy allows and under locks that cover what it read.
THEOREM AppliedSound == Spec => []AppliedInv
<1>1. IInv => AppliedInv
  <2> SUFFICES ASSUME IInv PROVE AppliedInv
    OBVIOUS
  <2>1. /\ StateTypes /\ clock \in Nat /\ beats \in Nat /\ MaxTries \in Nat
        /\ MaxBeats \in Nat /\ AppliedWhole
    BY AssetsAssumption DEF IInv, StateTypes
  <2>2. clock >= 1
    BY DEF IInv, ClockInv
  <2>3. clock <= 1 + MaxBeats * MaxTries
    <3>1. Left \in SUBSET (Handlers \X (1..MaxTries))
      BY DEF Left
    <3>2. Cardinality(Left) \in Nat
      BY <3>1, LeftFinite
    <3> DEFINE x == beats * MaxTries
               y == MaxBeats * MaxTries
    <3>3. x \in Nat /\ y \in Nat
      BY <2>1
    <3>4. clock + Cardinality(Left) + x <= 1 + y
      BY DEF IInv, BudgetInv
    <3> HIDE DEF x, y
    <3>5. clock <= 1 + y
      BY <2>1, <3>2, <3>3, <3>4
    <3> QED BY <3>5 DEF y
  <2>4. lastBeat \in [Houses -> 0..clock]
    <3>1. \A h \in Houses : lastBeat[h] \in 0..clock
      BY <2>1 DEF IInv, ClockInv, StateTypes
    <3> QED BY <2>1, <3>1 DEF StateTypes
  <2>5. ASSUME NEW n \in Handlers, tx[n] # None
        PROVE  /\ tx[n].tries \in 1..MaxTries
               /\ tx[n].at # "house" => holder[<<"house", tx[n].house>>] = n
               /\ \A k \in DOMAIN tx[n].found \cup DOMAIN tx[n].writes : holder[k] = n
    BY <2>1, <2>5, TxFacts, TxSoundFacts DEF Locked
  <2>6. clock \in 1..(1 + MaxBeats * MaxTries)
    <3>1. 1 + MaxBeats * MaxTries \in Nat
      BY <2>1
    <3> QED BY <2>1, <2>2, <2>3, <3>1
  <2>7. TypeOK
    BY <2>1, <2>4, <2>5, <2>6 DEF TypeOK, StateTypes
  <2> QED BY <2>1, <2>7 DEF AppliedInv
<1> QED BY <1>1, InductiveInvariant, PTL

\* The capabilities of a row are those of the last committed report on it:
\* compareAsset never decides on a version that another commit replaces.
THEOREM CapabilitiesSound == Spec => []CapabilitiesCurrent
<1>1. IInv => CapabilitiesCurrent
  BY DEF IInv
<1> QED BY <1>1, InductiveInvariant, PTL

\* ErrIntegrityConflict, which is permanent, always has a committed row with
\* another house or type as its reason.
THEOREM ConflictSound == Spec => []ConflictIsReal
<1>1. IInv => ConflictIsReal
  BY DEF IInv
<1> QED BY <1>1, InductiveInvariant, PTL
=============================================================================
