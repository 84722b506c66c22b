---------------------------- MODULE MeterProofs ----------------------------
(***************************************************************************)
(* Proofs about MeterPipeline for any readings, handlers, policies, retry  *)
(* budget, clock resolution and number of faults.                          *)
(***************************************************************************)
EXTENDS MeterPipeline, TLAPS

\* An operator finds reading r in the ledger, or has discarded it.
Flagged(r) ==
  \E s \in Stages : ledger[<<r, s>>] \in {"unresolved", "discarded"}

\* The history holds rows of readings, one for each identity, and the rebuild
\* window has a newest row as soon as it has one.
HistoryInv ==
  /\ \A x \in history : \E r \in Readings : x = Row(r)
  /\ \A x, y \in history : (x.t = y.t /\ x.seq = y.seq) => x = y
  /\ InWindow # {} =>
       \E x \in InWindow : \A y \in InWindow : x = y \/ After(x, y)

\* A handler reaches the cache write only with its reading stored, and
\* resolves a failure only with Redis current.
JobSound(h) ==
  job[h] # None =>
    /\ job[h].at \in {"latest", "resolve"} => Stored(job[h].r)
    /\ job[h].at = "resolve" => Covers(Row(job[h].r)) \/ lost

JobInv == \A h \in Handlers : JobSound(h)

\* A failure marked replayed is one that was made good.
LedgerInv ==
  \A r \in Readings, s \in Stages : ledger[<<r, s>>] = "replayed" =>
    Stored(r) /\ (Covers(Row(r)) \/ lost)

\* The rebuild writes a stored row that no row of the window is after.
RebuildInv ==
  /\ seen \subseteq history
  /\ rb.at \in {"load", "write"} =>
       /\ rb.row \in history
       /\ seen = {} \/ rb.row \in seen
       /\ \A x \in seen : x = rb.row \/ After(rb.row, x)

\* The inductive invariant.
IInv ==
  /\ TypeOK
  /\ HistoryInv
  /\ LatestDurable
  /\ JobInv
  /\ LedgerInv
  /\ RebuildInv
  /\ AckedDurable
  /\ CurrentOrFlagged

-----------------------------------------------------------------------------
(* The operators of Postgres and Redis.                                    *)

\* Event times in milliseconds are natural numbers.
LEMMA MsType ==
  ASSUME NEW t \in Nat
  PROVE  t \div TicksPerMs \in Nat
BY PipelineAssumption DEF PipelineAssumption

\* The row, the storage rows and the projection of a reading.
LEMMA ReadingTypes ==
  ASSUME NEW r \in Readings
  PROVE  /\ Row(r) \in Rows
         /\ AssetRows(r) \in SUBSET AssetRowSet
         /\ Row(r).t = r.t /\ Row(r).seq = r.seq /\ Row(r).val = r.val
<1>1. r.t \in Nat /\ r.seq \in Nat /\ r.val \in {q.val : q \in Readings}
  BY PipelineAssumption DEF PipelineAssumption
<1>2. r.assets \subseteq Assets
  BY DEF Assets
<1>3. QED
  BY <1>1, <1>2 DEF Row, Rows, AssetRows, AssetRowSet

\* What Redis is given of a row, and the two numbers it compares.
LEMMA ProjectionType ==
  ASSUME NEW x, x.t \in Nat, x.seq \in Nat, x.val \in {r.val : r \in Readings},
         NEW A \in SUBSET AssetRowSet
  PROVE  /\ Projection(x, A) \in Latest
         /\ Projection(x, A).ms = x.t \div TicksPerMs
         /\ Projection(x, A).seq = x.seq
         /\ Projection(x, A).val = x.val
         /\ Projection(x, A).ms \in Nat
<1>1. x.t \div TicksPerMs \in Nat
  BY MsType
<1>2. QED
  BY <1>1 DEF Projection, Latest

\* "Not newer" is transitive: the order is lexicographic in the time in
\* milliseconds and the seq.
LEMMA NotNewerTrans ==
  ASSUME NEW a, NEW b, NEW c, a.ms \in Nat, a.seq \in Nat, b.ms \in Nat, b.seq \in Nat,
         c.ms \in Nat, c.seq \in Nat, ~Newer(a, b), ~Newer(b, c)
  PROVE  ~Newer(a, c)
BY DEF Newer

\* set_latest_if_newer.lua: what was covered stays covered, and what is
\* written is covered then.
LEMMA SetLatestEffect ==
  ASSUME latest \in Latest \cup {None}, NEW p \in Latest, SetLatestIfNewer(p)
  PROVE  /\ latest' \in Latest
         /\ latest' \in {latest, p}
         /\ ~Newer(p, latest')
         /\ latest # None => ~Newer(latest, latest')
         /\ latest' = latest \/ latest = None \/ Newer(latest', latest)
<1>1. \A q \in Latest : q.ms \in Nat /\ q.seq \in Nat /\ q # None
  BY PipelineAssumption DEF Latest, PipelineAssumption
<1>2. CASE Supersedes(p)
  <2>1. latest' = p
    BY <1>2 DEF SetLatestIfNewer
  <2>2. latest = None \/ (latest \in Latest /\ Newer(p, latest))
    BY <1>2 DEF Supersedes
  <2>3. QED
    BY <1>1, <2>1, <2>2 DEF Newer
<1>3. CASE ~Supersedes(p)
  <2>1. latest' = latest /\ latest # None /\ ~Newer(p, latest) /\ latest \in Latest
    BY <1>3 DEF SetLatestIfNewer, Supersedes
  <2>2. QED
    BY <1>1, <2>1 DEF Newer
<1>4. QED
  BY <1>2, <1>3

\* Rows that the latest key covers stay covered while it is only replaced by
\* something newer.
LEMMA CoversKept ==
  ASSUME latest \in Latest \cup {None}, latest' \in Latest \cup {None},
         latest # None => latest' # None /\ ~Newer(latest, latest'),
         NEW x, x.t \in Nat, x.seq \in Nat, Covers(x)
  PROVE  Covers(x)'
<1>1. latest \in Latest /\ latest' \in Latest
  BY DEF Covers
<1>2. \A q \in Latest : q.ms \in Nat /\ q.seq \in Nat
  BY DEF Latest
<1>3. Projection(x, {}).ms \in Nat /\ Projection(x, {}).seq \in Nat
  BY MsType DEF Projection
<1>4. ~Newer(Projection(x, {}), latest')
  BY <1>1, <1>2, <1>3, NotNewerTrans DEF Covers
<1>5. QED
  BY <1>1, <1>4 DEF Covers

\* The transaction of InsertMeterReading: it only adds, its reading is stored
\* then, and the history keeps one row for each identity and a newest row.
LEMMA CommitEffect ==
  ASSUME TypeOK, HistoryInv, NEW r \in Readings, CommitInsert(r)
  PROVE  /\ history' \in SUBSET Rows /\ storage' \in SUBSET AssetRowSet
         /\ history \subseteq history' /\ storage \subseteq storage'
         /\ Stored(r)'
         /\ HistoryInv'
<1>1. /\ history' = history \cup {Row(r)}
      /\ storage' = storage \cup AssetRows(r)
      /\ Exists(r) => Row(r) \in history
  BY DEF CommitInsert, Conflict, Identical
<1>2. /\ history' \in SUBSET Rows /\ storage' \in SUBSET AssetRowSet
      /\ history \subseteq history' /\ storage \subseteq storage'
  BY <1>1, ReadingTypes DEF TypeOK
<1>3. Stored(r)'
  BY <1>1 DEF Stored
<1>4. \A x \in history' : \E q \in Readings : x = Row(q)
  BY <1>1 DEF HistoryInv
<1>5. \A x, y \in history' : (x.t = y.t /\ x.seq = y.seq) => x = y
  <2>1. \A x \in history : (x.t = Row(r).t /\ x.seq = Row(r).seq) => Row(r) \in history
    BY <1>1, ReadingTypes DEF Exists
  <2>2. QED
    BY <1>1, <2>1 DEF HistoryInv
<1>6. InWindow' # {} =>
        \E x \in InWindow' : \A y \in InWindow' : x = y \/ After(x, y)
  <2>1. CASE Row(r).t < Since \/ Row(r) \in history
    <3>1. InWindow' = InWindow
      BY <1>1, <2>1, ReadingTypes, PipelineAssumption DEF InWindow, Rows, PipelineAssumption
    <3>2. QED
      BY <3>1 DEF HistoryInv
  <2>2. CASE Row(r).t >= Since /\ Row(r) \notin history
    <3>1. InWindow' = InWindow \cup {Row(r)}
      BY <1>1, <2>2 DEF InWindow
    <3>2. CASE InWindow = {}
      BY <3>1, <3>2
    <3>3. CASE InWindow # {}
      <4>1. PICK x \in InWindow : \A y \in InWindow : x = y \/ After(x, y)
        BY <3>3 DEF HistoryInv
      <4>2. x \in history' /\ x # Row(r) /\ Row(r) \in history'
        BY <1>1, <2>2 DEF InWindow
      <4>3. x.t # Row(r).t \/ x.seq # Row(r).seq
        BY <1>5, <4>2
      <4>4. \A y \in InWindow' : y.t \in Nat /\ y.seq \in Nat
        BY <1>2 DEF InWindow, Rows
      <4>5. x.t \in Nat /\ x.seq \in Nat /\ Row(r).t \in Nat /\ Row(r).seq \in Nat
        BY <3>1, <4>4
      <4>6. After(x, Row(r)) \/ After(Row(r), x)
        BY <4>3, <4>5 DEF After
      <4>7. CASE After(x, Row(r))
        BY <3>1, <4>1, <4>7
      <4>8. CASE After(Row(r), x)
        <5>1. \A y \in InWindow : After(Row(r), y)
          BY <3>1, <4>1, <4>4, <4>5, <4>8 DEF After
        <5>2. QED
          BY <3>1, <5>1
      <4>9. QED
        BY <4>6, <4>7, <4>8
    <3>4. QED
      BY <3>2, <3>3
  <2>3. QED
    BY <2>1, <2>2, ReadingTypes, PipelineAssumption DEF Rows, PipelineAssumption
<1>7. QED
  BY <1>2, <1>3, <1>4, <1>5, <1>6 DEF HistoryInv

-----------------------------------------------------------------------------
(* Postgres only grows, and Redis only goes forward unless it is lost.     *)

Advances ==
  /\ history \subseteq history' /\ storage \subseteq storage'
  /\ policy' = policy /\ topic' = topic
  /\ lost => lost'
  /\ lost' \/ (latest # None => latest' # None /\ ~Newer(latest, latest'))

\* What is stored stays stored, and what Redis covers stays covered.
LEMMA AdvanceKeeps ==
  ASSUME TypeOK, TypeOK', Advances, NEW r \in Readings
  PROVE  /\ Stored(r) => Stored(r)'
         /\ (Covers(Row(r)) \/ lost) => (Covers(Row(r))' \/ lost')
<1>1. Stored(r) => Stored(r)'
  BY DEF Stored, Advances
<1>2. ASSUME Covers(Row(r)), ~lost'
      PROVE  Covers(Row(r))'
  <2>1. Row(r).t \in Nat /\ Row(r).seq \in Nat
    BY ReadingTypes DEF Rows
  <2>2. /\ latest \in Latest \cup {None} /\ latest' \in Latest \cup {None}
        /\ latest # None => latest' # None /\ ~Newer(latest, latest')
    BY <1>2 DEF TypeOK, Advances
  <2>3. QED
    BY <1>2, <2>1, <2>2, CoversKept
<1>3. QED
  BY <1>1, <1>2 DEF Advances

\* The other handlers keep what they rely on.
LEMMA JobsKept ==
  ASSUME TypeOK, TypeOK', Advances, NEW h \in Handlers, JobSound(h), job'[h] = job[h]
  PROVE  JobSound(h)'
<1>1. CASE job[h] = None
  BY <1>1 DEF JobSound
<1>2. CASE job[h] # None
  <2>1. job[h].r \in Readings
    BY <1>2 DEF TypeOK, Job
  <2>2. DEFINE r == job[h].r
  <2>3. /\ Stored(r) => Stored(r)'
        /\ (Covers(Row(r)) \/ lost) => (Covers(Row(r))' \/ lost')
    <3>1. ASSUME NEW q \in Readings
          PROVE  /\ Stored(q) => Stored(q)'
                 /\ (Covers(Row(q)) \/ lost) => (Covers(Row(q))' \/ lost')
      BY AdvanceKeeps
    <3>2. QED
      BY <2>1, <3>1 DEF Stored, Covers
  <2>4. QED
    BY <2>3 DEF JobSound
<1>3. QED
  BY <1>1, <1>2

\* The ledger stays honest if a failure is only marked replayed when it was
\* made good.
LEMMA LedgerKept ==
  ASSUME TypeOK, TypeOK', Advances, LedgerInv,
         \A r \in Readings, s \in Stages : ledger'[<<r, s>>] = "replayed" =>
           \/ ledger[<<r, s>>] = "replayed"
           \/ Stored(r) /\ (Covers(Row(r)) \/ lost)
  PROVE  LedgerInv'
<1>1. ASSUME NEW r \in Readings, NEW s \in Stages, ledger'[<<r, s>>] = "replayed"
      PROVE  Stored(r)' /\ (Covers(Row(r))' \/ lost')
  <2>1. Stored(r) /\ (Covers(Row(r)) \/ lost)
    BY <1>1 DEF LedgerInv
  <2>2. QED
    BY <2>1, AdvanceKeeps
<1>2. QED
  BY <1>1 DEF LedgerInv

\* An acknowledged reading stays stored or flagged, and a new one is: what is
\* recorded is unresolved, discarded, or was made good by a replay.
LEMMA AckedKept ==
  ASSUME IInv, TypeOK', Advances, LedgerInv',
         \A f \in Readings \X Stages : ledger[f] # "none" => ledger'[f] # "none",
         \A r \in acked' \ acked :
           \/ Stored(r)' /\ (~Required \/ lost' \/ Covers(Row(r))')
           \/ \E s \in Stages : ledger'[<<r, s>>] # "none"
  PROVE  AckedDurable' /\ CurrentOrFlagged'
<1>1. TypeOK /\ AckedDurable /\ CurrentOrFlagged /\ Required' = Required
  BY DEF IInv, Advances, Required
<1>2. ASSUME NEW r \in Readings, NEW s \in Stages, ledger'[<<r, s>>] # "none"
      PROVE  \/ Flagged(r)'
             \/ Stored(r)' /\ (Covers(Row(r))' \/ lost')
  <2>1. ledger'[<<r, s>>] \in Resolutions
    BY DEF TypeOK
  <2>2. CASE ledger'[<<r, s>>] = "replayed"
    BY <2>2 DEF LedgerInv
  <2>3. CASE ledger'[<<r, s>>] \in {"unresolved", "discarded"}
    BY <2>3 DEF Flagged
  <2>4. QED
    BY <1>2, <2>1, <2>2, <2>3 DEF Resolutions
<1>3. ASSUME NEW r \in acked'
      PROVE  /\ Stored(r)' \/ Flagged(r)'
             /\ ~Required \/ lost' \/ Covers(Row(r))' \/ Flagged(r)'
  <2>1. r \in Readings
    BY DEF TypeOK
  <2>2. CASE r \in acked
    <3>1. CASE Flagged(r)
      <4>1. PICK s \in Stages : ledger[<<r, s>>] \in {"unresolved", "discarded"}
        BY <3>1 DEF Flagged
      <4>2. ledger'[<<r, s>>] # "none"
        BY <2>1, <4>1
      <4>3. QED
        BY <1>2, <2>1, <4>2
    <3>2. CASE ~Flagged(r)
      <4>1. Stored(r) /\ (~Required \/ lost \/ Covers(Row(r)))
        BY <1>1, <2>2, <3>2 DEF AckedDurable, CurrentOrFlagged, Flagged, Covers
      <4>2. QED
        BY <1>1, <2>1, <4>1, AdvanceKeeps
    <3>3. QED
      BY <3>1, <3>2
  <2>3. CASE r \notin acked
    BY <1>2, <2>1, <2>3
  <2>4. QED
    BY <2>2, <2>3
<1>4. AckedDurable'
  BY <1>3 DEF AckedDurable, Flagged
<1>5. CurrentOrFlagged'
  BY <1>1, <1>3 DEF CurrentOrFlagged, Flagged, Covers
<1>6. QED
  BY <1>4, <1>5

\* Redis shows nothing new but what Postgres has.
LEMMA DurableKept ==
  ASSUME LatestDurable, history \subseteq history',
         \/ latest' \in {latest, None}
         \/ \E x \in history : /\ x.t \div TicksPerMs = latest'.ms
                               /\ x.seq = latest'.seq
                               /\ x.val = latest'.val
  PROVE  LatestDurable'
BY DEF LatestDurable

-----------------------------------------------------------------------------
(* The handlers.                                                           *)

\* What a step of handler h leaves behind.
HandlerMoves(h) ==
  /\ UNCHANGED <<policy, topic, rb, seen, lost>>
  /\ faults' \in 0..MaxFaults[policy]
  /\ job'[h] \in Job \cup {None}
  /\ job' = [job EXCEPT ![h] = job'[h]]
  /\ JobSound(h)'
  /\ \/ UNCHANGED <<history, storage>>
     \/ \E r \in Readings : CommitInsert(r)
  /\ \/ UNCHANGED latest
     \/ job[h] # None /\ job[h].at = "latest" /\ WriteLatest(h)
  /\ ledger' \in [Readings \X Stages -> Resolutions]
  /\ \A f \in Readings \X Stages :
       \/ ledger'[f] = ledger[f]
       \/ ledger[f] = "none" /\ ledger'[f] = "unresolved"
       \/ /\ job[h] # None /\ job[h].at = "resolve"
          /\ f = <<job[h].r, job[h].stage>>
          /\ ledger'[f] = "replayed"
  /\ acked' \in SUBSET Readings
  /\ \A r \in acked' \ acked :
       \/ Stored(r)' /\ (~Required \/ lost' \/ Covers(Row(r))')
       \/ \E s \in Stages : ledger'[<<r, s>>] # "none"

\* The write of the latest key for a reading: its row is covered then.
LEMMA WriteEffect ==
  ASSUME TypeOK, NEW r \in Readings,
         SetLatestIfNewer(Projection(r, AssetRows(r)))
  PROVE  /\ latest' \in Latest
         /\ latest # None => ~Newer(latest, latest')
         /\ latest' = latest \/ latest = None \/ Newer(latest', latest)
         /\ Covers(Row(r))'
         /\ \/ latest' = latest
            \/ /\ latest'.ms = Row(r).t \div TicksPerMs
               /\ latest'.seq = Row(r).seq
               /\ latest'.val = Row(r).val
<1> DEFINE p == Projection(r, AssetRows(r))
<1>1. /\ r.t \in Nat /\ r.seq \in Nat /\ r.val \in {q.val : q \in Readings}
      /\ AssetRows(r) \in SUBSET AssetRowSet
      /\ Row(r).t = r.t /\ Row(r).seq = r.seq /\ Row(r).val = r.val
  BY ReadingTypes, PipelineAssumption DEF PipelineAssumption
<1>2. /\ p \in Latest /\ p.ms = r.t \div TicksPerMs /\ p.seq = r.seq /\ p.val = r.val
  BY <1>1, ProjectionType
<1>3. /\ latest' \in Latest /\ latest' \in {latest, p} /\ ~Newer(p, latest')
      /\ latest # None => ~Newer(latest, latest')
      /\ latest' = latest \/ latest = None \/ Newer(latest', latest)
  BY <1>2, SetLatestEffect DEF TypeOK
<1>4. latest' # None
  BY <1>3, PipelineAssumption DEF PipelineAssumption
<1>5. /\ Projection(Row(r), {}).ms = p.ms
      /\ Projection(Row(r), {}).seq = p.seq
  BY <1>1, <1>2 DEF Projection
<1>6. ~Newer(Projection(Row(r), {}), latest')
  BY <1>3, <1>5 DEF Newer
<1>7. QED
  BY <1>1, <1>2, <1>3, <1>4, <1>6 DEF Covers

\* Such a step preserves the invariant.
LEMMA HandlerMovesInv ==
  ASSUME IInv, NEW h \in Handlers, HandlerMoves(h)
  PROVE  IInv'
<1>1. /\ TypeOK /\ HistoryInv /\ LatestDurable /\ JobInv /\ LedgerInv /\ RebuildInv
      /\ UNCHANGED <<policy, topic, rb, seen, lost>>
  BY DEF IInv, HandlerMoves
<1>2. /\ history' \in SUBSET Rows /\ storage' \in SUBSET AssetRowSet
      /\ history \subseteq history' /\ storage \subseteq storage'
      /\ HistoryInv'
  <2>1. CASE UNCHANGED <<history, storage>>
    BY <1>1, <2>1 DEF TypeOK, HistoryInv, InWindow
  <2>2. CASE \E r \in Readings : CommitInsert(r)
    BY <1>1, <2>2, CommitEffect
  <2>3. QED
    BY <2>1, <2>2 DEF HandlerMoves
<1>3. /\ latest' \in Latest \cup {None}
      /\ latest # None => latest' # None /\ ~Newer(latest, latest')
      /\ LatestDurable'
  <2>1. CASE UNCHANGED latest
    <3>1. LatestDurable'
      BY <1>1, <1>2, <2>1, DurableKept
    <3>2. latest # None => ~Newer(latest, latest)
      <4>1. latest # None => latest.ms \in Nat /\ latest.seq \in Nat
        BY <1>1 DEF TypeOK, Latest
      <4>2. QED
        BY <4>1 DEF Newer
    <3>3. QED
      BY <1>1, <2>1, <3>1, <3>2 DEF TypeOK
  <2>2. CASE job[h] # None /\ job[h].at = "latest" /\ WriteLatest(h)
    <3>1. job[h].r \in Readings /\ Row(job[h].r) \in history
      BY <1>1, <2>2 DEF TypeOK, Job, JobInv, JobSound, Stored
    <3>2. SetLatestIfNewer(Projection(job[h].r, AssetRows(job[h].r)))
      BY <2>2 DEF WriteLatest
    <3>3. /\ latest' \in Latest
          /\ latest # None => ~Newer(latest, latest')
          /\ \/ latest' = latest
             \/ /\ latest'.ms = Row(job[h].r).t \div TicksPerMs
                /\ latest'.seq = Row(job[h].r).seq
                /\ latest'.val = Row(job[h].r).val
      BY <1>1, <3>1, <3>2, WriteEffect
    <3>4. LatestDurable'
      BY <1>1, <1>2, <3>1, <3>3, DurableKept
    <3>5. QED
      BY <3>3, <3>4, PipelineAssumption DEF PipelineAssumption
  <2>3. QED
    BY <2>1, <2>2 DEF HandlerMoves
<1>4. job' \in [Handlers -> Job \cup {None}] /\ \A g \in Handlers \ {h} : job'[g] = job[g]
  BY <1>1 DEF TypeOK, HandlerMoves
<1>5. TypeOK'
  BY <1>1, <1>2, <1>3, <1>4 DEF TypeOK, HandlerMoves
<1>6. Advances
  BY <1>1, <1>2, <1>3 DEF Advances
<1>7. JobInv'
  <2>1. \A g \in Handlers \ {h} : JobSound(g)'
    BY <1>1, <1>4, <1>5, <1>6, JobsKept DEF JobInv
  <2>2. JobSound(h)'
    BY DEF HandlerMoves
  <2>3. QED
    BY <2>1, <2>2 DEF JobInv
<1>8. LedgerInv'
  <2>1. \A r \in Readings, s \in Stages : ledger'[<<r, s>>] = "replayed" =>
          \/ ledger[<<r, s>>] = "replayed"
          \/ Stored(r) /\ (Covers(Row(r)) \/ lost)
    <3>1. ASSUME NEW r \in Readings, NEW s \in Stages, ledger'[<<r, s>>] = "replayed",
                 ledger[<<r, s>>] # "replayed"
          PROVE  Stored(r) /\ (Covers(Row(r)) \/ lost)
      <4>1. job[h] # None /\ job[h].at = "resolve" /\ r = job[h].r
        BY <3>1 DEF HandlerMoves
      <4>2. QED
        BY <1>1, <4>1 DEF JobInv, JobSound
    <3>2. QED
      BY <3>1
  <2>2. QED
    BY <1>1, <1>5, <1>6, <2>1, LedgerKept
<1>9. AckedDurable' /\ CurrentOrFlagged'
  <2>1. \A f \in Readings \X Stages : ledger[f] # "none" => ledger'[f] # "none"
    BY DEF HandlerMoves
  <2>2. \A r \in acked' \ acked :
          \/ Stored(r)' /\ (~Required \/ lost' \/ Covers(Row(r))')
          \/ \E s \in Stages : ledger'[<<r, s>>] # "none"
    BY DEF HandlerMoves
  <2>3. QED
    BY <1>5, <1>6, <1>8, <2>1, <2>2, AckedKept
<1>10. RebuildInv'
  BY <1>1, <1>2 DEF RebuildInv
<1>11. QED
  BY <1>2, <1>3, <1>5, <1>7, <1>8, <1>9, <1>10 DEF IInv

\* A fault uses up one of the budget.
LEMMA FaultType ==
  ASSUME TypeOK, Fault
  PROVE  faults' \in 0..MaxFaults[policy]
<1>1. faults \in 0..MaxFaults[policy] /\ MaxFaults[policy] \in Nat
  BY PipelineAssumption DEF TypeOK, PipelineAssumption
<1>2. QED
  BY <1>1 DEF Fault

\* A handler that starts, tries again or gives up relies on nothing.
LEMMA RetryEffect ==
  ASSUME TypeOK, NEW h \in Handlers, job[h] # None, NEW s \in Stages,
         Retry(h, s) \/ Fail(h, s) \/ Return(h)
  PROVE  /\ job'[h] \in Job \cup {None}
         /\ job' = [job EXCEPT ![h] = job'[h]]
         /\ JobSound(h)'
<1>1. job[h] \in Job /\ job \in [Handlers -> Job \cup {None}] /\ MaxTries \in Nat
  BY PipelineAssumption DEF TypeOK, PipelineAssumption
<1>2. ASSUME Fail(h, s) \/ Return(h)
      PROVE  /\ job'[h] \in Job \cup {None}
             /\ job' = [job EXCEPT ![h] = job'[h]]
             /\ job'[h] = None \/ job'[h].at = "record"
  <2>1. CASE Return(h)
    BY <1>1, <2>1 DEF Return
  <2>2. CASE job' = [job EXCEPT ![h].at = "record", ![h].stage = s]
    BY <1>1, <2>2 DEF Job
  <2>3. QED
    BY <1>2, <2>1, <2>2 DEF Fail
<1>3. ASSUME Retry(h, s), ~Fail(h, s)
      PROVE  /\ job'[h] \in Job \cup {None}
             /\ job' = [job EXCEPT ![h] = job'[h]]
             /\ job'[h].at = "insert"
  <2>1. /\ job[h].tries < MaxTries
        /\ job' = [job EXCEPT ![h].at = "insert", ![h].tries = job[h].tries + 1]
    BY <1>3 DEF Retry
  <2>2. job[h].tries + 1 \in 1..MaxTries
    BY <1>1, <2>1 DEF Job
  <2>3. QED
    BY <1>1, <2>1, <2>2 DEF Job
<1>4. QED
  BY <1>2, <1>3 DEF JobSound

\* A handler that moves on keeps its reading.
LEMMA GoEffect ==
  ASSUME TypeOK, NEW h \in Handlers, job[h] # None, NEW c \in {"latest", "resolve"}, Go(h, c)
  PROVE  /\ job'[h] \in Job \cup {None}
         /\ job' = [job EXCEPT ![h] = job'[h]]
         /\ job'[h].at = c /\ job'[h].r = job[h].r
BY DEF TypeOK, Go, Job

\* The handler returned nil, with its reading stored and covered or under
\* async-repair.
LEMMA DoneEffect ==
  ASSUME TypeOK, NEW h \in Handlers, job[h] # None, Done(h), Stored(job[h].r),
         UNCHANGED <<history, storage, lost>>,
         NEW r \in Readings, r = job[h].r, Covers(Row(r))' \/ (~Required /\ ~job[h].replay)
  PROVE  /\ job'[h] \in Job \cup {None}
         /\ job' = [job EXCEPT ![h] = job'[h]]
         /\ JobSound(h)'
         /\ acked' \in SUBSET Readings
         /\ \A q \in acked' \ acked :
              Stored(q)' /\ (~Required \/ lost' \/ Covers(Row(q))')
<1>1. Stored(r)'
  BY DEF Stored
<1>2. CASE job[h].replay
  <2>1. Go(h, "resolve") /\ acked' = acked
    BY <1>2 DEF Done
  <2>2. /\ job'[h] \in Job \cup {None}
        /\ job' = [job EXCEPT ![h] = job'[h]]
        /\ job'[h].at = "resolve" /\ job'[h].r = r
    BY <2>1, GoEffect
  <2>3. Covers(Row(r))'
    BY <1>2
  <2>4. JobSound(h)'
    BY <1>1, <2>2, <2>3 DEF JobSound, Stored, Covers
  <2>5. QED
    BY <2>1, <2>2, <2>4 DEF TypeOK
<1>3. CASE ~job[h].replay
  <2>1. Return(h) /\ acked' = acked \cup {r}
    BY <1>3 DEF Done
  <2>2. /\ job'[h] = None
        /\ job' = [job EXCEPT ![h] = job'[h]]
    BY <2>1 DEF Return, TypeOK
  <2>3. JobSound(h)'
    BY <2>2 DEF JobSound
  <2>4. QED
    BY <1>1, <2>1, <2>2, <2>3 DEF TypeOK
<1>4. QED
  BY <1>2, <1>3

\* A step that changes nothing but the job of h, and the faults.
LEMMA JobOnly ==
  ASSUME IInv, NEW h \in Handlers, HandlerFrame, UNCHANGED <<pgVars, latest, acked>>,
         faults' \in 0..MaxFaults[policy],
         job'[h] \in Job \cup {None}, job' = [job EXCEPT ![h] = job'[h]], JobSound(h)'
  PROVE  HandlerMoves(h)
BY DEF HandlerMoves, HandlerFrame, rbVars, pgVars, IInv, TypeOK

\* Deliveries, replays that start, rejections, conflicts and interruptions.
LEMMA QuietMoves ==
  ASSUME IInv, NEW h \in Handlers,
         \/ Deliver(h) \/ StartReplay(h) \/ Reject(h) \/ InsertConflict(h) \/ Interrupted(h)
  PROVE  HandlerMoves(h)
<1>1. TypeOK /\ faults \in 0..MaxFaults[policy]
  BY DEF IInv, TypeOK
<1>2. CASE Deliver(h) \/ StartReplay(h)
  <2>1. PICK r \in Readings, s \in Stages, replay \in BOOLEAN : Start(h, r, s, "insert", replay)
    BY <1>1, <1>2, PipelineAssumption DEF Deliver, StartReplay, Stages, TypeOK, PipelineAssumption
  <2>2. 1 \in 1..MaxTries
    BY PipelineAssumption DEF PipelineAssumption
  <2>3. /\ job'[h] \in Job \cup {None}
        /\ job' = [job EXCEPT ![h] = job'[h]]
        /\ job'[h].at = "insert"
    BY <1>1, <2>1, <2>2 DEF Start, TypeOK, Job
  <2>4. JobSound(h)'
    BY <2>3 DEF JobSound
  <2>5. HandlerFrame /\ UNCHANGED <<pgVars, latest, acked, faults>>
    BY <1>2 DEF Deliver, StartReplay
  <2>6. QED
    BY <1>1, <2>3, <2>4, <2>5, JobOnly
<1>3. CASE Reject(h) \/ InsertConflict(h) \/ Interrupted(h)
  <2>1. /\ job[h] # None
        /\ HandlerFrame /\ UNCHANGED <<pgVars, latest, acked>>
        /\ \E s \in Stages : Fail(h, s) \/ Return(h)
    BY <1>3 DEF Reject, InsertConflict, Interrupted, At, Stages
  <2>2. faults' \in 0..MaxFaults[policy]
    BY <1>1, <1>3, FaultType DEF Reject, InsertConflict, Interrupted
  <2>3. QED
    BY <1>1, <2>1, <2>2, RetryEffect, JobOnly
<1>4. QED
  BY <1>2, <1>3

\* The insert, answered or not.
LEMMA InsertMoves ==
  ASSUME IInv, NEW h \in Handlers, Insert(h) \/ InsertError(h)
  PROVE  HandlerMoves(h)
<1>1. /\ TypeOK /\ HistoryInv /\ faults \in 0..MaxFaults[policy]
      /\ job[h] # None /\ job[h].r \in Readings
      /\ HandlerFrame /\ UNCHANGED <<ledger, latest, acked>>
  BY DEF Insert, InsertError, At, IInv, TypeOK, Job
<1>2. /\ job'[h] \in Job \cup {None}
      /\ job' = [job EXCEPT ![h] = job'[h]]
      /\ JobSound(h)'
      /\ faults' \in 0..MaxFaults[policy]
      /\ CommitInsert(job[h].r) \/ UNCHANGED <<history, storage>>
  <2>1. CASE Insert(h)
    <3>1. /\ job'[h] \in Job \cup {None}
          /\ job' = [job EXCEPT ![h] = job'[h]]
          /\ job'[h].at = "latest" /\ job'[h].r = job[h].r
      BY <1>1, <2>1, GoEffect DEF Insert
    <3>2. PICK r \in Readings : r = job[h].r
      BY <1>1
    <3>3. Stored(r)'
      BY <1>1, <2>1, <3>2, CommitEffect DEF Insert
    <3>4. JobSound(h)'
      BY <3>1, <3>2, <3>3 DEF JobSound, Stored
    <3>5. QED
      BY <1>1, <2>1, <3>1, <3>4 DEF Insert
  <2>2. CASE InsertError(h)
    BY <1>1, <2>2, RetryEffect, FaultType DEF InsertError, Stages
  <2>3. QED
    BY <2>1, <2>2
<1>3. QED
  BY <1>1, <1>2 DEF HandlerMoves, HandlerFrame, rbVars, TypeOK

\* The write of the latest key, answered or not.
LEMMA LatestMoves ==
  ASSUME IInv, NEW h \in Handlers, SetLatest(h) \/ SetLatestError(h)
  PROVE  HandlerMoves(h)
<1>1. /\ TypeOK /\ faults \in 0..MaxFaults[policy]
      /\ job[h] # None /\ job[h].at = "latest" /\ job[h].r \in Readings
      /\ Stored(job[h].r)
      /\ HandlerFrame /\ UNCHANGED pgVars
  BY DEF SetLatest, SetLatestError, At, IInv, TypeOK, Job, JobInv, JobSound
<1>2. PICK r \in Readings : r = job[h].r
  BY <1>1
<1>3. WriteLatest(h) => Covers(Row(r))'
  BY <1>1, <1>2, WriteEffect DEF WriteLatest
<1>4. /\ job'[h] \in Job \cup {None}
      /\ job' = [job EXCEPT ![h] = job'[h]]
      /\ JobSound(h)'
      /\ faults' \in 0..MaxFaults[policy]
      /\ acked' \in SUBSET Readings
      /\ \A q \in acked' \ acked :
           Stored(q)' /\ (~Required \/ lost' \/ Covers(Row(q))')
      /\ WriteLatest(h) \/ UNCHANGED latest
  <2>1. UNCHANGED <<history, storage, lost>>
    BY <1>1 DEF pgVars, HandlerFrame
  <2>2. CASE SetLatest(h)
    BY <1>1, <1>2, <1>3, <2>1, <2>2, DoneEffect DEF SetLatest
  <2>3. CASE SetLatestError(h) /\ (Required \/ job[h].replay)
    <3>1. Retry(h, "redis_write") /\ acked' = acked /\ Fault
          /\ (WriteLatest(h) \/ UNCHANGED latest)
      BY <2>3 DEF SetLatestError
    <3>2. QED
      BY <1>1, <3>1, RetryEffect, FaultType DEF Stages, TypeOK
  <2>4. CASE SetLatestError(h) /\ ~(Required \/ job[h].replay)
    <3>1. Done(h) /\ Fault /\ (WriteLatest(h) \/ UNCHANGED latest)
      BY <2>4 DEF SetLatestError
    <3>2. QED
      BY <1>1, <1>2, <2>1, <2>4, <3>1, DoneEffect, FaultType
  <2>5. QED
    BY <2>2, <2>3, <2>4
<1>5. QED
  BY <1>1, <1>4 DEF HandlerMoves, HandlerFrame, rbVars, pgVars, TypeOK

\* Recording a failure, and resolving one.
LEMMA LedgerMoves ==
  ASSUME IInv, NEW h \in Handlers, RecordFailure(h) \/ Resolve(h)
  PROVE  HandlerMoves(h)
<1>1. /\ TypeOK /\ faults \in 0..MaxFaults[policy]
      /\ job[h] # None /\ job[h].r \in Readings /\ job[h].stage \in Stages
      /\ HandlerFrame /\ UNCHANGED <<history, storage, latest, faults>> /\ Return(h)
  BY DEF RecordFailure, Resolve, At, IInv, TypeOK, Job
<1>2. /\ job'[h] \in Job \cup {None}
      /\ job' = [job EXCEPT ![h] = job'[h]]
      /\ JobSound(h)'
  BY <1>1, RetryEffect DEF Stages
<1>3. PICK f \in Readings \X Stages : f = <<job[h].r, job[h].stage>>
  BY <1>1
<1>4. ledger \in [Readings \X Stages -> Resolutions]
  BY <1>1 DEF TypeOK
<1>5. CASE RecordFailure(h)
  <2>1. /\ ledger' = IF ledger[f] = "none"
                     THEN [ledger EXCEPT ![f] = "unresolved"] ELSE ledger
        /\ acked' = acked \cup {job[h].r}
    BY <1>3, <1>5 DEF RecordFailure
  <2>2. /\ ledger' \in [Readings \X Stages -> Resolutions]
        /\ \A g \in Readings \X Stages :
             \/ ledger'[g] = ledger[g]
             \/ ledger[g] = "none" /\ ledger'[g] = "unresolved"
        /\ ledger'[f] # "none"
    BY <1>4, <2>1 DEF Resolutions
  <2>3. \A r \in acked' \ acked : \E s \in Stages : ledger'[<<r, s>>] # "none"
    BY <1>1, <1>3, <2>1, <2>2
  <2>4. acked' \in SUBSET Readings
    BY <1>1, <2>1 DEF TypeOK
  <2>5. QED
    BY <1>1, <1>2, <2>2, <2>3, <2>4 DEF HandlerMoves, HandlerFrame, rbVars
<1>6. CASE Resolve(h)
  <2>1. job[h].at = "resolve" /\ ledger' = [ledger EXCEPT ![f] = "replayed"] /\ acked' = acked
    BY <1>3, <1>6 DEF Resolve, At
  <2>2. /\ ledger' \in [Readings \X Stages -> Resolutions]
        /\ \A g \in Readings \X Stages :
             ledger'[g] = ledger[g] \/ (g = f /\ ledger'[g] = "replayed")
    BY <1>4, <2>1 DEF Resolutions
  <2>3. QED
    BY <1>1, <1>2, <1>3, <2>1, <2>2 DEF HandlerMoves, HandlerFrame, rbVars, TypeOK
<1>7. QED
  BY <1>5, <1>6

\* Every step of a handler and of failure-replay is such a step.
LEMMA HandlerNext ==
  ASSUME IInv, NEW h \in Handlers, HandlerStep(h) \/ StartReplay(h) \/ Resolve(h)
  PROVE  HandlerMoves(h)
BY QuietMoves, InsertMoves, LatestMoves, LedgerMoves DEF HandlerStep

-----------------------------------------------------------------------------
(* Operators, Redis losses and redis-rebuild.                              *)

\* An operator discards only what is unresolved.
LEMMA DiscardInv ==
  ASSUME IInv, Discard
  PROVE  IInv'
<1>1. /\ TypeOK /\ HistoryInv /\ LatestDurable /\ JobInv /\ LedgerInv /\ RebuildInv
      /\ UNCHANGED <<policy, topic, history, storage, latest, acked, job, rb, seen, lost, faults>>
  BY DEF IInv, Discard, rbVars
<1>2. PICK f \in Readings \X Stages :
        /\ ledger[f] = "unresolved"
        /\ ledger' = [ledger EXCEPT ![f] = "discarded"]
  BY DEF Discard
<1>3. /\ ledger' \in [Readings \X Stages -> Resolutions]
      /\ \A g \in Readings \X Stages :
           \/ ledger'[g] = ledger[g]
           \/ ledger[g] = "unresolved" /\ ledger'[g] = "discarded"
  BY <1>1, <1>2 DEF TypeOK, Resolutions
<1>4. TypeOK'
  BY <1>1, <1>3 DEF TypeOK
<1>5. Advances
  <2>1. latest # None => latest.ms \in Nat /\ latest.seq \in Nat
    BY <1>1 DEF TypeOK, Latest
  <2>2. QED
    BY <1>1, <2>1 DEF Advances, Newer
<1>6. JobInv'
  BY <1>1, <1>4, <1>5, JobsKept DEF JobInv
<1>7. LedgerInv'
  BY <1>1, <1>3, <1>4, <1>5, LedgerKept
<1>8. AckedDurable' /\ CurrentOrFlagged'
  BY <1>1, <1>3, <1>4, <1>5, <1>7, AckedKept
<1>9. HistoryInv' /\ LatestDurable' /\ RebuildInv'
  BY <1>1 DEF HistoryInv, InWindow, LatestDurable, RebuildInv
<1>10. QED
  BY <1>4, <1>6, <1>7, <1>8, <1>9 DEF IInv

\* What a loss of Redis and a step of redis-rebuild leave behind: Postgres,
\* the ledger and the jobs as they were.
CacheMoves ==
  /\ UNCHANGED <<policy, topic, history, storage, ledger, acked, job>>
  /\ faults' \in 0..MaxFaults[policy]
  /\ rb' \in Rebuild
  /\ seen' \in SUBSET Rows
  /\ RebuildInv'
  /\ lost' \in BOOLEAN
  /\ \/ UNCHANGED <<latest, lost>>
     \/ latest' = None /\ lost'
     \/ /\ rb.at = "write"
        /\ SetLatestIfNewer(Projection(rb.row, rb.assets))
        /\ UNCHANGED lost

\* What redis-rebuild writes is covered then.
LEMMA RebuildEffect ==
  ASSUME TypeOK, rb.at = "write", SetLatestIfNewer(Projection(rb.row, rb.assets))
  PROVE  /\ latest' \in Latest
         /\ latest # None => ~Newer(latest, latest')
         /\ latest' = latest \/ latest = None \/ Newer(latest', latest)
         /\ ~Newer(Projection(rb.row, {}), latest')
         /\ \/ latest' = latest
            \/ /\ latest'.ms = rb.row.t \div TicksPerMs
               /\ latest'.seq = rb.row.seq
               /\ latest'.val = rb.row.val
<1> DEFINE p == Projection(rb.row, rb.assets)
<1>1. rb.row \in Rows /\ rb.assets \in SUBSET AssetRowSet
  BY DEF TypeOK, Rebuild
<1>2. rb.row.t \in Nat /\ rb.row.seq \in Nat /\ rb.row.val \in {r.val : r \in Readings}
  BY <1>1 DEF Rows
<1>3. /\ p \in Latest /\ p.ms = rb.row.t \div TicksPerMs
      /\ p.seq = rb.row.seq /\ p.val = rb.row.val
  BY <1>1, <1>2, ProjectionType
<1>4. /\ latest' \in Latest /\ latest' \in {latest, p} /\ ~Newer(p, latest')
      /\ latest # None => ~Newer(latest, latest')
      /\ latest' = latest \/ latest = None \/ Newer(latest', latest)
  BY <1>3, SetLatestEffect DEF TypeOK
<1>5. /\ Projection(rb.row, {}).ms = p.ms
      /\ Projection(rb.row, {}).seq = p.seq
  BY <1>3 DEF Projection
<1>6. QED
  BY <1>3, <1>4, <1>5 DEF Newer

\* Such a step preserves the invariant.
LEMMA CacheMovesInv ==
  ASSUME IInv, CacheMoves
  PROVE  IInv'
<1>1. /\ TypeOK /\ HistoryInv /\ LatestDurable /\ JobInv /\ LedgerInv /\ RebuildInv
      /\ UNCHANGED <<policy, topic, history, storage, ledger, acked, job>>
  BY DEF IInv, CacheMoves
<1>2. /\ latest' \in Latest \cup {None}
      /\ lost => lost'
      /\ lost' \/ (latest # None => latest' # None /\ ~Newer(latest, latest'))
      /\ LatestDurable'
  <2>1. CASE UNCHANGED <<latest, lost>>
    <3>1. latest # None => latest.ms \in Nat /\ latest.seq \in Nat
      BY <1>1 DEF TypeOK, Latest
    <3>2. LatestDurable'
      BY <1>1, <2>1, DurableKept
    <3>3. QED
      BY <1>1, <2>1, <3>1, <3>2 DEF TypeOK, Newer
  <2>2. CASE latest' = None /\ lost'
    BY <2>2 DEF LatestDurable
  <2>3. CASE /\ rb.at = "write"
             /\ SetLatestIfNewer(Projection(rb.row, rb.assets))
             /\ UNCHANGED lost
    <3>1. /\ latest' \in Latest
          /\ latest # None => ~Newer(latest, latest')
          /\ \/ latest' = latest
             \/ /\ latest'.ms = rb.row.t \div TicksPerMs
                /\ latest'.seq = rb.row.seq
                /\ latest'.val = rb.row.val
      BY <1>1, <2>3, RebuildEffect
    <3>2. rb.row \in history
      BY <1>1, <2>3 DEF RebuildInv
    <3>3. LatestDurable'
      BY <1>1, <3>1, <3>2, DurableKept
    <3>4. QED
      BY <2>3, <3>1, <3>3, PipelineAssumption DEF PipelineAssumption
  <2>4. QED
    BY <2>1, <2>2, <2>3 DEF CacheMoves
<1>3. TypeOK'
  BY <1>1, <1>2 DEF TypeOK, CacheMoves
<1>4. Advances
  BY <1>1, <1>2 DEF Advances
<1>5. JobInv'
  BY <1>1, <1>3, <1>4, JobsKept DEF JobInv
<1>6. LedgerInv'
  BY <1>1, <1>3, <1>4, LedgerKept
<1>7. AckedDurable' /\ CurrentOrFlagged'
  BY <1>1, <1>3, <1>4, <1>6, AckedKept
<1>8. HistoryInv' /\ RebuildInv'
  BY <1>1 DEF HistoryInv, InWindow, CacheMoves
<1>9. QED
  BY <1>2, <1>3, <1>5, <1>6, <1>7, <1>8 DEF IInv

\* The row redis-rebuild reads is the newest of the window.
LEMMA NewestRow ==
  ASSUME HistoryInv, InWindow # {}
  PROVE  Newest \in InWindow /\ \A y \in InWindow : Newest = y \/ After(Newest, y)
BY DEF HistoryInv, Newest

\* A loss of Redis and the steps of redis-rebuild are such steps.
LEMMA CacheNext ==
  ASSUME IInv, RedisLoss \/ RebuildRead \/ RebuildLoad \/ RebuildWrite \/ RebuildFails
  PROVE  CacheMoves
<1>1. /\ TypeOK /\ HistoryInv /\ RebuildInv /\ faults \in 0..MaxFaults[policy]
      /\ UNCHANGED <<policy, topic, history, storage, ledger, acked, job>>
  BY DEF IInv, TypeOK, RedisLoss, RebuildRead, RebuildLoad, RebuildWrite, RebuildFails,
         RebuildFrame, pgVars
<1>2. rb \in Rebuild /\ seen \in SUBSET Rows /\ history \in SUBSET Rows /\ lost \in BOOLEAN
  BY <1>1 DEF TypeOK
<1>3. CASE RedisLoss
  <2>1. faults' \in 0..MaxFaults[policy]
    BY <1>1, <1>3, FaultType DEF RedisLoss
  <2>2. latest' = None /\ lost' = TRUE /\ seen' = {} /\ rb' = rb
    BY <1>3 DEF RedisLoss
  <2>3. RebuildInv'
    BY <1>1, <2>2 DEF RebuildInv
  <2>4. QED
    BY <1>1, <1>2, <2>1, <2>2, <2>3 DEF CacheMoves
<1>4. CASE RebuildRead
  <2>1. /\ seen' = InWindow
        /\ rb' = IF InWindow = {} THEN [at |-> "done"] ELSE [at |-> "load", row |-> Newest]
        /\ UNCHANGED <<latest, lost, faults>>
    BY <1>4 DEF RebuildRead, RebuildFrame
  <2>2. InWindow \subseteq history
    BY DEF InWindow
  <2>3. CASE InWindow = {}
    <3>1. rb' = [at |-> "done"]
      BY <2>1, <2>3
    <3>2. rb' \in Rebuild /\ RebuildInv'
      BY <2>1, <2>3, <3>1 DEF Rebuild, RebuildInv
    <3>3. QED
      BY <1>1, <1>2, <2>1, <2>2, <3>2 DEF CacheMoves
  <2>4. CASE InWindow # {}
    <3>1. Newest \in InWindow /\ \A y \in InWindow : Newest = y \/ After(Newest, y)
      BY <1>1, <2>4, NewestRow
    <3>2. rb' = [at |-> "load", row |-> Newest]
      BY <2>1, <2>4
    <3>3. rb' \in Rebuild
      BY <1>2, <2>2, <3>1, <3>2 DEF Rebuild
    <3>4. RebuildInv'
      BY <1>1, <2>1, <2>2, <3>1, <3>2 DEF RebuildInv, After
    <3>5. QED
      BY <1>1, <1>2, <2>1, <2>2, <3>3, <3>4 DEF CacheMoves
  <2>5. QED
    BY <2>3, <2>4
<1>5. CASE RebuildLoad
  <2>1. /\ rb.at = "load"
        /\ rb' = [at |-> "write", row |-> rb.row, assets |-> RowsAt(rb.row.t)]
        /\ UNCHANGED <<latest, seen, lost, faults>>
    BY <1>5 DEF RebuildLoad, RebuildFrame
  <2>2. rb.row \in Rows /\ RowsAt(rb.row.t) \in SUBSET AssetRowSet
    BY <1>1, <1>2, <2>1 DEF Rebuild, RowsAt, TypeOK
  <2>3. rb' \in Rebuild
    BY <2>1, <2>2 DEF Rebuild
  <2>4. RebuildInv'
    BY <1>1, <2>1 DEF RebuildInv, After
  <2>5. QED
    BY <1>1, <1>2, <2>1, <2>3, <2>4 DEF CacheMoves
<1>6. CASE RebuildWrite
  <2>1. /\ rb.at = "write" /\ SetLatestIfNewer(Projection(rb.row, rb.assets))
        /\ rb' = [at |-> "done"]
        /\ UNCHANGED <<seen, lost, faults>>
    BY <1>6 DEF RebuildWrite, RebuildFrame
  <2>2. rb' \in Rebuild /\ RebuildInv'
    BY <1>1, <2>1 DEF Rebuild, RebuildInv
  <2>3. QED
    BY <1>1, <1>2, <2>1, <2>2 DEF CacheMoves
<1>7. CASE RebuildFails
  <2>1. /\ \/ UNCHANGED latest
           \/ rb.at = "write" /\ SetLatestIfNewer(Projection(rb.row, rb.assets))
        /\ rb' = [at |-> "idle"] /\ seen' = {}
        /\ UNCHANGED <<lost, faults>>
    BY <1>7 DEF RebuildFails, RebuildFrame
  <2>2. rb' \in Rebuild /\ RebuildInv'
    BY <2>1 DEF Rebuild, RebuildInv
  <2>3. QED
    BY <1>1, <1>2, <2>1, <2>2 DEF CacheMoves
<1>8. QED
  BY <1>3, <1>4, <1>5, <1>6, <1>7

-----------------------------------------------------------------------------
(* The specification.                                                      *)

\* Nothing is stored, acknowledged or recorded at the start.
LEMMA InitInv ==
  ASSUME Init
  PROVE  IInv
<1>1. TypeOK
  <2>1. MaxFaults[policy] \in Nat
    BY PipelineAssumption DEF Init, PipelineAssumption
  <2>2. rb \in Rebuild
    BY DEF Init, Rebuild
  <2>3. ledger \in [Readings \X Stages -> Resolutions]
    BY DEF Init, Resolutions
  <2>4. job \in [Handlers -> Job \cup {None}]
    BY DEF Init
  <2>5. faults \in 0..MaxFaults[policy]
    BY <2>1 DEF Init
  <2>6. lost \in BOOLEAN /\ latest \in Latest \cup {None}
    BY DEF Init
  <2>7. QED
    BY <2>2, <2>3, <2>4, <2>5, <2>6 DEF Init, TypeOK
<1>2. HistoryInv /\ LatestDurable /\ JobInv /\ RebuildInv
  BY DEF Init, HistoryInv, InWindow, LatestDurable, JobInv, JobSound, RebuildInv
<1>3. LedgerInv /\ AckedDurable /\ CurrentOrFlagged
  BY DEF Init, LedgerInv, AckedDurable, CurrentOrFlagged
<1>4. QED
  BY <1>1, <1>2, <1>3 DEF IInv

\* A stuttering step changes nothing.
LEMMA StutterInv ==
  ASSUME IInv, UNCHANGED vars
  PROVE  IInv'
<1> USE DEF vars, pgVars, rbVars
<1>1. TypeOK'
  BY DEF IInv, TypeOK
<1>2. HistoryInv' /\ LatestDurable' /\ RebuildInv'
  BY DEF IInv, HistoryInv, InWindow, LatestDurable, RebuildInv
<1>3. JobInv' /\ LedgerInv'
  BY DEF IInv, JobInv, JobSound, LedgerInv, Stored, Covers
<1>4. AckedDurable' /\ CurrentOrFlagged'
  BY DEF IInv, AckedDurable, CurrentOrFlagged, Stored, Required
<1>5. QED
  BY <1>1, <1>2, <1>3, <1>4 DEF IInv

\* Every step preserves the invariant.
LEMMA NextInv ==
  ASSUME IInv, [Next]_vars
  PROVE  IInv'
<1>1. CASE \E h \in Handlers : HandlerStep(h) \/ StartReplay(h) \/ Resolve(h)
  BY <1>1, HandlerNext, HandlerMovesInv
<1>2. CASE Discard
  BY <1>2, DiscardInv
<1>3. CASE RedisLoss \/ RebuildRead \/ RebuildLoad \/ RebuildWrite \/ RebuildFails
  BY <1>3, CacheNext, CacheMovesInv
<1>4. CASE UNCHANGED vars
  BY <1>4, StutterInv
<1>5. QED
  BY <1>1, <1>2, <1>3, <1>4 DEF Next

\* Along every behaviour the history has one row for each identity, Redis
\* shows only what Postgres has, and what handlers, the ledger and the rebuild
\* rely on is so.
THEOREM InductiveInvariant == Spec => []IInv
<1>1. Init => IInv
  BY InitInv
<1>2. IInv /\ [Next]_vars => IInv'
  BY NextInv
<1>3. QED
  BY <1>1, <1>2, PTL DEF Spec

\* Redis shows nothing that Postgres does not have, and every component keeps
\* its type, for any readings, handlers and failures of single steps.
THEOREM LatestSound == Spec => []LatestInv
<1>1. IInv => LatestInv
  BY DEF IInv, LatestInv
<1>2. QED
  BY <1>1, InductiveInvariant, PTL

\* A reading the consumer was told to commit is stored with all its assets or
\* is found in the failure ledger.
THEOREM DurableAcks == Spec => []AckedDurable
<1>1. IInv => AckedDurable
  BY DEF IInv
<1>2. QED
  BY <1>1, InductiveInvariant, PTL

\* Under the required policy an acknowledged reading is covered by the latest
\* key or flagged in the ledger, as long as Redis kept its data.
THEOREM CurrentSound == Spec => []CurrentOrFlagged
<1>1. IInv => CurrentOrFlagged
  BY DEF IInv
<1>2. QED
  BY <1>1, InductiveInvariant, PTL

-----------------------------------------------------------------------------
(* What a step may never do.                                               *)

\* A step of a handler only adds rows and only moves the latest key forward.
LEMMA HandlerForward ==
  ASSUME IInv, NEW h \in Handlers, HandlerMoves(h)
  PROVE  /\ history \subseteq history' /\ storage \subseteq storage'
         /\ latest' = latest \/ latest = None \/ Newer(latest', latest)
         /\ latest' \in Latest \cup {None}
         /\ latest # None => latest' # None /\ ~Newer(latest, latest')
<1>1. TypeOK /\ HistoryInv
  BY DEF IInv
<1>2. history \subseteq history' /\ storage \subseteq storage'
  BY <1>1, CommitEffect DEF HandlerMoves
<1>3. CASE UNCHANGED latest
  <2>1. latest # None => latest.ms \in Nat /\ latest.seq \in Nat
    BY <1>1 DEF TypeOK, Latest
  <2>2. QED
    BY <1>1, <1>2, <1>3, <2>1 DEF TypeOK, Newer
<1>4. CASE job[h] # None /\ job[h].at = "latest" /\ WriteLatest(h)
  <2>1. job[h].r \in Readings
    BY <1>1, <1>4 DEF TypeOK, Job
  <2>2. SetLatestIfNewer(Projection(job[h].r, AssetRows(job[h].r)))
    BY <1>4 DEF WriteLatest
  <2>3. /\ latest' \in Latest
        /\ latest # None => ~Newer(latest, latest')
        /\ latest' = latest \/ latest = None \/ Newer(latest', latest)
    BY <1>1, <2>1, <2>2, WriteEffect
  <2>4. QED
    BY <1>2, <2>3, PipelineAssumption DEF PipelineAssumption
<1>5. QED
  BY <1>3, <1>4 DEF HandlerMoves

\* No step removes a row, and the latest key only moves forward or is lost.
LEMMA NextForward ==
  ASSUME IInv, [Next]_vars
  PROVE  /\ history \subseteq history' /\ storage \subseteq storage'
         /\ \/ latest' = latest \/ latest' = None \/ latest = None
            \/ Newer(latest', latest)
<1>1. CASE \E h \in Handlers : HandlerStep(h) \/ StartReplay(h) \/ Resolve(h)
  BY <1>1, HandlerNext, HandlerForward
<1>2. CASE Discard
  BY <1>2 DEF Discard
<1>3. CASE RedisLoss \/ RebuildRead \/ RebuildLoad \/ RebuildWrite \/ RebuildFails
  <2>1. TypeOK
    BY DEF IInv
  <2>2. CacheMoves
    BY <1>3, CacheNext
  <2>3. QED
    BY <2>1, <2>2, RebuildEffect DEF CacheMoves
<1>4. CASE UNCHANGED vars
  BY <1>4 DEF vars, pgVars
<1>5. QED
  BY <1>1, <1>2, <1>3, <1>4 DEF Next

\* A stored row is never changed or removed and no identity is stored twice,
\* whatever conflicting readings, lost COMMIT answers and concurrent handlers
\* there are.
THEOREM ImmutableHistory == Spec => HistoryImmutable
<1> DEFINE A == /\ history \subseteq history'
                /\ storage \subseteq storage'
                /\ \A x, y \in history' : x.t = y.t /\ x.seq = y.seq => x = y
<1>1. IInv /\ [Next]_vars => [A]_vars
  BY NextForward, NextInv DEF IInv, HistoryInv
<1>2. QED
  BY <1>1, InductiveInvariant, PTL DEF Spec, HistoryImmutable

\* The latest key never goes back to an older reading, by whatever late
\* handler, redelivery, replay or rebuild it is written.
THEOREM LatestForward == Spec => LatestNeverRegresses
<1> DEFINE A == latest' = latest \/ latest' = None \/ latest = None
                  \/ Newer(latest', latest)
<1>1. IInv /\ [Next]_vars => [A]_vars
  BY NextForward
<1>2. QED
  BY <1>1, InductiveInvariant, PTL DEF Spec, LatestNeverRegresses

-----------------------------------------------------------------------------
(* redis-rebuild picks the newest row by microseconds, Redis compares      *)
(* milliseconds and then seq.                                              *)

\* Cutting to milliseconds keeps the order of times, except within one.
LEMMA MsOrder ==
  ASSUME NEW t \in Nat, NEW u \in Nat, t >= u
  PROVE  t \div TicksPerMs >= u \div TicksPerMs
BY PipelineAssumption DEF PipelineAssumption

\* The write that ends a rebuild covers every row that was in the window, or
\* the row it writes outranks it.
LEMMA RebuildCovers ==
  ASSUME IInv, rb.at = "write", SetLatestIfNewer(Projection(rb.row, rb.assets)),
         UNCHANGED seen, NEW x \in seen
  PROVE  \/ Covers(x)'
         \/ Outranked(x, {y \in seen : Covers(y)})'
<1>1. TypeOK /\ RebuildInv
  BY DEF IInv
<1>2. /\ latest' \in Latest
      /\ ~Newer(Projection(rb.row, {}), latest')
  BY <1>1, RebuildEffect
<1>3. rb.row \in seen /\ (x = rb.row \/ After(rb.row, x))
  BY <1>1 DEF RebuildInv
<1>4. \A y \in seen : y.t \in Nat /\ y.seq \in Nat
  BY <1>1 DEF TypeOK, Rows
<1>5. latest' # None
  BY <1>2, PipelineAssumption DEF PipelineAssumption
<1>6. PICK z \in seen : z = rb.row
  BY <1>3
<1>7. Covers(z)'
  BY <1>2, <1>5, <1>6 DEF Covers, Projection, Newer
<1>8. CASE /\ After(rb.row, x)
           /\ rb.row.t \div TicksPerMs = x.t \div TicksPerMs
  <2>1. After(z, x) /\ z.t \div TicksPerMs = x.t \div TicksPerMs
    BY <1>6, <1>8
  <2>2. QED
    BY <1>7, <2>1 DEF Outranked, After
<1>9. CASE /\ After(rb.row, x)
           /\ rb.row.t \div TicksPerMs # x.t \div TicksPerMs
  <2>1. rb.row.t >= x.t
    BY <1>3, <1>4, <1>9 DEF After
  <2>2. /\ rb.row.t \div TicksPerMs \in Nat /\ x.t \div TicksPerMs \in Nat
        /\ rb.row.t \div TicksPerMs >= x.t \div TicksPerMs
    BY <1>3, <1>4, <2>1, MsOrder, MsType
  <2>3. rb.row.t \div TicksPerMs > x.t \div TicksPerMs
    BY <1>9, <2>2
  <2>4. latest'.ms \in Nat /\ latest'.seq \in Nat
    BY <1>2 DEF Latest
  <2>5. ~Newer(Projection(x, {}), latest')
    BY <1>2, <1>3, <1>4, <2>2, <2>3, <2>4 DEF Projection, Newer
  <2>6. QED
    BY <1>5, <2>5 DEF Covers
<1>10. CASE x = rb.row
  BY <1>6, <1>7, <1>10
<1>11. QED
  BY <1>3, <1>8, <1>9, <1>10

\* A finished rebuild stays one while Redis only moves forward.
LEMMA RestoresKept ==
  ASSUME TypeOK, RebuildRestores, UNCHANGED <<rb, seen>>,
         latest' \in Latest \cup {None},
         latest # None => latest' # None /\ ~Newer(latest, latest')
  PROVE  RebuildRestores'
<1>1. ASSUME NEW x \in seen, Covers(x)
      PROVE  Covers(x)'
  <2>1. x.t \in Nat /\ x.seq \in Nat /\ latest \in Latest \cup {None}
    BY DEF TypeOK, Rows
  <2>2. QED
    BY <1>1, <2>1, CoversKept
<1>2. ASSUME rb.at = "done", NEW x \in seen
      PROVE  Covers(x)' \/ Outranked(x, {y \in seen : Covers(y)})'
  <2>1. CASE Covers(x)
    BY <1>1, <2>1
  <2>2. CASE Outranked(x, {y \in seen : Covers(y)})
    <3>1. PICK y \in seen : /\ Covers(y) /\ After(y, x)
                            /\ y.t \div TicksPerMs = x.t \div TicksPerMs
      BY <2>2 DEF Outranked
    <3>2. Covers(y)'
      BY <1>1, <3>1
    <3>3. QED
      BY <3>1, <3>2 DEF Outranked, After
  <2>3. QED
    BY <1>2, <2>1, <2>2 DEF RebuildRestores
<1>3. QED
  BY <1>2 DEF RebuildRestores

\* Every step keeps the promise of a finished rebuild.
LEMMA RestoresStep ==
  ASSUME IInv, RebuildRestores, [Next]_vars
  PROVE  RebuildRestores'
<1>1. TypeOK /\ latest \in Latest \cup {None}
  BY DEF IInv, TypeOK
<1>2. latest # None => ~Newer(latest, latest)
  <2>1. latest # None => latest.ms \in Nat /\ latest.seq \in Nat
    BY <1>1 DEF Latest
  <2>2. QED
    BY <2>1 DEF Newer
<1>3. CASE \E h \in Handlers : HandlerStep(h) \/ StartReplay(h) \/ Resolve(h)
  <2>1. PICK h \in Handlers : HandlerMoves(h)
    BY <1>3, HandlerNext
  <2>2. UNCHANGED <<rb, seen>>
    BY <2>1 DEF HandlerMoves
  <2>3. QED
    BY <1>1, <2>1, <2>2, HandlerForward, RestoresKept
<1>4. CASE Discard \/ UNCHANGED vars
  <2>1. UNCHANGED <<rb, seen, latest>>
    BY <1>4 DEF Discard, vars, rbVars
  <2>2. QED
    BY <1>1, <1>2, <2>1, RestoresKept
<1>5. CASE RedisLoss
  BY <1>5 DEF RedisLoss, RebuildRestores
<1>6. CASE RebuildRead
  <2>1. CASE InWindow = {}
    BY <1>6, <2>1 DEF RebuildRead, RebuildRestores
  <2>2. CASE InWindow # {}
    BY <1>6, <2>2 DEF RebuildRead, RebuildRestores
  <2>3. QED
    BY <2>1, <2>2
<1>7. CASE RebuildLoad
  BY <1>7 DEF RebuildLoad, RebuildRestores
<1>8. CASE RebuildWrite
  <2>1. \A x \in seen :
          Covers(x)' \/ Outranked(x, {y \in seen : Covers(y)})'
    BY <1>8, RebuildCovers DEF RebuildWrite
  <2>2. QED
    BY <1>8, <2>1 DEF RebuildWrite, RebuildRestores
<1>9. CASE RebuildFails
  BY <1>9 DEF RebuildFails, RebuildRestores
<1>10. QED
  BY <1>3, <1>4, <1>5, <1>6, <1>7, <1>8, <1>9 DEF Next

\* A rebuild that ran to its end on a Redis that lost nothing since leaves a
\* latest key no older than any row that was in the window when it read, but
\* for a row that a covered one of its millisecond outranks in the database.
THEOREM RebuildSound == Spec => []RebuildRestores
<1>1. Init => RebuildRestores
  BY DEF Init, RebuildRestores
<1>2. IInv /\ RebuildRestores /\ [Next]_vars => RebuildRestores'
  BY RestoresStep
<1>3. QED
  BY <1>1, <1>2, InductiveInvariant, PTL DEF Spec

=============================================================================
