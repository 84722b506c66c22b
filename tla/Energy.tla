------------------------------- MODULE Energy -------------------------------
(***************************************************************************)
(* The arithmetic of energy_reader.go: what the energy queries compute     *)
(* from the readings of one house, and from the requested range and bucket *)
(* width.  Pure operators; times in seconds, power in kW, energy in kW     *)
(* seconds (the code divides by 3600).                                     *)
(*                                                                         *)
(* A reading is [time, seq, solar, cons, net, assets], where assets is a   *)
(* set of [id, power], the rows it left in storage_asset_readings.  A      *)
(* house has one meter, but two readings of one instant may be stored      *)
(* (they differ in seq); the window function orders them arbitrarily.      *)
(*                                                                         *)
(* The retention policy, which drops readings six months old (migration    *)
(* 00002), is outside the model: readings only arrive.                     *)
(***************************************************************************)
EXTENDS Integers, FiniteSets, FiniteSetsExt

CONSTANTS
  MaxReadingSeconds, \* maxReadingSeconds
  MaxRange,          \* maxRange
  MinBucketWidth,    \* minBucketWidth
  MaxBucketWidth,    \* maxBucketWidth
  MaxBuckets         \* maxBuckets

ASSUME EnergyAssumption ==
  /\ MaxReadingSeconds \in Nat \ {0}
  /\ MaxRange \in Nat
  /\ MinBucketWidth \in Nat \ {0}
  /\ MaxBucketWidth \in Nat
  /\ MaxBuckets \in Nat

Smaller(a, b)  == IF a <= b THEN a ELSE b
Positive(x)    == IF x >= 0 THEN x ELSE 0
SumOf(S, f(_)) == SumFunction([x \in S |-> f(x)])

\* What the tables accept: solar and consumption are never negative.
WellFormed(R) ==
  /\ IsFiniteSet(R)
  /\ \A r \in R : /\ r.time \in Int /\ r.net \in Int
                  /\ r.solar \in Nat /\ r.cons \in Nat
                  /\ IsFiniteSet(r.assets)
                  /\ \A a \in r.assets : a.power \in Int

-----------------------------------------------------------------------------
(* validate.go                                                             *)

\* validateRange, on the times alone.
RangeOk(from, to) == to > from /\ to - from <= MaxRange

\* The buckets validateBuckets counts for a range.
Needed(from, to, width) ==
  (to - from) \div width + (IF (to - from) % width = 0 THEN 0 ELSE 1)

BucketsOk(from, to, width) ==
  /\ width \in MinBucketWidth..MaxBucketWidth
  /\ Needed(from, to, width) <= MaxBuckets

-----------------------------------------------------------------------------
(* energyReadingsCTE                                                       *)

InRange(R, from, to) == {r \in R : r.time >= from /\ r.time < to}

\* Which reading of each instant the window function puts last.
Orders(R) ==
  {L \in SUBSET R : \A r \in R : Cardinality({l \in L : l.time = r.time}) = 1}

\* Mutant of Duration: a reading lasts until the next one, however far.
BugNoCap(R, L, r, to) ==
  IF r \notin L THEN 0
  ELSE Min({x.time : x \in {x \in R : x.time > r.time}} \cup {to}) - r.time

\* How long r counts: until the next reading of the range, or its end, but at
\* most MaxReadingSeconds; no time at all when another follows in its instant.
Duration(R, L, r, to) ==
  IF r \notin L THEN 0
  ELSE Smaller(Min({x.time : x \in {x \in R : x.time > r.time}} \cup {to})
                 - r.time,
               MaxReadingSeconds)

\* CTE s: storage power of the meter at the instant of r, in and out.
StorageAt(R, r) == UNION {x.assets : x \in {x \in R : x.time = r.time}}
Charge(R, r)    == SumOf(StorageAt(R, r), LAMBDA a : Positive(a.power))
Discharge(R, r) == SumOf(StorageAt(R, r), LAMBDA a : Positive(-a.power))

\* CTEs f and g: solar goes to the home, then to storage, then to the grid; a
\* deficit is covered by storage, then by the grid.
SolarHome(r) == Smaller(r.solar, r.cons)

SolarStorage(R, r) == Smaller(r.solar - SolarHome(r), Charge(R, r))

StorageHome(R, r) == Smaller(Discharge(R, r), r.cons - SolarHome(r))

\* energySums over the readings S of the range's readings R.
Sums(R, L, S, to) ==
  LET Over(p(_)) == SumOf(S, LAMBDA r : p(r) * Duration(R, L, r, to)) IN
  [generated    |-> Over(LAMBDA r : r.solar),
   consumed     |-> Over(LAMBDA r : r.cons),
   exported     |-> Over(LAMBDA r : Positive(r.net)),
   imported     |-> Over(LAMBDA r : Positive(-r.net)),
   charged      |-> Over(LAMBDA r : Charge(R, r)),
   discharged   |-> Over(LAMBDA r : Discharge(R, r)),
   solarHome    |-> Over(LAMBDA r : SolarHome(r)),
   solarStorage |-> Over(LAMBDA r : SolarStorage(R, r)),
   solarGrid    |-> Over(LAMBDA r : r.solar - SolarHome(r) - SolarStorage(R, r)),
   gridHome     |-> Over(LAMBDA r : r.cons - SolarHome(r) - StorageHome(R, r)),
   gridStorage  |-> Over(LAMBDA r : Charge(R, r) - SolarStorage(R, r)),
   storageHome  |-> Over(LAMBDA r : StorageHome(R, r)),
   storageGrid  |-> Over(LAMBDA r : Discharge(R, r) - StorageHome(R, r)),
   covered      |-> Over(LAMBDA r : 1)]

\* time_bucket in a time zone whose midnight is offset seconds from UTC's.
BucketOf(t, width, offset) == t - ((t + offset) % width)

\* Mutant of Series: the next reading is looked for in the same bucket only.
BugPerBucket(R, L, to, width, offset) ==
  {[start |-> b, sums |->
      LET S == {r \in R : BucketOf(r.time, width, offset) = b} IN
      Sums(S, L, S, to)] :
   b \in {BucketOf(r.time, width, offset) : r \in R}}

\* energySeriesSQL: only buckets with readings are returned; a reading counts
\* whole for the bucket it starts in.
Series(R, L, to, width, offset) ==
  {[start |-> b, sums |->
      Sums(R, L, {r \in R : BucketOf(r.time, width, offset) = b}, to)] :
   b \in {BucketOf(r.time, width, offset) : r \in R}}

\* peakDemandSQL: the highest consumption and its first time, if any.
Peaks(R) ==
  {[kw |-> r.cons, time |-> r.time] :
     r \in {r \in R : \A x \in R : \/ x.cons < r.cons
                                   \/ x.cons = r.cons /\ x.time >= r.time}}

\* GetEnergySummary: the share of solar not exported, in per cent; 0 stands
\* for "not defined" when nothing was generated.
SelfConsumption(s) ==
  IF s.generated > 0
  THEN ((s.generated - s.solarGrid) * 100) \div s.generated ELSE 0

\* averagePower, of the consumption: over the time covered, 0 without any.
AveragePower(s) == IF s.covered = 0 THEN 0 ELSE s.consumed \div s.covered

-----------------------------------------------------------------------------
(* Reference: the range second by second                                   *)

\* The reading in force at second s: the last one so far, unless too old.
InForce(R, L, s) ==
  {r \in L : /\ r.time <= s
             /\ s - r.time < MaxReadingSeconds
             /\ \A x \in R : x.time <= s => x.time <= r.time}

Reference(R, L, from, to) ==
  LET Over(p(_)) == SumOf(from..(to - 1), LAMBDA s : SumOf(InForce(R, L, s), p))
  IN [generated |-> Over(LAMBDA r : r.solar),
      consumed  |-> Over(LAMBDA r : r.cons),
      exported  |-> Over(LAMBDA r : Positive(r.net)),
      imported  |-> Over(LAMBDA r : Positive(-r.net)),
      covered   |-> Over(LAMBDA r : 1)]
=============================================================================
