---------------------------- MODULE QueryProofs ----------------------------
(***************************************************************************)
(* Proofs about Query for any houses, users, grids, page sizes and limits, *)
(* any number of registrations, changes of ownership and failing reads:    *)
(* first what a listing gathers, then what the answers about energy say of *)
(* the readings, which rests on the facts about finite sums in between.    *)
(***************************************************************************)
EXTENDS Query, FiniteSetTheorems, SequenceTheorems, WellFoundedInduction, TLAPS

Ops == {"list", "house", "latest", "series", "summary"}

\* The elements of a sequence, and that they are in strict order.
Elements(s) == {s[i] : i \in DOMAIN s}

Ascending(s) == \A i, j \in DOMAIN s : i < j => s[i] < s[j]

\* The tables and counters have their types.
StateTypes ==
  /\ world \in Worlds
  /\ houses \subseteq world.houses
  /\ owner \in [world.houses -> Users \cup {None}]
  /\ readings \subseteq world.readings
  /\ changes \in 0..MaxChanges
  /\ faults \in 0..MaxFaults

\* The fields of a call that the statements use, and its history: its filter
\* selects what it selected all along, and nothing that is not noted.
CallInv ==
  call # None =>
    /\ {"op", "at", "user", "grid", "house", "always", "ever"} \subseteq DOMAIN call
    /\ call.op \in Ops
    /\ call.always \subseteq Selected(call)
    /\ Selected(call) \subseteq call.ever

\* A listing has what its filter selected all along up to its token, once and
\* in order; the page in hand continues it, up to the next token or to the end.
ListInv ==
  call # None /\ call.op = "list" =>
    /\ {"size", "after", "page", "next", "got"} \subseteq DOMAIN call
    /\ call.at \in {"page", "status"}
    /\ call.size \in Int /\ call.after \in Nat \cup {None} /\ call.next \in Nat
    /\ call.got \in Seq(Nat) /\ Ascending(call.got)
    /\ call.page \in Seq(Nat) /\ Ascending(call.page) /\ Len(call.page) <= MaxPageSize
    /\ Elements(call.got) \subseteq call.ever
    /\ Elements(call.page) \subseteq call.ever
    /\ call.after # None =>
         /\ \A g \in Elements(call.got) : g <= call.after
         /\ \A h \in call.always : h <= call.after => h \in Elements(call.got)
    /\ call.at = "status" =>
         /\ call.after # None
         /\ \A g \in Elements(call.page) : g > call.after
         /\ call.next # 0 => /\ call.next > call.after
                             /\ \A g \in Elements(call.page) : g <= call.next
         /\ \A h \in call.always :
              h > call.after /\ (call.next = 0 \/ h <= call.next)
                => h \in Elements(call.page)

\* A call on one house with an owner scope reads data only of a house that was
\* selected.
HouseInv ==
  call # None /\ call.op # "list" =>
    /\ call.grid = Any
    /\ call.at \in {"check", "house", "data", "peak"}
    /\ call.at \in {"data", "peak"} => call.house \in call.ever

\* An answer has a code, and is right when it is one of a listing or a house.
AnswerInv ==
  /\ answer # None =>
       answer.code \in {"ok", "invalid", "notfound", "internal", "canceled"}
  /\ ListingExact
  /\ ScopeKept

\* The inductive invariant.
IInv == StateTypes /\ CallInv /\ ListInv /\ HouseInv /\ AnswerInv

-----------------------------------------------------------------------------
(* Sequences of houses                                                     *)

\* Two sequences in order make one when the first ends before the second.
LEMMA ConcatFacts ==
  ASSUME NEW s \in Seq(Nat), NEW t \in Seq(Nat), Ascending(s), Ascending(t),
         \A g \in Elements(s), h \in Elements(t) : g < h
  PROVE  /\ s \o t \in Seq(Nat) /\ Ascending(s \o t)
         /\ Elements(s \o t) = Elements(s) \cup Elements(t)
<1> DEFINE u == s \o t
<1>1. /\ Len(s) \in Nat /\ Len(t) \in Nat
      /\ DOMAIN s = 1..Len(s) /\ DOMAIN t = 1..Len(t)
  OBVIOUS
<1>2. /\ u \in Seq(Nat) /\ Len(u) = Len(s) + Len(t) /\ DOMAIN u = 1..(Len(s) + Len(t))
      /\ \A i \in 1..(Len(s) + Len(t)) :
           u[i] = IF i <= Len(s) THEN s[i] ELSE t[i - Len(s)]
  OBVIOUS
<1> HIDE DEF u
<1>3. \A i \in DOMAIN u : \/ i \in DOMAIN s /\ u[i] = s[i]
                          \/ i > Len(s) /\ i - Len(s) \in DOMAIN t /\ u[i] = t[i - Len(s)]
  <2> SUFFICES ASSUME NEW i \in 1..(Len(s) + Len(t))
               PROVE  \/ i \in DOMAIN s /\ u[i] = s[i]
                      \/ i > Len(s) /\ i - Len(s) \in DOMAIN t /\ u[i] = t[i - Len(s)]
    BY <1>2
  <2>1. CASE i <= Len(s)
    <3>1. i \in 1..Len(s)
      BY <1>1, <2>1
    <3>2. u[i] = s[i]
      BY <1>2, <2>1
    <3> QED BY <1>1, <3>1, <3>2
  <2>2. CASE ~(i <= Len(s))
    <3>1. i > Len(s) /\ i - Len(s) \in 1..Len(t)
      BY <1>1, <2>2
    <3>2. u[i] = t[i - Len(s)]
      BY <1>2, <2>2
    <3> QED BY <1>1, <3>1, <3>2
  <2> QED BY <2>1, <2>2
<1>4. /\ \A i \in DOMAIN s : i \in DOMAIN u /\ u[i] = s[i]
      /\ \A j \in DOMAIN t : j + Len(s) \in DOMAIN u /\ u[j + Len(s)] = t[j]
  <2>1. ASSUME NEW i \in 1..Len(s) PROVE i \in DOMAIN u /\ u[i] = s[i]
    BY <1>1, <1>2
  <2>2. ASSUME NEW j \in 1..Len(t) PROVE j + Len(s) \in DOMAIN u /\ u[j + Len(s)] = t[j]
    <3>1. /\ j + Len(s) \in 1..(Len(s) + Len(t)) /\ ~(j + Len(s) <= Len(s))
          /\ (j + Len(s)) - Len(s) = j
      BY <1>1
    <3> QED BY <1>2, <3>1
  <2> QED BY <1>1, <2>1, <2>2
<1>5. Elements(u) = Elements(s) \cup Elements(t)
  BY <1>3, <1>4 DEF Elements
<1>6. Ascending(u)
  <2> SUFFICES ASSUME NEW i \in DOMAIN u, NEW j \in DOMAIN u, i < j
               PROVE  u[i] < u[j]
    BY DEF Ascending
  <2>1. i \in Nat /\ j \in Nat
    BY <1>1, <1>2
  <2>2. CASE j \in DOMAIN s /\ u[j] = s[j]
    <3>1. i \in DOMAIN s /\ u[i] = s[i]
      BY <1>1, <1>3, <2>1, <2>2
    <3> QED BY <2>2, <3>1 DEF Ascending
  <2>3. CASE j > Len(s) /\ j - Len(s) \in DOMAIN t /\ u[j] = t[j - Len(s)]
    <3>1. CASE i \in DOMAIN s /\ u[i] = s[i]
      BY <2>3, <3>1 DEF Elements
    <3>2. CASE i > Len(s) /\ i - Len(s) \in DOMAIN t /\ u[i] = t[i - Len(s)]
      <4>1. i - Len(s) < j - Len(s)
        BY <1>1, <2>1
      <4> QED BY <2>3, <3>2, <4>1 DEF Ascending
    <3> QED BY <1>3, <3>1, <3>2
  <2> QED BY <1>3, <2>2, <2>3
<1> QED BY <1>2, <1>5, <1>6 DEF u

\* How many elements of S are not above h.
Rank(S, h) == Cardinality({g \in S : g <= h})

\* Ranks are the numbers up to the size of the set, in the order of the set.
LEMMA RankFacts ==
  ASSUME NEW S \in SUBSET Nat, IsFiniteSet(S)
  PROVE  /\ Cardinality(S) \in Nat
         /\ \A h \in S : Rank(S, h) \in 1..Cardinality(S)
         /\ \A g, h \in S : g < h <=> Rank(S, g) < Rank(S, h)
         /\ \A i \in 1..Cardinality(S) : \E h \in S : Rank(S, h) = i
<1> DEFINE Up(h) == {g \in S : g <= h}
           N == Cardinality(S)
<1>0. \A h \in S : h \in Nat
  OBVIOUS
<1>1. N \in Nat
  BY FS_CardinalityType
<1>2. ASSUME NEW h \in S
      PROVE  IsFiniteSet(Up(h)) /\ Rank(S, h) \in 1..N
  <2>1. Up(h) \in SUBSET S
    OBVIOUS
  <2>2. IsFiniteSet(Up(h)) /\ Cardinality(Up(h)) <= N /\ Cardinality(Up(h)) \in Nat
    BY <2>1, FS_Subset, FS_CardinalityType
  <2>3. Up(h) # {}
    BY <1>2
  <2>4. Cardinality(Up(h)) # 0
    BY <2>2, <2>3, FS_EmptySet
  <2> QED BY <1>1, <2>2, <2>4 DEF Rank
<1>3. ASSUME NEW g \in S, NEW h \in S, g < h
      PROVE  Rank(S, g) < Rank(S, h)
  <2>0. g \in Nat /\ h \in Nat
    BY <1>0, <1>3
  <2>1. Up(g) \in SUBSET Up(h)
    <3> SUFFICES ASSUME NEW x \in S, x <= g PROVE x <= h
      OBVIOUS
    <3>1. x \in Nat
      BY <1>0
    <3> QED BY <1>3, <2>0, <3>1
  <2>2. h \in Up(h) /\ h \notin Up(g)
    BY <1>3, <2>0
  <2>3. IsFiniteSet(Up(h)) /\ IsFiniteSet(Up(g))
    BY <1>2
  <2>4. /\ Cardinality(Up(g)) <= Cardinality(Up(h))
        /\ Cardinality(Up(g)) = Cardinality(Up(h)) => Up(g) = Up(h)
    BY <2>1, <2>3, FS_Subset
  <2>5. Cardinality(Up(g)) \in Nat /\ Cardinality(Up(h)) \in Nat
    BY <2>3, FS_CardinalityType
  <2>6. Cardinality(Up(g)) # Cardinality(Up(h))
    BY <2>2, <2>4
  <2> QED BY <2>4, <2>5, <2>6 DEF Rank
<1>4. \A g, h \in S : g < h <=> Rank(S, g) < Rank(S, h)
  <2> SUFFICES ASSUME NEW g \in S, NEW h \in S PROVE g < h <=> Rank(S, g) < Rank(S, h)
    OBVIOUS
  <2> HIDE DEF N
  <2>0. Rank(S, g) \in 1..N /\ Rank(S, h) \in 1..N
    BY <1>2
  <2>1. g \in Nat /\ h \in Nat /\ Rank(S, g) \in Nat /\ Rank(S, h) \in Nat
    BY <1>0, <1>1, <2>0
  <2>2. CASE g < h
    BY <1>3, <2>2
  <2>3. CASE h < g
    <3>1. Rank(S, h) < Rank(S, g)
      BY <1>3, <2>3
    <3> QED BY <2>1, <2>3, <3>1
  <2>4. CASE g = h
    BY <2>1, <2>4
  <2> QED BY <2>1, <2>2, <2>3, <2>4
<1>5. \A i \in 1..N : \E h \in S : Rank(S, h) = i
  <2> DEFINE f == [h \in S |-> Rank(S, h)]
  <2>1. f \in [S -> 1..N]
    BY <1>2
  <2>2. \A g, h \in S : f[g] = f[h] => g = h
    <3> SUFFICES ASSUME NEW g \in S, NEW h \in S, Rank(S, g) = Rank(S, h) PROVE g = h
      OBVIOUS
    <3> HIDE DEF N
    <3>0. Rank(S, g) \in 1..N
      BY <1>2
    <3>1. ~(Rank(S, g) < Rank(S, h)) /\ ~(Rank(S, h) < Rank(S, g))
      BY <1>1, <3>0
    <3>2. ~(g < h) /\ ~(h < g) /\ g \in Nat /\ h \in Nat
      BY <1>4, <3>1
    <3> QED BY <3>2
  <2>3. f \in Injection(S, 1..N)
    BY <2>1, <2>2 DEF Injection, IsInjective
  <2>4. IsFiniteSet(1..N) /\ Cardinality(1..N) = N
    BY <1>1, FS_Interval
  <2>5. f \in Surjection(S, 1..N)
    <3> HIDE DEF f
    <3> QED BY <2>3, <2>4, FS_Injection
  <2>6. \A i \in 1..N : \E h \in S : f[h] = i
    <3> HIDE DEF f, N
    <3> QED BY <2>5 DEF Surjection
  <2> QED BY <2>6
<1> QED BY <1>1, <1>2, <1>4, <1>5

\* The n least elements of S, in order.
Least(S, n) == [i \in 1..n |-> CHOOSE h \in S : Rank(S, h) = i]

\* Whatever is not above one of them is one of them.
LEMMA LeastFacts ==
  ASSUME NEW S \in SUBSET Nat, IsFiniteSet(S), NEW n \in 0..Cardinality(S)
  PROVE  /\ Least(S, n) \in Seq(Nat) /\ Len(Least(S, n)) = n
         /\ DOMAIN Least(S, n) = 1..n
         /\ \A i \in 1..n : Least(S, n)[i] \in S
         /\ \A i, j \in 1..n : i < j => Least(S, n)[i] < Least(S, n)[j]
         /\ \A h \in S, i \in 1..n :
              h <= Least(S, n)[i] => \E j \in 1..i : Least(S, n)[j] = h
         /\ n = Cardinality(S) => \A h \in S : \E j \in 1..n : Least(S, n)[j] = h
<1> DEFINE r == Least(S, n)
<1>0. r = [i \in 1..n |-> CHOOSE h \in S : Rank(S, h) = i]
  BY DEF Least
<1> HIDE DEF r
<1>1. /\ Cardinality(S) \in Nat
      /\ \A h \in S : Rank(S, h) \in 1..Cardinality(S)
      /\ \A g, h \in S : g < h <=> Rank(S, g) < Rank(S, h)
      /\ \A i \in 1..Cardinality(S) : \E h \in S : Rank(S, h) = i
  BY RankFacts
<1>2. n \in Nat /\ \A i \in 1..n : i \in 1..Cardinality(S)
  BY <1>1
<1>3. \A i \in 1..n : r[i] \in S /\ Rank(S, r[i]) = i
  <2> SUFFICES ASSUME NEW i \in 1..n PROVE r[i] \in S /\ Rank(S, r[i]) = i
    OBVIOUS
  <2>1. r[i] = CHOOSE h \in S : Rank(S, h) = i
    BY <1>0
  <2>2. \E h \in S : Rank(S, h) = i
    BY <1>1, <1>2
  <2> QED BY <2>1, <2>2
<1>4. r \in [1..n -> Nat]
  <2>1. \A i \in 1..n : r[i] \in Nat
    BY <1>3
  <2> QED BY <1>0, <2>1
<1>5. r \in Seq(Nat) /\ Len(r) = n /\ DOMAIN r = 1..n
  BY <1>2, <1>4
<1>6. \A i, j \in 1..n : i < j => r[i] < r[j]
  <2> SUFFICES ASSUME NEW i \in 1..n, NEW j \in 1..n, i < j PROVE r[i] < r[j]
    OBVIOUS
  <2>1. r[i] \in S /\ r[j] \in S /\ Rank(S, r[i]) < Rank(S, r[j])
    BY <1>3
  <2> QED BY <1>1, <2>1
<1>7. \A g, h \in S : Rank(S, g) = Rank(S, h) => g = h
  <2> SUFFICES ASSUME NEW g \in S, NEW h \in S, Rank(S, g) = Rank(S, h) PROVE g = h
    OBVIOUS
  <2>1. Rank(S, g) \in Nat /\ Rank(S, h) \in Nat /\ g \in Nat /\ h \in Nat
    BY <1>1
  <2>2. ~(g < h) /\ ~(h < g)
    BY <1>1, <2>1
  <2> QED BY <2>1, <2>2
<1>8. \A h \in S : Rank(S, h) \in 1..n => r[Rank(S, h)] = h
  BY <1>3, <1>7
<1>9. ASSUME NEW h \in S, NEW i \in 1..n, h <= r[i] PROVE \E j \in 1..i : r[j] = h
  <2>1. Rank(S, h) \in 1..i
    <3>0. r[i] \in S /\ Rank(S, r[i]) = i /\ r[i] \in Nat /\ h \in Nat
      BY <1>3
    <3>1. ~(r[i] < h)
      BY <1>9, <3>0
    <3>2. ~(i < Rank(S, h)) /\ Rank(S, h) \in 1..Cardinality(S)
      BY <1>1, <3>0, <3>1
    <3> QED BY <1>1, <1>2, <3>2
  <2>2. Rank(S, h) \in 1..n
    BY <1>2, <2>1
  <2> QED BY <1>8, <2>1, <2>2
<1>10. n = Cardinality(S) => \A h \in S : \E j \in 1..n : r[j] = h
  BY <1>1, <1>8
<1> QED BY <1>3, <1>5, <1>6, <1>9, <1>10 DEF r

\* The first m elements of a sequence.
LEMMA PrefixFacts ==
  ASSUME NEW s \in Seq(Nat), NEW m \in 0..Len(s)
  PROVE  /\ SubSeq(s, 1, m) \in Seq(Nat) /\ Len(SubSeq(s, 1, m)) = m
         /\ DOMAIN SubSeq(s, 1, m) = 1..m
         /\ \A i \in 1..m : SubSeq(s, 1, m)[i] = s[i]
         /\ Elements(SubSeq(s, 1, m)) = {s[i] : i \in 1..m}
<1> DEFINE t == SubSeq(s, 1, m)
<1>1. t \in Seq(Nat)
  BY SubSeqProperties
<1>2. Len(t) = m
  BY SubSeqProperties
<1>3. \A i \in 1..m : t[i] = s[i]
  <2>1. \A i \in 1..((m - 1) + 1) : t[i] = s[(1 + i) - 1]
    BY SubSeqProperties
  <2>2. (m - 1) + 1 = m /\ \A i \in 1..m : (1 + i) - 1 = i
    OBVIOUS
  <2> QED BY <2>1, <2>2
<1> HIDE DEF t
<1>4. DOMAIN t = 1..m
  BY <1>1, <1>2
<1>5. Elements(t) = {s[i] : i \in 1..m}
  BY <1>3, <1>4 DEF Elements
<1> QED BY <1>1, <1>2, <1>3, <1>4, <1>5 DEF t

\* The page and the next token that ReadPage takes from the rows.
PageOf(size) ==
  LET rows == Rows(size + 1) IN SubSeq(rows, 1, Smaller(size, Len(rows)))

NextOf(size) == TokenOf(Rows(size + 1), size)

\* A page: the selected houses after the token, up to the next token or to the
\* end, at most size of them.
LEMMA PageFacts ==
  ASSUME StateTypes, call.after \in Nat, NEW size \in Nat \ {0}
  PROVE  /\ PageOf(size) \in Seq(Nat) /\ Ascending(PageOf(size))
         /\ Len(PageOf(size)) <= size /\ NextOf(size) \in Nat
         /\ \A g \in Elements(PageOf(size)) : g \in Selected(call) /\ g > call.after
         /\ NextOf(size) # 0 => /\ NextOf(size) > call.after
                               /\ \A g \in Elements(PageOf(size)) : g <= NextOf(size)
         /\ \A h \in Selected(call) :
              h > call.after /\ (NextOf(size) = 0 \/ h <= NextOf(size))
                => h \in Elements(PageOf(size))
<1> DEFINE rows == Rows(size + 1)
           page == PageOf(size)
           next == NextOf(size)
<1>0. /\ rows = Rows(size + 1)
      /\ page = SubSeq(rows, 1, Smaller(size, Len(rows))) /\ next = TokenOf(rows, size)
  BY DEF PageOf, NextOf
<1> HIDE DEF rows, page, next
<1> DEFINE S == {h \in Selected(call) : h > call.after}
           n == Smaller(size + 1, Cardinality(S))
           m == Smaller(size, n)
<1>1. S \in SUBSET Nat /\ IsFiniteSet(S)
  <2>1. S \in SUBSET world.houses
    BY DEF StateTypes, Selected, SelectedOf
  <2>2. world.houses \subseteq Nat /\ IsFiniteSet(world.houses)
    BY QueryAssumption DEF StateTypes
  <2> HIDE DEF S
  <2> QED BY <2>1, <2>2, FS_Subset
<1>2. rows = Least(S, n)
  BY <1>0 DEF Rows, Rank, Least
<1>3. Cardinality(S) \in Nat
  <2> HIDE DEF S
  <2> QED BY <1>1, FS_CardinalityType
<1>4. /\ n \in 0..Cardinality(S) /\ n <= size + 1
      /\ n <= size => n = Cardinality(S)
  <2> HIDE DEF S
  <2> QED BY <1>3 DEF Smaller
<1>5. /\ rows \in Seq(Nat) /\ Len(rows) = n /\ DOMAIN rows = 1..n
      /\ \A i \in 1..n : rows[i] \in S
      /\ \A i, j \in 1..n : i < j => rows[i] < rows[j]
      /\ \A h \in S, i \in 1..n : h <= rows[i] => \E j \in 1..i : rows[j] = h
      /\ n = Cardinality(S) => \A h \in S : \E j \in 1..n : rows[j] = h
  <2> HIDE DEF S, n
  <2>1. /\ Least(S, n) \in Seq(Nat) /\ Len(Least(S, n)) = n
        /\ DOMAIN Least(S, n) = 1..n
        /\ \A i \in 1..n : Least(S, n)[i] \in S
        /\ \A i, j \in 1..n : i < j => Least(S, n)[i] < Least(S, n)[j]
        /\ \A h \in S, i \in 1..n :
             h <= Least(S, n)[i] => \E j \in 1..i : Least(S, n)[j] = h
        /\ n = Cardinality(S) => \A h \in S : \E j \in 1..n : Least(S, n)[j] = h
    BY <1>1, <1>4, LeastFacts, Zenon
  <2> QED BY <1>2, <2>1, Zenon
<1>6. n \in Nat /\ m \in 0..n /\ m <= size /\ (n <= size => m = n) /\ (n > size => m = size)
  <2> HIDE DEF S
  <2>1. n \in Nat
    BY <1>3, <1>4
  <2> HIDE DEF n
  <2> QED BY <2>1 DEF Smaller
<1> HIDE DEF S, n, m
<1>7. page = SubSeq(rows, 1, m)
  BY <1>0, <1>5 DEF m
<1>8. /\ page \in Seq(Nat) /\ Len(page) = m /\ DOMAIN page = 1..m
      /\ \A i \in 1..m : page[i] = rows[i]
      /\ Elements(page) = {rows[i] : i \in 1..m}
  <2>1. rows \in Seq(Nat) /\ m \in 0..Len(rows)
    BY <1>5, <1>6
  <2>2. /\ SubSeq(rows, 1, m) \in Seq(Nat) /\ Len(SubSeq(rows, 1, m)) = m
        /\ DOMAIN SubSeq(rows, 1, m) = 1..m
        /\ \A i \in 1..m : SubSeq(rows, 1, m)[i] = rows[i]
        /\ Elements(SubSeq(rows, 1, m)) = {rows[i] : i \in 1..m}
    BY <2>1, PrefixFacts, Zenon
  <2> QED BY <1>7, <2>2, Zenon
<1>9. \A i \in 1..m : i \in 1..n
  BY <1>6
<1>10. Elements(page) = {rows[i] : i \in 1..m}
  BY <1>8
<1>11. Ascending(page)
  <2>1. ASSUME NEW i \in DOMAIN page, NEW j \in DOMAIN page, i < j PROVE page[i] < page[j]
    <3>1. i \in 1..m /\ j \in 1..m
      BY <1>8, <2>1
    <3>2. page[i] = rows[i] /\ page[j] = rows[j] /\ i \in 1..n /\ j \in 1..n
      BY <1>8, <1>9, <3>1
    <3> QED BY <1>5, <2>1, <3>2
  <2> QED BY <2>1 DEF Ascending
<1>12. \A g \in Elements(page) : g \in S
  BY <1>5, <1>9, <1>10
<1>13. CASE n > size
  <2>1. size \in 1..n /\ m = size /\ next = rows[size]
    BY <1>0, <1>5, <1>6, <1>13 DEF TokenOf
  <2>2. next \in S /\ next \in Nat
    BY <1>1, <1>5, <2>1
  <2>3. next > call.after /\ next # 0
    BY <2>2 DEF S
  <2>4. \A g \in Elements(page) : g <= next
    <3> SUFFICES ASSUME NEW i \in 1..m PROVE rows[i] <= next
      BY <1>10
    <3>1. rows[i] \in Nat /\ i \in 1..n
      BY <1>1, <1>5, <1>9
    <3>2. CASE i = size
      BY <2>1, <2>2, <3>2
    <3>3. CASE i < size
      <4>1. rows[i] < rows[size]
        BY <1>5, <2>1, <3>1, <3>3
      <4> QED BY <2>1, <2>2, <3>1, <4>1
    <3> QED BY <2>1, <3>2, <3>3
  <2>5. ASSUME NEW h \in S, h <= next PROVE h \in Elements(page)
    <3>1. PICK j \in 1..size : rows[j] = h
      BY <1>5, <2>1, <2>5
    <3> QED BY <1>10, <2>1, <3>1
  <2> QED BY <1>6, <1>8, <1>11, <1>12, <2>2, <2>3, <2>4, <2>5 DEF S, page, next
<1>14. CASE ~(n > size)
  <2>1. n <= size /\ n = Cardinality(S) /\ m = n /\ next = 0
    BY <1>0, <1>4, <1>5, <1>6, <1>14 DEF TokenOf
  <2>2. \A h \in S : h \in Elements(page)
    BY <1>5, <1>10, <2>1
  <2> QED BY <1>6, <1>8, <1>11, <1>12, <2>1, <2>2 DEF S, page, next
<1> QED BY <1>13, <1>14

\* The page size is one, and not above the maximum.
LEMMA SizeFacts ==
  ASSUME NEW k \in Int, k >= 0
  PROVE  PageSize(k) \in Nat \ {0} /\ PageSize(k) <= MaxPageSize
BY QueryAssumption DEF PageSize

-----------------------------------------------------------------------------
(* The tables change                                                       *)

\* A change of the tables beside a call, which notes what its filter selects.
Changed ==
  /\ houses \subseteq world.houses /\ houses' \subseteq world.houses
  /\ owner' \in [world.houses -> Users \cup {None}]
  /\ answer = None
  /\ changes' \in 0..MaxChanges
  /\ UNCHANGED <<world, readings, answer, faults>>
  /\ Watch

\* Under such a change the history grows as its name says, and nothing else of
\* the call moves.
LEMMA ChangedCall ==
  ASSUME CallInv, Changed, call # None
  PROVE  /\ DOMAIN call' = DOMAIN call
         /\ \A f \in DOMAIN call \ {"always", "ever"} : call'[f] = call[f]
         /\ call'.always = call.always \cap Selected(call)'
         /\ call'.ever = call.ever \cup Selected(call)'
<1> DEFINE T == SelectedOf(houses', owner', call)
<1>1. /\ {"op", "at", "user", "grid", "house", "always", "ever"} \subseteq DOMAIN call
  BY DEF CallInv
<1>2. call' = [call EXCEPT !.always = @ \cap T, !.ever = @ \cup T]
  BY DEF Changed, Watch
<1> HIDE DEF T
<1>3. /\ DOMAIN call' = DOMAIN call
      /\ \A f \in DOMAIN call \ {"always", "ever"} : call'[f] = call[f]
      /\ call'.always = call.always \cap T
      /\ call'.ever = call.ever \cup T
  BY <1>1, <1>2
<1>4. call'.user = call.user /\ call'.grid = call.grid
  BY <1>1, <1>3
<1>5. Selected(call)' = T
  BY <1>4 DEF Selected, SelectedOf, T
<1> QED BY <1>3, <1>5

\* The invariant does not depend on when the tables change.
LEMMA ChangedInv == ASSUME IInv, Changed PROVE IInv'
<1>1. StateTypes'
  BY DEF IInv, StateTypes, Changed
<1>2. AnswerInv'
  BY DEF IInv, AnswerInv, Changed, ListingExact, ScopeKept, Answered
<1>3. CASE call = None
  <2>1. call' = None
    BY <1>3 DEF Changed, Watch
  <2> QED BY <1>1, <1>2, <2>1 DEF IInv, CallInv, ListInv, HouseInv
<1>4. CASE call # None
  <2>1. /\ DOMAIN call' = DOMAIN call
        /\ \A f \in DOMAIN call \ {"always", "ever"} : call'[f] = call[f]
        /\ call'.always = call.always \cap Selected(call)'
        /\ call'.ever = call.ever \cup Selected(call)'
    BY <1>4, ChangedCall DEF IInv
  <2>2. /\ {"op", "at", "user", "grid", "house", "always", "ever"} \subseteq DOMAIN call
        /\ call.op \in Ops
    BY <1>4 DEF IInv, CallInv
  <2>3. call'.op = call.op /\ call'.at = call.at /\ call'.grid = call.grid
        /\ call'.house = call.house
    BY <2>1, <2>2
  <2>4. call'.always \subseteq call.always /\ call.ever \subseteq call'.ever
    BY <2>1
  <2>5. CallInv'
    BY <2>1, <2>2, <2>3 DEF CallInv
  <2>6. ListInv'
    <3> SUFFICES ASSUME call.op = "list" PROVE ListInv'
      BY <2>3 DEF ListInv
    <3>1. {"size", "after", "page", "next", "got"} \subseteq DOMAIN call
      BY <1>4 DEF IInv, ListInv
    <3>2. /\ call'.size = call.size /\ call'.after = call.after
          /\ call'.page = call.page /\ call'.next = call.next /\ call'.got = call.got
      BY <2>1, <3>1
    <3>3. ListInv
      BY DEF IInv
    <3> QED BY <1>4, <2>1, <2>3, <2>4, <3>2, <3>3 DEF ListInv
  <2>7. HouseInv'
    BY <1>4, <2>3, <2>4 DEF IInv, HouseInv
  <2> QED BY <1>1, <1>2, <2>5, <2>6, <2>7 DEF IInv
<1> QED BY <1>3, <1>4

\* Registrations, claims and readings.
LEMMA EnvironmentInv == ASSUME IInv, Environment PROVE IInv'
<1>0. StateTypes /\ answer = None
  BY DEF IInv, Environment
<1>1. CASE \E h \in world.houses : RegisterHouse(h)
  BY <1>0, <1>1, ChangedInv DEF RegisterHouse, Changed, StateTypes
<1>2. CASE \E h \in world.houses : ChangeOwner(h)
  <2>1. PICK h \in world.houses : ChangeOwner(h)
    BY <1>2
  <2>2. owner' \in [world.houses -> Users \cup {None}] /\ changes' \in 0..MaxChanges
    BY <1>0, <2>1, QueryAssumption DEF ChangeOwner, StateTypes
  <2> QED BY <1>0, <2>1, <2>2, ChangedInv DEF ChangeOwner, Changed, StateTypes
<1>3. CASE \E r \in world.readings : InsertReading(r)
  <2>1. StateTypes'
    BY <1>0, <1>3 DEF InsertReading, StateTypes
  <2>2. UNCHANGED <<houses, owner, call, answer>>
    BY <1>3 DEF InsertReading
  <2> QED BY <2>1, <2>2 DEF IInv, CallInv, ListInv, HouseInv, AnswerInv, Selected,
             ListingExact, ScopeKept, Answered
<1> QED BY <1>1, <1>2, <1>3 DEF Environment

-----------------------------------------------------------------------------
(* A call begins, goes on and is answered                                  *)

\* What no step of the service changes.
LEMMA AnswerKept == ASSUME AnswerInv, UNCHANGED answer PROVE AnswerInv'
BY DEF AnswerInv, ListingExact, ScopeKept, Answered

\* A listing begins with nothing listed, before every house.
LEMMA ListBegins ==
  ASSUME IInv, NEW u, NEW g, NEW n \in PageSizes, NEW token \in {0, None},
         List(u, g, n, token)
  PROVE  IInv'
<1> DEFINE c == [op |-> "list", at |-> "page", user |-> u, grid |-> g,
                 house |-> None, size |-> n, after |-> token, page |-> <<>>,
                 next |-> 0, got |-> <<>>, always |-> {}, ever |-> {}]
<1>1. /\ call' = [c EXCEPT !.always = Selected(c), !.ever = Selected(c)]
      /\ UNCHANGED <<dataVars, answer, changes, faults>>
  BY DEF List, Begin
<1>2. /\ {"op", "at", "user", "grid", "house", "always", "ever"} \subseteq DOMAIN call'
      /\ {"size", "after", "page", "next", "got"} \subseteq DOMAIN call'
      /\ call'.op = "list" /\ call'.at = "page" /\ call'.user = c.user
      /\ call'.grid = c.grid /\ call'.size = n /\ call'.after = token
      /\ call'.page = <<>> /\ call'.next = 0 /\ call'.got = <<>>
      /\ call'.always = Selected(c) /\ call'.ever = Selected(c)
  BY <1>1
<1>3. StateTypes' /\ AnswerInv' /\ UNCHANGED <<houses, owner>>
  BY <1>1, AnswerKept DEF IInv, StateTypes, dataVars
<1>4. Selected(call)' = Selected(c)
  BY <1>2, <1>3 DEF Selected, SelectedOf
<1> HIDE DEF c
<1>5. CallInv'
  BY <1>2, <1>4 DEF CallInv, Ops
<1>6. HouseInv'
  BY <1>2 DEF HouseInv
<1>7. /\ <<>> \in Seq(Nat) /\ Len(<<>>) = 0 /\ DOMAIN <<>> = {}
  OBVIOUS
<1>8. Ascending(<<>>) /\ Elements(<<>>) = {}
  BY <1>7 DEF Ascending, Elements
<1>9. \A h \in Selected(c) : h \in Nat \ {0}
  BY QueryAssumption DEF IInv, StateTypes, Selected, SelectedOf
<1>10. n \in Int /\ token \in Nat \cup {None} /\ 0 <= MaxPageSize
  BY QueryAssumption
<1>11. token # None => \A h \in Selected(c) : ~(h <= token)
  BY <1>9
<1>12. ListInv'
  BY <1>2, <1>7, <1>8, <1>10, <1>11 DEF ListInv
<1> QED BY <1>3, <1>5, <1>6, <1>12 DEF IInv

\* A call on one house begins with the check of its request.
LEMMA HouseCallBegins ==
  ASSUME IInv, NEW op \in Ops \ {"list"}, NEW u, NEW h, NEW q, HouseCall(op, u, h, q)
  PROVE  IInv'
<1> DEFINE c == [op |-> op, at |-> "check", user |-> u, grid |-> Any, house |-> h,
                 req |-> q, sums |-> None, rows |-> {}, last |-> {},
                 always |-> {}, ever |-> {}]
<1>1. /\ call' = [c EXCEPT !.always = Selected(c), !.ever = Selected(c)]
      /\ UNCHANGED <<dataVars, answer, changes, faults>>
  BY DEF HouseCall, Begin
<1>2. /\ {"op", "at", "user", "grid", "house", "always", "ever"} \subseteq DOMAIN call'
      /\ call'.op = op /\ call'.at = "check" /\ call'.user = c.user
      /\ call'.grid = c.grid /\ c.grid = Any
      /\ call'.always = Selected(c) /\ call'.ever = Selected(c)
  BY <1>1
<1>3. StateTypes' /\ AnswerInv' /\ UNCHANGED <<houses, owner>>
  BY <1>1, AnswerKept DEF IInv, StateTypes, dataVars
<1>4. Selected(call)' = Selected(c)
  BY <1>2, <1>3 DEF Selected, SelectedOf
<1> HIDE DEF c
<1> QED BY <1>2, <1>3, <1>4 DEF IInv, CallInv, HouseInv, ListInv

\* Clients.
LEMMA ClientInv == ASSUME IInv, Client PROVE IInv'
<1>1. CASE \E u \in Callers \cup {Any}, g \in Grids \cup {Any}, n \in PageSizes,
              token \in {0, None} : List(u, g, n, token)
  BY <1>1, ListBegins
<1>2. CASE \E u \in Callers \cup {Any}, h \in world.houses \cup {None} :
             \/ HouseCall("house", u, h, None)
             \/ HouseCall("latest", u, h, None)
             \/ \E q \in Requests :
                  HouseCall("series", u, h, q) \/ HouseCall("summary", u, h, q)
  <2>1. {"house", "latest", "series", "summary"} \subseteq Ops \ {"list"}
    BY DEF Ops
  <2> QED BY <1>2, <2>1, HouseCallBegins
<1> QED BY <1>1, <1>2 DEF Client

\* A step of the service in which the call goes on.
Advance ==
  /\ call # None /\ DOMAIN call' = DOMAIN call
  /\ call'.op = call.op /\ call'.user = call.user /\ call'.grid = call.grid
  /\ call'.house = call.house /\ call'.always = call.always /\ call'.ever = call.ever
  /\ UNCHANGED <<dataVars, answer, changes>>
  /\ faults' \in 0..MaxFaults

\* It keeps all that does not depend on where the call is.
LEMMA AdvanceInv ==
  ASSUME IInv, Advance
  PROVE  StateTypes' /\ CallInv' /\ AnswerInv'
<1>1. StateTypes' /\ AnswerInv' /\ UNCHANGED <<houses, owner>>
  BY AnswerKept DEF IInv, StateTypes, dataVars, Advance
<1>2. Selected(call)' = Selected(call)
  BY <1>1 DEF Selected, SelectedOf, Advance
<1> QED BY <1>1, <1>2 DEF IInv, CallInv, Advance

\* An answer is right if what the call has is.
LEMMA ReplyInv ==
  ASSUME IInv, call # None, faults' \in 0..MaxFaults,
         NEW code \in {"ok", "invalid", "notfound", "internal", "canceled"},
         NEW data, Reply(code, data),
         call.op = "list" /\ code = "ok" =>
           /\ Ascending(data) /\ call.always \subseteq Elements(data)
           /\ Elements(data) \subseteq call.ever,
         call.op # "list" /\ code = "ok" => call.house \in call.ever,
         call.op # "latest" /\ code = "notfound" => call.house \notin call.always
  PROVE  IInv'
<1>1. StateTypes' /\ call' = None
  BY DEF Reply, IInv, StateTypes, dataVars
<1>2. CallInv' /\ ListInv' /\ HouseInv'
  BY <1>1 DEF CallInv, ListInv, HouseInv
<1>3. /\ answer'.op = call.op /\ answer'.code = code /\ answer'.data = data
      /\ answer'.always = call.always /\ answer'.ever = call.ever
      /\ answer'.house = call.house
  BY DEF Reply
<1>4. ListingExact'
  BY <1>3 DEF ListingExact, Answered, Ascending, Elements
<1>5. ScopeKept'
  BY <1>3 DEF ScopeKept, Elements
<1> QED BY <1>1, <1>2, <1>3, <1>4, <1>5 DEF IInv, AnswerInv

-----------------------------------------------------------------------------
(* The steps of a listing                                                  *)

\* listHousesSQL: the page in hand is what follows the token.
LEMMA ReadPageInv == ASSUME IInv, ReadPage PROVE IInv'
<1> DEFINE size == PageSize(call.size)
           page == PageOf(size)
           next == NextOf(size)
<1>1. /\ call # None /\ call.at = "page" /\ call.size >= 0 /\ call.after # None
      /\ call' = [call EXCEPT !.at = "status", !.next = next, !.page = page]
      /\ UNCHANGED <<dataVars, answer, changes, faults>>
  BY DEF ReadPage, Listable, Read, PageOf, NextOf
<1>2. CallInv /\ ListInv /\ HouseInv /\ StateTypes
  BY DEF IInv
<1>3. call.op = "list"
  BY <1>1, <1>2 DEF HouseInv
<1>4. /\ {"op", "at", "user", "grid", "house", "always", "ever"} \subseteq DOMAIN call
      /\ {"size", "after", "page", "next", "got"} \subseteq DOMAIN call
      /\ call.size \in Int /\ call.after \in Nat
  BY <1>1, <1>2, <1>3 DEF CallInv, ListInv
<1>5. size \in Nat \ {0} /\ size <= MaxPageSize
  BY <1>1, <1>4, SizeFacts
<1> HIDE DEF size
<1>6. /\ page \in Seq(Nat) /\ Ascending(page) /\ Len(page) <= size /\ next \in Nat
      /\ \A g \in Elements(page) : g \in Selected(call) /\ g > call.after
      /\ next # 0 => next > call.after /\ \A g \in Elements(page) : g <= next
      /\ \A h \in Selected(call) :
           h > call.after /\ (next = 0 \/ h <= next) => h \in Elements(page)
  BY <1>2, <1>4, <1>5, PageFacts
<1> HIDE DEF page, next
<1>7. /\ DOMAIN call' = DOMAIN call /\ call'.at = "status" /\ call'.next = next
      /\ call'.page = page /\ call'.size = call.size /\ call'.after = call.after
      /\ call'.got = call.got /\ call'.op = call.op /\ call'.user = call.user
      /\ call'.grid = call.grid /\ call'.house = call.house
      /\ call'.always = call.always /\ call'.ever = call.ever
  BY <1>1, <1>4
<1>8. Advance
  BY <1>1, <1>2, <1>7 DEF Advance, StateTypes
<1>9. Len(page) <= MaxPageSize
  <2>1. Len(page) \in Nat
    BY <1>6, LenProperties
  <2> QED BY <1>5, <1>6, <2>1, QueryAssumption
<1>10. Elements(page) \subseteq call.ever /\ call.always \subseteq Selected(call)
  BY <1>1, <1>2, <1>6 DEF CallInv
<1>11. ListInv'
  BY <1>1, <1>2, <1>3, <1>4, <1>6, <1>7, <1>9, <1>10 DEF ListInv
<1>12. HouseInv'
  BY <1>3, <1>7 DEF HouseInv
<1> QED BY <1>8, <1>11, <1>12, AdvanceInv DEF IInv

\* A page is complete: the listing has all up to the next token, or to the end.
LEMMA PageAnsweredInv == ASSUME IInv, PageAnswered PROVE IInv'
<1>1. call # None /\ call.op = "list" /\ call.at = "status"
  BY DEF PageAnswered
<1>2. CallInv /\ ListInv /\ StateTypes
  BY DEF IInv
<1>3. /\ {"op", "at", "user", "grid", "house", "always", "ever"} \subseteq DOMAIN call
      /\ {"size", "after", "page", "next", "got"} \subseteq DOMAIN call
      /\ call.size \in Int /\ call.after \in Nat /\ call.next \in Nat
      /\ call.got \in Seq(Nat) /\ Ascending(call.got)
      /\ call.page \in Seq(Nat) /\ Ascending(call.page)
      /\ Elements(call.got) \subseteq call.ever
      /\ Elements(call.page) \subseteq call.ever
      /\ \A g \in Elements(call.got) : g <= call.after
      /\ \A h \in call.always : h <= call.after => h \in Elements(call.got)
      /\ \A g \in Elements(call.page) : g > call.after
      /\ call.next # 0 => /\ call.next > call.after
                          /\ \A g \in Elements(call.page) : g <= call.next
      /\ \A h \in call.always :
           h > call.after /\ (call.next = 0 \/ h <= call.next)
             => h \in Elements(call.page)
  BY <1>1, <1>2 DEF CallInv, ListInv
<1>4. \A h \in call.always : h \in Nat
  BY <1>1, <1>2, QueryAssumption DEF CallInv, StateTypes, Selected, SelectedOf
<1>5. \A s \in Seq(Nat) : \A g \in Elements(s) : g \in Nat
  BY DEF Elements
<1>6. \A g \in Elements(call.got), h \in Elements(call.page) : g < h
  BY <1>3, <1>5
<1> DEFINE all == call.got \o call.page
<1>7. /\ all \in Seq(Nat) /\ Ascending(all)
      /\ Elements(all) = Elements(call.got) \cup Elements(call.page)
  BY <1>3, <1>6, ConcatFacts
<1> HIDE DEF all
<1>8. CASE call.next = 0
  <2>1. Reply("ok", all) /\ UNCHANGED faults
    BY <1>8 DEF PageAnswered, all
  <2>2. call.always \subseteq Elements(all) /\ Elements(all) \subseteq call.ever
    BY <1>3, <1>4, <1>7, <1>8
  <2>3. faults' \in 0..MaxFaults
    BY <1>2, <2>1 DEF StateTypes
  <2> QED BY <1>1, <1>7, <2>1, <2>2, <2>3, ReplyInv
<1>9. CASE call.next # 0
  <2>1. /\ call' = [call EXCEPT !.at = "page", !.after = call.next, !.got = all,
                                !.page = <<>>, !.next = 0]
        /\ UNCHANGED <<dataVars, answer, changes, faults>>
    BY <1>9 DEF PageAnswered, Read, all
  <2>2. /\ DOMAIN call' = DOMAIN call /\ call'.at = "page" /\ call'.next = 0
        /\ call'.page = <<>> /\ call'.size = call.size /\ call'.after = call.next
        /\ call'.got = all /\ call'.op = call.op /\ call'.user = call.user
        /\ call'.grid = call.grid /\ call'.house = call.house
        /\ call'.always = call.always /\ call'.ever = call.ever
    BY <1>3, <2>1
  <2>3. Advance
    BY <1>1, <1>2, <2>1, <2>2 DEF Advance, StateTypes
  <2>4. /\ <<>> \in Seq(Nat) /\ Len(<<>>) = 0 /\ DOMAIN <<>> = {} /\ 0 <= MaxPageSize
    BY QueryAssumption
  <2>5. Ascending(<<>>) /\ Elements(<<>>) = {}
    BY <2>4 DEF Ascending, Elements
  <2>6. \A h \in call.always : h <= call.next => h \in Elements(all)
    BY <1>3, <1>4, <1>7, <1>9
  <2>7. \A g \in Elements(all) : g <= call.next
    BY <1>3, <1>5, <1>7, <1>9
  <2>8. ListInv'
    BY <1>1, <1>3, <1>7, <2>2, <2>4, <2>5, <2>6, <2>7 DEF ListInv
  <2>9. HouseInv'
    BY <1>1, <2>2 DEF HouseInv
  <2> QED BY <2>3, <2>8, <2>9, AdvanceInv DEF IInv
<1> QED BY <1>8, <1>9

\* A read of a page fails: the listing stays where it is.
LEMMA PageFailsInv == ASSUME IInv, PageFails PROVE IInv'
<1>1. /\ call # None /\ call.op = "list" /\ faults' = faults - 1 /\ faults > 0
      /\ call' = [call EXCEPT !.at = "page", !.page = <<>>, !.next = 0]
      /\ UNCHANGED <<dataVars, answer, changes>>
  BY DEF PageFails, Fault
<1>2. CallInv /\ ListInv /\ StateTypes
  BY DEF IInv
<1>3. /\ {"op", "at", "user", "grid", "house", "always", "ever"} \subseteq DOMAIN call
      /\ {"size", "after", "page", "next", "got"} \subseteq DOMAIN call
  BY <1>1, <1>2 DEF CallInv, ListInv
<1>4. /\ DOMAIN call' = DOMAIN call /\ call'.at = "page" /\ call'.next = 0
      /\ call'.page = <<>> /\ call'.size = call.size /\ call'.after = call.after
      /\ call'.got = call.got /\ call'.op = call.op /\ call'.user = call.user
      /\ call'.grid = call.grid /\ call'.house = call.house
      /\ call'.always = call.always /\ call'.ever = call.ever
  BY <1>1, <1>3
<1>5. faults' \in 0..MaxFaults
  BY <1>1, <1>2, QueryAssumption DEF StateTypes
<1>6. Advance
  BY <1>1, <1>4, <1>5 DEF Advance
<1>7. /\ <<>> \in Seq(Nat) /\ Len(<<>>) = 0 /\ DOMAIN <<>> = {} /\ 0 <= MaxPageSize
  BY QueryAssumption
<1>8. Ascending(<<>>) /\ Elements(<<>>) = {}
  BY <1>7 DEF Ascending, Elements
<1>9. ListInv'
  BY <1>1, <1>2, <1>4, <1>7, <1>8 DEF ListInv
<1>10. HouseInv'
  BY <1>1, <1>4 DEF HouseInv
<1> QED BY <1>6, <1>9, <1>10, AdvanceInv DEF IInv

-----------------------------------------------------------------------------
(* The steps of a call on one house                                        *)

\* Such a call moves to another place; if it is to read data, its house was
\* selected.
LEMMA HouseStep ==
  ASSUME IInv, Advance, call.op # "list",
         call'.at \in {"check", "house", "data", "peak"},
         call'.at \in {"data", "peak"} => call.house \in call.ever
  PROVE  IInv'
<1>1. ListInv' /\ HouseInv'
  BY DEF IInv, HouseInv, ListInv, Advance
<1> QED BY <1>1, AdvanceInv DEF IInv

\* A refusal, or a failing store, shows nothing.
LEMMA RefuseInv ==
  ASSUME IInv, call # None, faults' \in 0..MaxFaults,
         NEW code \in {"invalid", "internal", "canceled"}, Reply(code, <<>>)
  PROVE  IInv'
BY ReplyInv

\* The request is checked.
LEMMA CheckRequestInv == ASSUME IInv, CheckRequest PROVE IInv'
<1>1. call # None /\ call.at = "check" /\ StateTypes /\ UNCHANGED faults
  BY DEF CheckRequest, IInv, Read, Refuse
<1>2. {"op", "at", "user", "grid", "house", "always", "ever"} \subseteq DOMAIN call
      /\ call.op # "list"
  BY <1>1 DEF IInv, CallInv, ListInv
<1>3. faults' \in 0..MaxFaults
  BY <1>1 DEF StateTypes
<1>4. CASE Acceptable(call)
  <2>1. call' = [call EXCEPT !.at = "house"] /\ UNCHANGED <<dataVars, answer, changes>>
    BY <1>4 DEF CheckRequest, Goto, Read
  <2>2. Advance /\ call'.at = "house"
    BY <1>1, <1>2, <1>3, <2>1 DEF Advance
  <2> QED BY <1>2, <2>2, HouseStep
<1>5. CASE ~Acceptable(call)
  <2>1. Reply("invalid", <<>>)
    BY <1>5 DEF CheckRequest, Refuse
  <2> QED BY <1>1, <1>3, <2>1, RefuseInv
<1> QED BY <1>4, <1>5

\* ownedHouse: what goes on was selected just now, what is refused was not.
LEMMA OwnedHouseInv == ASSUME IInv, OwnedHouse PROVE IInv'
<1>1. call # None /\ call.at = "house" /\ StateTypes /\ CallInv /\ UNCHANGED faults
  BY DEF OwnedHouse, IInv, Read, Refuse
<1>2. /\ {"op", "at", "user", "grid", "house", "always", "ever"} \subseteq DOMAIN call
      /\ call.op # "list" /\ call.grid = Any
  BY <1>1 DEF IInv, CallInv, ListInv, HouseInv
<1>3. faults' \in 0..MaxFaults
  BY <1>1 DEF StateTypes
<1>4. call.house \in Selected(call) <=> call.house \in houses /\ Owns(call)
  BY <1>2 DEF Selected, SelectedOf, Owns
<1>5. CASE call.house \in houses /\ Owns(call)
  <2>1. call' = [call EXCEPT !.at = "data"] /\ UNCHANGED <<dataVars, answer, changes>>
    BY <1>5 DEF OwnedHouse, Goto, Read
  <2>2. Advance /\ call'.at = "data"
    BY <1>1, <1>2, <1>3, <2>1 DEF Advance
  <2>3. call.house \in call.ever
    BY <1>1, <1>4, <1>5 DEF CallInv
  <2> QED BY <1>2, <2>2, <2>3, HouseStep
<1>6. CASE ~(call.house \in houses /\ Owns(call))
  <2>1. Reply("notfound", <<>>)
    BY <1>6 DEF OwnedHouse, Refuse
  <2>2. call.house \notin call.always
    BY <1>1, <1>4, <1>6 DEF CallInv
  <2> QED BY <1>1, <1>2, <1>3, <2>1, <2>2, ReplyInv
<1> QED BY <1>5, <1>6

\* An answer with the data of one house.
LEMMA DataInv ==
  ASSUME IInv, call # None, UNCHANGED faults, call.op # "list",
         call.at \in {"data", "peak"}, NEW data, Reply("ok", data)
  PROVE  IInv'
<1>1. call.house \in call.ever /\ faults' \in 0..MaxFaults
  BY DEF IInv, HouseInv, StateTypes
<1> QED BY <1>1, ReplyInv

\* The answers.
LEMMA AnsweredInv ==
  ASSUME IInv, HouseAnswered \/ LatestAnswered \/ SeriesAnswered \/ SummaryAnswered
  PROVE  IInv'
<1>1. CASE HouseAnswered
  BY <1>1, DataInv DEF HouseAnswered
<1>2. CASE LatestAnswered
  <2>1. CASE Reply("ok", {call.house})
    BY <1>2, <2>1, DataInv DEF LatestAnswered
  <2>2. CASE Reply("notfound", <<>>)
    <3>1. faults' \in 0..MaxFaults /\ call # None /\ call.op = "latest"
      BY <1>2 DEF LatestAnswered, IInv, StateTypes
    <3> QED BY <2>2, <3>1, ReplyInv
  <2> QED BY <1>2, <2>1, <2>2 DEF LatestAnswered
<1>3. CASE SeriesAnswered
  <2>1. PICK L \in Orders(Now) :
          Reply("ok", [req |-> call.req, rows |-> Now, last |-> L, buckets |->
                        Series(Now, L, call.req.to, call.req.width, call.req.offset)])
    BY <1>3 DEF SeriesAnswered
  <2> QED BY <1>3, <2>1, DataInv DEF SeriesAnswered
<1>4. CASE SummaryAnswered
  BY <1>4, DataInv DEF SummaryAnswered
<1> QED BY <1>1, <1>2, <1>3, <1>4

\* The sums are kept until the peak is there.
LEMMA ReadSumsInv == ASSUME IInv, ReadSums PROVE IInv'
<1>1. call # None /\ call.op = "summary" /\ call.at = "data"
      /\ UNCHANGED <<dataVars, answer, changes, faults>>
  BY DEF ReadSums, Read
<1>2. PICK L \in Orders(Now) :
        call' = [call EXCEPT !.at = "peak", !.rows = Now, !.last = L,
                             !.sums = Sums(Now, L, Now, call.req.to)]
  BY DEF ReadSums
<1>3. /\ {"op", "at", "user", "grid", "house", "always", "ever"} \subseteq DOMAIN call
      /\ call.house \in call.ever /\ faults' \in 0..MaxFaults
  BY <1>1 DEF IInv, CallInv, HouseInv, StateTypes
<1>4. Advance /\ call'.at = "peak"
  BY <1>1, <1>2, <1>3 DEF Advance
<1> QED BY <1>1, <1>3, <1>4, HouseStep

\* A store fails under a call on one house.
LEMMA StoreErrorInv ==
  ASSUME IInv, NEW c \in {"house", "data", "peak"}, StoreError(c) PROVE IInv'
<1>1. PICK code \in {"internal", "canceled"} : Reply(code, <<>>)
  BY DEF StoreError
<1>2. call # None /\ faults' \in 0..MaxFaults
  BY QueryAssumption DEF StoreError, Fault, IInv, StateTypes
<1> QED BY <1>1, <1>2, RefuseInv

-----------------------------------------------------------------------------
(* Listings and scope                                                      *)

\* Every behaviour begins without a call and without an answer.
LEMMA InitInv == Init => IInv
BY QueryAssumption DEF Init, IInv, StateTypes, CallInv, ListInv, HouseInv, AnswerInv,
   ListingExact, ScopeKept, Answered

\* Every step keeps the invariant.
LEMMA NextInv == IInv /\ [Next]_vars => IInv'
<1> SUFFICES ASSUME IInv, [Next]_vars PROVE IInv'
  OBVIOUS
<1>1. CASE Environment
  BY <1>1, EnvironmentInv
<1>2. CASE Client
  BY <1>2, ClientInv
<1>3. CASE Service
  <2>1. CASE ListRefused
    <3>1. call # None /\ faults' \in 0..MaxFaults /\ Reply("invalid", <<>>)
      BY <2>1 DEF ListRefused, Refuse, IInv, StateTypes
    <3> QED BY <3>1, RefuseInv
  <2>2. CASE HouseAnswered \/ LatestAnswered \/ SeriesAnswered \/ SummaryAnswered
    BY <2>2, AnsweredInv
  <2> QED
    BY <1>3, <2>1, <2>2, ReadPageInv, PageAnsweredInv, CheckRequestInv, OwnedHouseInv,
       ReadSumsInv DEF Service
<1>4. CASE Failures
  BY <1>4, PageFailsInv, StoreErrorInv DEF Failures
<1>5. CASE UNCHANGED vars
  BY <1>5 DEF vars, dataVars, IInv, StateTypes, CallInv, ListInv, HouseInv, AnswerInv,
     Selected, ListingExact, ScopeKept, Answered
<1> QED BY <1>1, <1>2, <1>3, <1>4, <1>5 DEF Next

\* What a listing has up to its token, and what a call on one house may read,
\* hold in every state.
THEOREM InductiveInvariant == Spec => []IInv
BY InitInv, NextInv, PTL DEF Spec

\* ListHouses over all its pages, whatever is registered, claimed or withdrawn
\* in between and however often a page is asked for again: a house that its
\* filter selects all along is listed, none is listed twice, the order holds,
\* and no page is above the maximum.
THEOREM ListingSound == Spec => []ListingInv
<1>1. ASSUME IInv PROVE ListingInv
  <2>1. call # None => /\ call.op \in Ops /\ call.always \subseteq call.ever
                       /\ call.op = "list" => Len(call.page) <= MaxPageSize
    BY <1>1 DEF IInv, CallInv, ListInv
  <2> QED BY <1>1, <2>1 DEF IInv, StateTypes, AnswerInv, ListingInv, TypeOK, Ops
<1> QED BY <1>1, InductiveInvariant, PTL

\* The owner scope of all five calls: a house, its readings and its energy are
\* shown only to the user whose it was at some time while the call was served,
\* and a house that was the user's all along is never reported missing.
THEOREM ScopeSound == Spec => []ScopeKept
<1>1. IInv => ScopeKept
  BY DEF IInv, AnswerInv
<1> QED BY <1>1, InductiveInvariant, PTL
-----------------------------------------------------------------------------
(* Induction over the subsets of a finite set                              *)

\* A family of subsets of a finite set has one that contains no other.
LEMMA MinimalSubset ==
  ASSUME NEW S, IsFiniteSet(S), NEW C \in SUBSET (SUBSET S), C # {}
  PROVE  \E T \in C : \A U \in C : U \subseteq T => U = T
<1> DEFINE R == StrictSubsetOrdering(S)
<1>1. C \subseteq FiniteSubsetsOf(S)
  BY FS_Subset DEF FiniteSubsetsOf
<1>2. PICK T \in C : \A U \in C : ~(<<U, T>> \in R)
  <2>1. IsWellFoundedOn(R, FiniteSubsetsOf(S))
    BY FS_StrictSubsetOrderingWellFounded
  <2> HIDE DEF R
  <2> QED BY <1>1, <2>1, WFMin
<1>3. \A U \in C : U \subseteq T => U = T
  BY <1>2 DEF StrictSubsetOrdering
<1> QED BY <1>2, <1>3

\* T and one more element.
With(T, x) == T \cup {x}

\* What holds of the empty set and stays true when an element is added holds
\* of every subset.
LEMMA SubsetInduction ==
  ASSUME NEW S, IsFiniteSet(S), NEW B, {} \in B,
         \A T \in SUBSET S : T \in B => \A x \in S \ T : With(T, x) \in B
  PROVE  \A T \in SUBSET S : T \in B
<1> DEFINE C == {T \in SUBSET S : T \notin B}
<1>1. SUFFICES ASSUME C # {} PROVE FALSE
  OBVIOUS
<1>2. PICK T \in C : \A U \in C : U \subseteq T => U = T
  <2>1. C \in SUBSET (SUBSET S)
    OBVIOUS
  <2> HIDE DEF C
  <2> QED BY <1>1, <2>1, MinimalSubset
<1>3. PICK x \in T : TRUE
  BY <1>2
<1>4. T \ {x} \in SUBSET S /\ T \ {x} \in B
  BY <1>2, <1>3
<1>5. T = (T \ {x}) \cup {x} /\ x \in S \ (T \ {x})
  BY <1>2, <1>3
<1> QED BY <1>2, <1>4, <1>5 DEF With

-----------------------------------------------------------------------------
(* Finite sums                                                             *)

\* The element that a sum takes first.
Pick(s) == CHOOSE x \in s : TRUE

\* The function of subsets that a sum of F over S is the last value of.
Partial(g, F, S) ==
  g = [s \in SUBSET S |-> IF s = {} THEN 0 ELSE F[Pick(s)] + g[s \ {Pick(s)}]]

\* It is what SumFunctionOnSet computes, if there is one.
LEMMA PartialSum ==
  ASSUME NEW S, NEW F, \E g : Partial(g, F, S)
  PROVE  \E g : Partial(g, F, S) /\ SumFunctionOnSet(F, S) = g[S]
<1> DEFINE g == CHOOSE g : g = [s \in SUBSET S |->
                  IF s = {} THEN 0 ELSE F[Pick(s)] + g[s \ {Pick(s)}]]
<1>1. SumFunctionOnSet(F, S) = g[S]
  BY DEF SumFunctionOnSet, FoldFunctionOnSet, MapThenFoldSet, Pick
<1>2. Partial(g, F, S)
  BY DEF Partial
<1> QED BY <1>1, <1>2

\* There is at most one for each set, and it does not depend on the larger set.
LEMMA PartialUnique ==
  ASSUME NEW S, IsFiniteSet(S), NEW F, NEW T \in SUBSET S, NEW U \in SUBSET S,
         NEW g, NEW h, Partial(g, F, T), Partial(h, F, U),
         NEW W \in SUBSET S, W \subseteq T, W \subseteq U
  PROVE  g[W] = h[W]
<1> DEFINE C == {V \in SUBSET S : V \subseteq T /\ V \subseteq U /\ g[V] # h[V]}
<1>1. SUFFICES ASSUME C # {} PROVE FALSE
  OBVIOUS
<1>2. PICK V \in C : \A X \in C : X \subseteq V => X = V
  <2>1. C \in SUBSET (SUBSET S)
    OBVIOUS
  <2> HIDE DEF C
  <2> QED BY <1>1, <2>1, MinimalSubset
<1>3. /\ g[V] = IF V = {} THEN 0 ELSE F[Pick(V)] + g[V \ {Pick(V)}]
      /\ h[V] = IF V = {} THEN 0 ELSE F[Pick(V)] + h[V \ {Pick(V)}]
  BY <1>2 DEF Partial
<1>4. CASE V = {}
  BY <1>2, <1>3, <1>4
<1>5. CASE V # {}
  <2>1. Pick(V) \in V
    BY <1>5 DEF Pick
  <2>2. V \ {Pick(V)} \in SUBSET S /\ V \ {Pick(V)} \notin C
    BY <1>2, <2>1
  <2>3. g[V \ {Pick(V)}] = h[V \ {Pick(V)}]
    BY <1>2, <2>2
  <2> QED BY <1>2, <1>3, <1>5, <2>3
<1> QED BY <1>4, <1>5

\* There is one for each finite set.
LEMMA PartialExists ==
  ASSUME NEW S, IsFiniteSet(S), NEW F
  PROVE  \E g : Partial(g, F, S)
<1> DEFINE C == {T \in SUBSET S : ~ \E g : Partial(g, F, T)}
<1>1. SUFFICES ASSUME C # {} PROVE FALSE
  OBVIOUS
<1>2. PICK T \in C : \A U \in C : U \subseteq T => U = T
  <2>1. C \in SUBSET (SUBSET S)
    OBVIOUS
  <2> HIDE DEF C
  <2> QED BY <1>1, <2>1, MinimalSubset
<1> DEFINE V(W) == SumFunctionOnSet(F, W)
           Step(W) == IF W = {} THEN 0 ELSE F[Pick(W)] + V(W \ {Pick(W)})
           g == [W \in SUBSET T |-> IF W = T THEN Step(W) ELSE V(W)]
<1>3. \A W \in SUBSET T : W # T => \E f : Partial(f, F, W)
  BY <1>2
<1>4. \A W \in SUBSET T : W # {} => Pick(W) \in W
  BY DEF Pick
<1>5. \A W \in SUBSET T : W # T => V(W) = Step(W)
  <2> SUFFICES ASSUME NEW W \in SUBSET T, W # T PROVE V(W) = Step(W)
    OBVIOUS
  <2>1. PICK f : Partial(f, F, W) /\ V(W) = f[W]
    BY <1>3, PartialSum
  <2>2. f[W] = IF W = {} THEN 0 ELSE F[Pick(W)] + f[W \ {Pick(W)}]
    BY <2>1 DEF Partial
  <2>3. CASE W = {}
    BY <2>1, <2>2, <2>3
  <2>4. CASE W # {}
    <3> DEFINE X == W \ {Pick(W)}
    <3>1. X \in SUBSET T /\ X # T /\ X \subseteq W
      BY <1>4, <2>4
    <3>2. PICK h : Partial(h, F, X) /\ V(X) = h[X]
      BY <1>3, <3>1, PartialSum
    <3>3. f[X] = h[X]
      <4> HIDE DEF X
      <4>1. X \in SUBSET S /\ W \in SUBSET S
        BY <1>2, <3>1
      <4> QED BY <2>1, <3>1, <3>2, <4>1, PartialUnique
    <3> QED BY <2>1, <2>2, <2>4, <3>2, <3>3
  <2> QED BY <2>3, <2>4
<1>6. \A W \in SUBSET T : g[W] = IF W = {} THEN 0 ELSE F[Pick(W)] + g[W \ {Pick(W)}]
  <2> SUFFICES ASSUME NEW W \in SUBSET T
               PROVE g[W] = IF W = {} THEN 0 ELSE F[Pick(W)] + g[W \ {Pick(W)}]
    OBVIOUS
  <2>1. g[W] = Step(W)
    BY <1>5
  <2>2. CASE W # {}
    <3>1. W \ {Pick(W)} \in SUBSET T /\ W \ {Pick(W)} # T
      BY <1>4, <2>2
    <3>2. g[W \ {Pick(W)}] = V(W \ {Pick(W)})
      BY <3>1
    <3> HIDE DEF g, V
    <3> QED BY <2>1, <2>2, <3>2
  <2> HIDE DEF g, V
  <2> QED BY <2>1, <2>2
<1>7. Partial(g, F, T)
  <2>1. DOMAIN g = SUBSET T /\ g = [W \in SUBSET T |-> g[W]]
    OBVIOUS
  <2> HIDE DEF g
  <2> QED BY <1>6, <2>1 DEF Partial
<1> QED BY <1>2, <1>7

\* A sum is one of its terms, whichever Pick takes, and the sum of the others.
LEMMA SumPicked ==
  ASSUME NEW S, IsFiniteSet(S), NEW F
  PROVE  SumFunctionOnSet(F, S) =
           IF S = {} THEN 0 ELSE F[Pick(S)] + SumFunctionOnSet(F, S \ {Pick(S)})
<1>1. PICK g : Partial(g, F, S) /\ SumFunctionOnSet(F, S) = g[S]
  BY PartialExists, PartialSum
<1>2. g[S] = IF S = {} THEN 0 ELSE F[Pick(S)] + g[S \ {Pick(S)}]
  BY <1>1 DEF Partial
<1> DEFINE T == S \ {Pick(S)}
<1>3. IsFiniteSet(T) /\ T \in SUBSET S /\ S \in SUBSET S
  BY FS_Subset
<1>4. PICK h : Partial(h, F, T) /\ SumFunctionOnSet(F, T) = h[T]
  <2> HIDE DEF T
  <2> QED BY <1>3, PartialExists, PartialSum
<1>5. g[T] = h[T]
  <2> HIDE DEF T
  <2> QED BY <1>1, <1>3, <1>4, PartialUnique
<1> QED BY <1>1, <1>2, <1>4, <1>5

\* The sum of F over T; a sum over a function is one over its domain.
Total(F, T) == SumFunctionOnSet(F, T)

\* The sum of a function is the sum over its domain.
LEMMA SumFunctionTotal == \A F : SumFunction(F) = Total(F, DOMAIN F)
BY DEF SumFunction, SumFunctionOnSet, FoldFunction, FoldFunctionOnSet, Total

\* A sum of nothing is zero.
LEMMA TotalEmpty == \A F : Total(F, {}) = 0
BY SumPicked, FS_EmptySet DEF Total

\* A sum of integers is one; shown for a smallest subset that might break it.
LEMMA TotalInt ==
  ASSUME NEW S, IsFiniteSet(S), NEW F, \A x \in S : F[x] \in Int
  PROVE  Total(F, S) \in Int
<1> DEFINE C == {T \in SUBSET S : Total(F, T) \notin Int}
<1>1. SUFFICES ASSUME C # {} PROVE FALSE
  OBVIOUS
<1>2. PICK T \in C : \A U \in C : U \subseteq T => U = T
  <2>1. C \in SUBSET (SUBSET S)
    OBVIOUS
  <2> HIDE DEF C
  <2> QED BY <1>1, <2>1, MinimalSubset
<1>3. T # {}
  <2>1. Total(F, T) \notin Int
    BY <1>2
  <2>2. Total(F, {}) \in Int
    BY TotalEmpty
  <2> QED BY <2>1, <2>2
<1>4. Pick(T) \in T
  BY <1>3 DEF Pick
<1>5. IsFiniteSet(T) /\ T \ {Pick(T)} \in SUBSET S /\ T \ {Pick(T)} \notin C
  BY <1>2, <1>4, FS_Subset
<1>6. Total(F, T) = F[Pick(T)] + Total(F, T \ {Pick(T)})
  BY <1>3, <1>5, SumPicked DEF Total
<1>7. Total(F, T \ {Pick(T)}) \in Int /\ F[Pick(T)] \in Int /\ Total(F, T) \notin Int
  BY <1>2, <1>4, <1>5
<1> QED BY <1>6, <1>7

\* Any term may be taken first.
LEMMA TotalAny ==
  ASSUME NEW S, IsFiniteSet(S), NEW F, \A x \in S : F[x] \in Int
  PROVE  \A x \in S : Total(F, S) = F[x] + Total(F, S \ {x})
<1> DEFINE C == {T \in SUBSET S : \E x \in T : Total(F, T) # F[x] + Total(F, T \ {x})}
<1>1. SUFFICES ASSUME C # {} PROVE FALSE
  <2>1. S \notin C
    BY <1>1
  <2> QED BY <2>1
<1>2. PICK T \in C : \A U \in C : U \subseteq T => U = T
  <2>1. C \in SUBSET (SUBSET S)
    OBVIOUS
  <2> HIDE DEF C
  <2> QED BY <1>1, <2>1, MinimalSubset
<1>3. PICK x \in T : Total(F, T) # F[x] + Total(F, T \ {x})
  BY <1>2
<1> DEFINE p == Pick(T)
<1>4. p \in T
  BY <1>3 DEF Pick
<1>5. IsFiniteSet(T) /\ T # {} /\ T \subseteq S
  BY <1>2, <1>3, FS_Subset
<1>6. Total(F, T) = F[p] + Total(F, T \ {p})
  BY <1>5, SumPicked DEF Total
<1> HIDE DEF p
<1>7. x # p
  BY <1>3, <1>6
<1>8. T \ {p} \notin C /\ T \ {x} \notin C
  BY <1>2, <1>3, <1>4
<1>9. /\ Total(F, T \ {p}) = F[x] + Total(F, (T \ {p}) \ {x})
      /\ Total(F, T \ {x}) = F[p] + Total(F, (T \ {x}) \ {p})
  BY <1>3, <1>4, <1>5, <1>7, <1>8
<1>10. (T \ {p}) \ {x} = (T \ {x}) \ {p}
  OBVIOUS
<1> DEFINE rest == Total(F, (T \ {x}) \ {p})
<1>11. rest \in Int /\ F[x] \in Int /\ F[p] \in Int
  <2>1. IsFiniteSet((T \ {x}) \ {p}) /\ \A y \in (T \ {x}) \ {p} : F[y] \in Int
    BY <1>5, FS_Subset
  <2> QED BY <1>3, <1>4, <1>5, <2>1, TotalInt
<1>12. Total(F, T) = F[p] + (F[x] + rest) /\ Total(F, T \ {x}) = F[p] + rest
  BY <1>6, <1>9, <1>10
<1> HIDE DEF rest
<1> QED BY <1>3, <1>11, <1>12

\* One more term.
LEMMA TotalAdd ==
  ASSUME NEW S, IsFiniteSet(S), NEW F, \A x \in S : F[x] \in Int
  PROVE  \A T \in SUBSET S : \A x \in S \ T :
           /\ Total(F, With(T, x)) = F[x] + Total(F, T)
           /\ Total(F, T) \in Int /\ F[x] \in Int
<1> SUFFICES ASSUME NEW T \in SUBSET S, NEW x \in S \ T
             PROVE  /\ Total(F, With(T, x)) = F[x] + Total(F, T)
                    /\ Total(F, T) \in Int /\ F[x] \in Int
  OBVIOUS
<1>1. /\ IsFiniteSet(T) /\ IsFiniteSet(T \cup {x}) /\ T \cup {x} \subseteq S
      /\ (T \cup {x}) \ {x} = T
  BY FS_Subset
<1>2. Total(F, T \cup {x}) = F[x] + Total(F, (T \cup {x}) \ {x})
  BY <1>1, TotalAny
<1>3. Total(F, T) \in Int
  BY <1>1, TotalInt
<1> QED BY <1>1, <1>2, <1>3 DEF With

\* The sum of sums, term by term.
LEMMA TotalPlus ==
  ASSUME NEW S, IsFiniteSet(S), NEW F, NEW G, NEW H,
         \A x \in S : F[x] \in Int, \A x \in S : G[x] \in Int,
         \A x \in S : H[x] = F[x] + G[x]
  PROVE  Total(H, S) = Total(F, S) + Total(G, S)
<1> DEFINE B == {T \in SUBSET S : Total(H, T) = Total(F, T) + Total(G, T)}
<1>1. {} \in B
  BY TotalEmpty
<1>2. \A x \in S : H[x] \in Int
  OBVIOUS
<1>3. /\ \A T \in SUBSET S : \A x \in S \ T :
           Total(F, With(T, x)) = F[x] + Total(F, T) /\ Total(F, T) \in Int
      /\ \A T \in SUBSET S : \A x \in S \ T :
           Total(G, With(T, x)) = G[x] + Total(G, T) /\ Total(G, T) \in Int
      /\ \A T \in SUBSET S : \A x \in S \ T :
           Total(H, With(T, x)) = H[x] + Total(H, T)
  BY <1>2, TotalAdd
<1>4. ASSUME NEW T \in SUBSET S, T \in B, NEW x \in S \ T PROVE With(T, x) \in B
  <2>1. /\ Total(F, With(T, x)) = F[x] + Total(F, T) /\ Total(F, T) \in Int
        /\ Total(G, With(T, x)) = G[x] + Total(G, T) /\ Total(G, T) \in Int
        /\ Total(H, With(T, x)) = H[x] + Total(H, T)
    BY <1>3
  <2>2. F[x] \in Int /\ G[x] \in Int /\ H[x] = F[x] + G[x]
    OBVIOUS
  <2>3. Total(H, With(T, x)) = Total(F, With(T, x)) + Total(G, With(T, x))
    BY <1>4, <2>1, <2>2
  <2> QED BY <2>3 DEF With
<1>5. S \in B
  <2> HIDE DEF B
  <2> QED BY <1>1, <1>4, SubsetInduction
<1> QED BY <1>5

\* Larger terms have a larger sum.
LEMMA TotalLe ==
  ASSUME NEW S, IsFiniteSet(S), NEW F, NEW G,
         \A x \in S : F[x] \in Int, \A x \in S : G[x] \in Int,
         \A x \in S : F[x] <= G[x]
  PROVE  Total(F, S) <= Total(G, S)
<1> DEFINE B == {T \in SUBSET S : Total(F, T) <= Total(G, T)}
<1>1. {} \in B
  BY TotalEmpty
<1>2. /\ \A T \in SUBSET S : \A x \in S \ T :
           Total(F, With(T, x)) = F[x] + Total(F, T) /\ Total(F, T) \in Int
      /\ \A T \in SUBSET S : \A x \in S \ T :
           Total(G, With(T, x)) = G[x] + Total(G, T) /\ Total(G, T) \in Int
  BY TotalAdd
<1>3. ASSUME NEW T \in SUBSET S, T \in B, NEW x \in S \ T PROVE With(T, x) \in B
  <2>1. /\ Total(F, With(T, x)) = F[x] + Total(F, T) /\ Total(F, T) \in Int
        /\ Total(G, With(T, x)) = G[x] + Total(G, T) /\ Total(G, T) \in Int
    BY <1>2
  <2>2. F[x] \in Int /\ G[x] \in Int /\ F[x] <= G[x] /\ Total(F, T) <= Total(G, T)
    BY <1>3
  <2>3. Total(F, With(T, x)) <= Total(G, With(T, x))
    BY <2>1, <2>2
  <2> QED BY <2>3 DEF With
<1>4. S \in B
  <2> HIDE DEF B
  <2> QED BY <1>1, <1>3, SubsetInduction
<1> QED BY <1>4

\* Equal terms have the same sum.
LEMMA TotalEqual ==
  ASSUME NEW S, IsFiniteSet(S), NEW F, NEW G,
         \A x \in S : F[x] \in Int, \A x \in S : F[x] = G[x]
  PROVE  Total(F, S) = Total(G, S)
<1>1. /\ \A x \in S : F[x] \in Int
      /\ \A x \in S : G[x] \in Int
      /\ \A x \in S : F[x] <= G[x]
      /\ \A x \in S : G[x] <= F[x]
  OBVIOUS
<1>2. Total(F, S) <= Total(G, S) /\ Total(G, S) <= Total(F, S)
  BY <1>1, TotalLe
<1>3. Total(F, S) \in Int /\ Total(G, S) \in Int
  BY <1>1, TotalInt
<1> QED BY <1>2, <1>3

\* A sum of naturals is one.
LEMMA TotalNat ==
  ASSUME NEW S, IsFiniteSet(S), NEW F, \A x \in S : F[x] \in Nat
  PROVE  Total(F, S) \in Nat
<1> DEFINE B == {T \in SUBSET S : Total(F, T) \in Nat}
<1>1. {} \in B
  BY TotalEmpty
<1>0. \A T \in SUBSET S : \A x \in S \ T : Total(F, With(T, x)) = F[x] + Total(F, T)
  BY TotalAdd
<1>2. ASSUME NEW T \in SUBSET S, T \in B, NEW x \in S \ T PROVE With(T, x) \in B
  <2>2. Total(F, With(T, x)) = F[x] + Total(F, T)
    BY <1>0
  <2>3. F[x] \in Nat /\ Total(F, T) \in Nat
    BY <1>2
  <2> QED BY <2>2, <2>3 DEF With
<1>3. S \in B
  <2> HIDE DEF B
  <2> QED BY <1>1, <1>2, SubsetInduction
<1> QED BY <1>3

\* The law that the next lemma needs, on its own for the arithmetic solver.
LEMMA Distributive == \A a, b, c \in Int : c * (a + b) = c * a + c * b
OBVIOUS

\* A factor common to all terms is one of the sum.
LEMMA TotalTimes ==
  ASSUME NEW S, IsFiniteSet(S), NEW F, NEW H, NEW c \in Int,
         \A x \in S : F[x] \in Int, \A x \in S : H[x] = c * F[x]
  PROVE  Total(H, S) = c * Total(F, S)
<1> DEFINE B == {T \in SUBSET S : Total(H, T) = c * Total(F, T)}
<1>1. {} \in B
  BY TotalEmpty
<1>2. ASSUME NEW T \in SUBSET S, T \in B, NEW x \in S \ T PROVE With(T, x) \in B
  <2>1. /\ Total(F, With(T, x)) = F[x] + Total(F, T) /\ Total(F, T) \in Int
        /\ F[x] \in Int
    BY TotalAdd
  <2>2. \A y \in S : H[y] \in Int
    OBVIOUS
  <2>3. Total(H, With(T, x)) = H[x] + Total(H, T)
    BY <2>2, TotalAdd
  <2>4. H[x] = c * F[x] /\ Total(H, T) = c * Total(F, T)
    BY <1>2
  <2>5. c * (F[x] + Total(F, T)) = c * F[x] + c * Total(F, T)
    BY <2>1, Distributive
  <2> QED BY <2>1, <2>3, <2>4, <2>5 DEF With
<1>3. S \in B
  <2> HIDE DEF B
  <2> QED BY <1>1, <1>2, SubsetInduction
<1> QED BY <1>3

\* Terms that are 0 outside T need not be counted.
LEMMA TotalWithin ==
  ASSUME NEW S, IsFiniteSet(S), NEW T \in SUBSET S, NEW F, NEW G,
         \A x \in T : F[x] \in Int, \A x \in T : F[x] = G[x],
         \A x \in S \ T : F[x] = 0
  PROVE  Total(F, S) = Total(G, T)
<1> DEFINE B == {U \in SUBSET S : Total(F, U) = Total(G, U \cap T)}
<1>1. {} \in B
  <2>1. {} \cap T = {}
    OBVIOUS
  <2> QED BY <2>1, TotalEmpty
<1>2. ASSUME NEW U \in SUBSET S, U \in B, NEW x \in S \ U PROVE With(U, x) \in B
  <2>1. \A y \in S : F[y] \in Int
    OBVIOUS
  <2>2. Total(F, With(U, x)) = F[x] + Total(F, U) /\ Total(F, U) \in Int
    BY <2>1, TotalAdd
  <2>3. CASE x \in T
    <3>1. /\ With(U, x) \cap T = With(U \cap T, x) /\ U \cap T \in SUBSET T
          /\ x \in T \ (U \cap T)
      BY <2>3 DEF With
    <3>2. IsFiniteSet(T) /\ \A y \in T : G[y] \in Int
      BY FS_Subset
    <3>3. Total(G, With(U \cap T, x)) = G[x] + Total(G, U \cap T)
      <4> DEFINE V == U \cap T
      <4>1. V \in SUBSET T /\ x \in T \ V
        BY <3>1
      <4> HIDE DEF B, V
      <4>2. Total(G, With(V, x)) = G[x] + Total(G, V)
        BY <4>1, <3>2, TotalAdd
      <4> QED BY <4>2 DEF V
    <3>4. Total(F, With(U, x)) = Total(G, With(U, x) \cap T)
      BY <1>2, <2>2, <2>3, <3>1, <3>3
    <3> QED BY <3>4 DEF With
  <2>4. CASE x \notin T
    <3>1. With(U, x) \cap T = U \cap T /\ F[x] = 0
      BY <2>4 DEF With
    <3>3. Total(F, With(U, x)) = Total(F, U)
      BY <2>2, <3>1
    <3>4. Total(F, U) = Total(G, U \cap T)
      BY <1>2
    <3>2. Total(F, With(U, x)) = Total(G, With(U, x) \cap T)
      BY <3>1, <3>3, <3>4
    <3> QED BY <3>2 DEF With
  <2> QED BY <2>3, <2>4
<1>3. S \in B
  <2> HIDE DEF B
  <2> QED BY <1>1, <1>2, SubsetInduction
<1>4. S \cap T = T
  OBVIOUS
<1> QED BY <1>3, <1>4

\* A constant as often as there are terms.
LEMMA TotalConstant ==
  ASSUME NEW S, IsFiniteSet(S), NEW F, NEW c \in Int, \A x \in S : F[x] = c
  PROVE  Total(F, S) = c * Cardinality(S)
<1> DEFINE B == {T \in SUBSET S : Total(F, T) = c * Cardinality(T)}
<1>1. {} \in B
  BY TotalEmpty, FS_EmptySet
<1>2. ASSUME NEW T \in SUBSET S, T \in B, NEW x \in S \ T PROVE With(T, x) \in B
  <2>1. \A y \in S : F[y] \in Int
    OBVIOUS
  <2>2. Total(F, With(T, x)) = F[x] + Total(F, T)
    BY <2>1, TotalAdd
  <2>3. IsFiniteSet(T)
    BY FS_Subset
  <2>4. Cardinality(With(T, x)) = Cardinality(T) + 1 /\ Cardinality(T) \in Nat
    BY <2>3, FS_AddElement, FS_CardinalityType DEF With
  <2>5. c * (1 + Cardinality(T)) = c * 1 + c * Cardinality(T) /\ c * 1 = c
    BY <2>4, Distributive
  <2>6. 1 + Cardinality(T) = Cardinality(T) + 1
    BY <2>4
  <2>7. Total(F, With(T, x)) = c * Cardinality(With(T, x))
    BY <1>2, <2>2, <2>4, <2>5, <2>6
  <2> QED BY <2>7 DEF With
<1>3. S \in B
  <2> HIDE DEF B
  <2> QED BY <1>1, <1>2, SubsetInduction
<1> QED BY <1>3

\* The same numbers by rows and by columns, with the total of each.
Table(A, R, E, D, F, G) ==
  /\ IsFiniteSet(A) /\ IsFiniteSet(R)
  /\ \A s \in A : \A r \in R : E[s][r] \in Int /\ D[r][s] = E[s][r]
  /\ \A s \in A : F[s] = Total(E[s], R)
  /\ \A r \in R : G[r] = Total(D[r], A)

\* They are summed in one way or the other.
LEMMA TotalExchange ==
  ASSUME NEW A, NEW R, NEW E, NEW D, NEW F, NEW G, Table(A, R, E, D, F, G)
  PROVE  Total(F, A) = Total(G, R)
<1>0. /\ IsFiniteSet(A) /\ IsFiniteSet(R)
      /\ \A s \in A : \A r \in R : E[s][r] \in Int
      /\ \A r \in R : \A s \in A : D[r][s] \in Int
      /\ \A s \in A : \A r \in R : E[s][r] = D[r][s]
      /\ \A s \in A : F[s] = Total(E[s], R)
      /\ \A r \in R : G[r] = Total(D[r], A)
  BY DEF Table
<1> DEFINE Upto(T) == [r \in R |-> Total(D[r], T)]
           B == {T \in SUBSET A : Total(F, T) = Total(Upto(T), R)}
<1>1. {} \in B
  <2>1. \A r \in R : Upto({})[r] = 0
    BY TotalEmpty
  <2>2. Total(Upto({}), R) = 0 * Cardinality(R)
    <3> HIDE DEF Upto
    <3> QED BY <1>0, <2>1, TotalConstant
  <2>3. Total(Upto({}), R) = 0
    BY <1>0, <2>2, FS_CardinalityType
  <2> QED BY <2>3, TotalEmpty
<1>2. \A s \in A : F[s] \in Int
  BY <1>0, TotalInt
<1>3. ASSUME NEW T \in SUBSET A, T \in B, NEW x \in A \ T PROVE With(T, x) \in B
  <2> DEFINE before == Upto(T)
             after == Upto(With(T, x))
             row == E[x]
  <2>1. Total(F, With(T, x)) = F[x] + Total(F, T)
    BY <1>0, <1>2, TotalAdd
  <2>2. ASSUME NEW r \in R
        PROVE  row[r] \in Int /\ before[r] \in Int /\ after[r] = row[r] + before[r]
    <3> DEFINE col == D[r]
    <3>1. (\A s \in A : col[s] \in Int) /\ col[x] = row[r] /\ row[r] \in Int
      BY <1>0
    <3>2. before[r] = Total(col, T) /\ after[r] = Total(col, With(T, x))
      OBVIOUS
    <3> HIDE DEF col, before, after, row
    <3>3. Total(col, With(T, x)) = col[x] + Total(col, T) /\ Total(col, T) \in Int
      BY <1>0, <3>1, TotalAdd
    <3> QED BY <3>1, <3>2, <3>3
  <2>3. Total(after, R) = Total(row, R) + Total(before, R)
    <3>1. /\ \A r \in R : row[r] \in Int
          /\ \A r \in R : before[r] \in Int
          /\ \A r \in R : after[r] = row[r] + before[r]
      BY <2>2
    <3> HIDE DEF before, after, row
    <3> QED BY <1>0, <3>1, TotalPlus
  <2>4. Total(F, T) = Total(before, R) /\ F[x] = Total(row, R)
    BY <1>0, <1>3
  <2>5. Total(F, With(T, x)) = Total(after, R)
    BY <2>1, <2>3, <2>4
  <2>6. With(T, x) \in SUBSET A
    BY DEF With
  <2> QED BY <2>5, <2>6
<1>4. A \in B
  <2> HIDE DEF B
  <2> QED BY <1>0, <1>1, <1>3, SubsetInduction
<1>5. (\A r \in R : G[r] \in Int) /\ (\A r \in R : G[r] = Upto(A)[r])
  BY <1>0, TotalInt
<1>6. Total(G, R) = Total(Upto(A), R)
  <2> HIDE DEF Upto
  <2> QED BY <1>0, <1>5, TotalEqual
<1> QED BY <1>4, <1>6

-----------------------------------------------------------------------------
(* The readings of a range                                                 *)

\* A finite set has a first element of every total order.
LEMMA FirstExists ==
  ASSUME NEW S, IsFiniteSet(S), S # {}, NEW O,
         \A x, y \in S : <<x, y>> \in O \/ <<y, x>> \in O,
         \A x, y, z \in S : <<x, y>> \in O /\ <<y, z>> \in O => <<x, z>> \in O
  PROVE  \E m \in S : \A y \in S : <<m, y>> \in O
<1> DEFINE B == {T \in SUBSET S : T = {} \/ \E m \in T : \A y \in T : <<m, y>> \in O}
<1>1. {} \in B
  OBVIOUS
<1>2. ASSUME NEW T \in SUBSET S, T \in B, NEW x \in S \ T PROVE With(T, x) \in B
  <2>1. With(T, x) \in SUBSET S /\ \A y \in With(T, x) : y \in T \/ y = x
    BY DEF With
  <2>2. <<x, x>> \in O
    OBVIOUS
  <2>3. CASE T = {}
    <3>1. x \in With(T, x) /\ \A y \in With(T, x) : <<x, y>> \in O
      BY <2>1, <2>2, <2>3 DEF With
    <3> QED BY <2>1, <3>1
  <2>4. CASE T # {}
    <3>1. PICK m \in T : \A y \in T : <<m, y>> \in O
      BY <1>2, <2>4
    <3>2. CASE <<m, x>> \in O
      <4>1. m \in With(T, x) /\ \A y \in With(T, x) : <<m, y>> \in O
        BY <2>1, <3>1, <3>2 DEF With
      <4> QED BY <2>1, <4>1
    <3>3. CASE <<x, m>> \in O
      <4>1. \A y \in T : <<x, y>> \in O
        BY <3>1, <3>3
      <4>2. x \in With(T, x) /\ \A y \in With(T, x) : <<x, y>> \in O
        BY <2>1, <2>2, <4>1 DEF With
      <4> QED BY <2>1, <4>2
    <3> QED BY <3>2, <3>3
  <2> QED BY <2>3, <2>4
<1>3. S \in B
  <2> HIDE DEF B
  <2> QED BY <1>1, <1>2, SubsetInduction
<1> QED BY <1>3

\* A finite set of integers has a least element, which Min returns.
LEMMA MinFacts ==
  ASSUME NEW S \in SUBSET Int, IsFiniteSet(S), S # {}
  PROVE  Min(S) \in S /\ \A x \in S : Min(S) <= x
<1> DEFINE O == {p \in S \X S : p[1] <= p[2]}
<1>1. \A x, y \in S : <<x, y>> \in O <=> x <= y
  OBVIOUS
<1>2. \A x, y, z \in S : /\ x <= y \/ y <= x
                         /\ x <= y /\ y <= z => x <= z
  OBVIOUS
<1>3. /\ \A x, y \in S : <<x, y>> \in O \/ <<y, x>> \in O
      /\ \A x, y, z \in S : <<x, y>> \in O /\ <<y, z>> \in O => <<x, z>> \in O
  <2> HIDE DEF O
  <2> QED BY <1>1, <1>2
<1>4. \E m \in S : \A y \in S : <<m, y>> \in O
  <2> HIDE DEF O
  <2> QED BY <1>3, FirstExists
<1>5. \E m \in S : \A y \in S : m <= y
  <2> HIDE DEF O
  <2> QED BY <1>1, <1>4
<1> QED BY <1>5 DEF Min

\* The values of a function on a finite set are no more than its arguments.
LEMMA ImageFinite ==
  ASSUME NEW S, IsFiniteSet(S), NEW f
  PROVE  /\ IsFiniteSet({f[x] : x \in S})
         /\ Cardinality({f[x] : x \in S}) <= Cardinality(S)
<1> DEFINE T == {f[x] : x \in S}
           g == [x \in S |-> f[x]]
<1>1. g \in [S -> T] /\ \A t \in T : \E x \in S : g[x] = t
  OBVIOUS
<1>2. g \in Surjection(S, T)
  <2> HIDE DEF g, T
  <2> QED BY <1>1 DEF Surjection
<1>3. IsFiniteSet(T) /\ Cardinality(T) <= Cardinality(S)
  <2> HIDE DEF g, T
  <2> QED BY <1>2, FS_Surjection
<1> QED BY <1>3

\* The readings R of a range that ends at to, of which L are last in their instants.
RangeReadings(R, L, to) ==
  /\ WellFormed(R)
  /\ to \in Int /\ \A r \in R : r.time < to
  /\ L \in Orders(R)

\* When the next reading is due, or the range ends.
NextAt(R, r, to) == Min({x.time : x \in {x \in R : x.time > r.time}} \cup {to})

\* It is after the reading, within the range, and before every later reading.
LEMMA NextAtFacts ==
  ASSUME NEW R, NEW L, NEW to, RangeReadings(R, L, to), NEW r \in R
  PROVE  /\ NextAt(R, r, to) \in Int
         /\ r.time < NextAt(R, r, to) /\ NextAt(R, r, to) <= to
         /\ \A x \in R : x.time > r.time => NextAt(R, r, to) <= x.time
         /\ \/ NextAt(R, r, to) = to
            \/ \E x \in R : x.time > r.time /\ x.time = NextAt(R, r, to)
<1> DEFINE After == {x \in R : x.time > r.time}
           Times == {x.time : x \in After}
           All == Times \cup {to}
<1>0. /\ IsFiniteSet(R) /\ to \in Int
      /\ \A x \in R : x.time \in Int /\ x.time < to
  BY DEF RangeReadings, WellFormed
<1>1. IsFiniteSet(After)
  BY <1>0, FS_Subset
<1>2. IsFiniteSet(Times)
  <2> DEFINE f == [x \in After |-> x.time]
  <2>1. Times = {f[x] : x \in After}
    OBVIOUS
  <2> HIDE DEF After, Times, f
  <2> QED BY <1>1, <2>1, ImageFinite
<1>3. IsFiniteSet(All)
  <2> HIDE DEF Times
  <2> QED BY <1>2, FS_AddElement
<1>4. \A t \in All : t \in Int /\ r.time < t /\ (t = to \/ \E x \in After : x.time = t)
  BY <1>0
<1>5. \A x \in R : x.time > r.time => x.time \in All
  OBVIOUS
<1>6. to \in All
  OBVIOUS
<1>7. NextAt(R, r, to) = Min(All)
  BY DEF NextAt
<1>8. Min(All) \in All /\ \A t \in All : Min(All) <= t
  <2>1. All \in SUBSET Int /\ All # {}
    BY <1>4
  <2> HIDE DEF All
  <2> QED BY <1>3, <2>1, MinFacts
<1>9. \A x \in After : x \in R /\ x.time > r.time
  OBVIOUS
<1> HIDE DEF All, After
<1> QED BY <1>4, <1>5, <1>6, <1>7, <1>8, <1>9

\* A reading counts for a time from its own on, if it is the last of its instant.
LEMMA DurationFacts ==
  ASSUME NEW R, NEW L, NEW to, RangeReadings(R, L, to), NEW r \in R
  PROVE  /\ Duration(R, L, r, to) \in Nat
         /\ r \in L => Duration(R, L, r, to) =
                         Smaller(NextAt(R, r, to) - r.time, MaxReadingSeconds)
         /\ r \notin L => Duration(R, L, r, to) = 0
<1>1. r.time \in Int
  BY DEF RangeReadings, WellFormed
<1>2. NextAt(R, r, to) \in Int /\ r.time < NextAt(R, r, to)
  BY NextAtFacts
<1>3. Duration(R, L, r, to) =
        IF r \notin L THEN 0 ELSE Smaller(NextAt(R, r, to) - r.time, MaxReadingSeconds)
  BY DEF Duration, NextAt
<1>4. MaxReadingSeconds \in Nat
  BY EnergyAssumption
<1> QED BY <1>1, <1>2, <1>3, <1>4 DEF Smaller

\* It is in force at as many seconds of the range.
LEMMA SecondsInForce ==
  ASSUME NEW R, NEW L, NEW from \in Int, NEW to, RangeReadings(R, L, to),
         NEW r \in R, from <= r.time
  PROVE  Cardinality({s \in from..(to - 1) : r \in InForce(R, L, s)}) =
           Duration(R, L, r, to)
<1> DEFINE A == {s \in from..(to - 1) : r \in InForce(R, L, s)}
           d == Duration(R, L, r, to)
           n == NextAt(R, r, to)
           t == r.time
<1>1. /\ t \in Int /\ t < to /\ to \in Int /\ MaxReadingSeconds \in Nat
      /\ \A x \in R : x.time \in Int
  BY EnergyAssumption DEF RangeReadings, WellFormed
<1>2. /\ n \in Int /\ t < n /\ n <= to
      /\ \A x \in R : x.time > t => n <= x.time
      /\ n = to \/ \E x \in R : x.time > t /\ x.time = n
  BY NextAtFacts
<1>3. /\ d \in Nat
      /\ r \in L => d = Smaller(n - t, MaxReadingSeconds)
      /\ r \notin L => d = 0
  BY DurationFacts
<1> HIDE DEF d, n
<1>4. CASE r \notin L
  <2>1. A = {}
    BY <1>4 DEF InForce
  <2> QED BY <1>3, <1>4, <2>1, FS_EmptySet DEF d
<1>5. CASE r \in L
  <2>1. ASSUME NEW s \in from..(to - 1)
        PROVE  (\A x \in R : x.time <= s => x.time <= t) <=> s < n
    <3>0. s \in Int /\ s < to
      BY <1>1
    <3>1. ASSUME s < n, NEW x \in R, x.time <= s PROVE x.time <= t
      <4>1. ~(x.time > t) \/ n <= x.time
        BY <1>2
      <4>2. x.time \in Int
        BY <1>1
      <4> QED BY <1>1, <1>2, <3>0, <3>1, <4>1, <4>2
    <3>2. ASSUME ~(s < n), \A x \in R : x.time <= s => x.time <= t PROVE FALSE
      <4>1. n # to
        BY <1>1, <1>2, <3>0, <3>2
      <4>2. PICK x \in R : x.time > t /\ x.time = n
        BY <1>2, <4>1
      <4>3. x.time <= s
        BY <1>2, <3>0, <3>2, <4>2
      <4>4. x.time <= t
        BY <3>2, <4>3
      <4> QED BY <1>1, <1>2, <4>2, <4>4
    <3> QED BY <3>1, <3>2
  <2>2. \A s \in from..(to - 1) :
          r \in InForce(R, L, s) <=> t <= s /\ s - t < MaxReadingSeconds /\ s < n
    BY <1>5, <2>1 DEF InForce
  <2>3. A = {s \in from..(to - 1) : t <= s /\ s - t < MaxReadingSeconds /\ s < n}
    BY <2>2
  <2>4. A = t..(t + d - 1)
    <3>1. ASSUME NEW s \in Int
          PROVE  (s \in from..(to - 1) /\ t <= s /\ s - t < MaxReadingSeconds /\ s < n)
                   <=> (t <= s /\ s <= t + d - 1)
      BY <1>1, <1>2, <1>3, <1>5 DEF Smaller
    <3>2. \A s : s \in t..(t + d - 1) <=> s \in Int /\ t <= s /\ s <= t + d - 1
      BY <1>1, <1>3
    <3>3. \A s \in from..(to - 1) : s \in Int
      BY <1>1
    <3> HIDE DEF A, t
    <3> QED BY <2>3, <3>1, <3>2, <3>3
  <2>5. Cardinality(t..(t + d - 1)) = d
    <3>1. t + d - 1 \in Int
      BY <1>1, <1>3
    <3> HIDE DEF t
    <3>2. Cardinality(t..(t + d - 1)) = IF t > t + d - 1 THEN 0 ELSE (t + d - 1) - t + 1
      BY <1>1, <3>1, FS_Interval
    <3> QED BY <1>1, <1>3, <3>2
  <2> QED BY <2>4, <2>5 DEF d
<1> QED BY <1>4, <1>5

-----------------------------------------------------------------------------
(* The sums of a range                                                     *)

\* The flows of one reading, by the fields of the sums.
Rates(R, r) ==
  [generated    |-> r.solar,
   consumed     |-> r.cons,
   exported     |-> Positive(r.net),
   imported     |-> Positive(-r.net),
   charged      |-> Charge(R, r),
   discharged   |-> Discharge(R, r),
   solarHome    |-> SolarHome(r),
   solarStorage |-> SolarStorage(R, r),
   solarGrid    |-> r.solar - SolarHome(r) - SolarStorage(R, r),
   gridHome     |-> r.cons - SolarHome(r) - StorageHome(R, r),
   gridStorage  |-> Charge(R, r) - SolarStorage(R, r),
   storageHome  |-> StorageHome(R, r),
   storageGrid  |-> Discharge(R, r) - StorageHome(R, r),
   covered      |-> 1]

\* The fields of the sums.
Fields ==
  {"generated", "consumed", "exported", "imported", "charged", "discharged",
   "solarHome", "solarStorage", "solarGrid", "gridHome", "gridStorage",
   "storageHome", "storageGrid", "covered"}

\* What each reading adds to a field.
Column(R, L, to, f) == [r \in R |-> Rates(R, r)[f] * Duration(R, L, r, to)]

\* Storage power is a sum of powers in one direction.
LEMMA StorageFacts ==
  ASSUME NEW R, WellFormed(R), NEW r \in R
  PROVE  Charge(R, r) \in Nat /\ Discharge(R, r) \in Nat
<1> DEFINE At == {x \in R : x.time = r.time}
           rows == [x \in At |-> x.assets]
           S == StorageAt(R, r)
<1>1. IsFiniteSet(At) /\ \A x \in At : x \in R
  BY FS_Subset DEF WellFormed
<1>2. {rows[x] : x \in At} = {x.assets : x \in At}
  OBVIOUS
<1>3. S = UNION {rows[x] : x \in At}
  BY <1>2 DEF StorageAt
<1>4. /\ \A x \in At : IsFiniteSet(rows[x])
      /\ \A x \in At : \A a \in rows[x] : a.power \in Int
  BY <1>1 DEF WellFormed
<1> HIDE DEF At, rows, S
<1>5. IsFiniteSet({rows[x] : x \in At})
  BY <1>1, ImageFinite
<1>6. IsFiniteSet(S)
  BY <1>3, <1>4, <1>5, FS_UNION
<1>7. \A a \in S : a.power \in Int
  BY <1>3, <1>4
<1> DEFINE in == [a \in S |-> Positive(a.power)]
           out == [a \in S |-> Positive(-a.power)]
<1>8. \A a \in S : in[a] \in Nat /\ out[a] \in Nat
  BY <1>7 DEF Positive
<1>9. Charge(R, r) = Total(in, S) /\ Discharge(R, r) = Total(out, S)
  BY SumFunctionTotal DEF Charge, Discharge, SumOf, S
<1> HIDE DEF in, out
<1> QED BY <1>6, <1>8, <1>9, TotalNat

\* No flow of a reading is negative, and they balance.
LEMMA RatesFacts ==
  ASSUME NEW R, WellFormed(R), NEW r \in R
  PROVE  /\ \A f \in Fields : Rates(R, r)[f] \in Nat
         /\ Rates(R, r).generated = Rates(R, r).solarHome
              + (Rates(R, r).solarStorage + Rates(R, r).solarGrid)
         /\ Rates(R, r).consumed = Rates(R, r).solarHome
              + (Rates(R, r).storageHome + Rates(R, r).gridHome)
         /\ Rates(R, r).charged = Rates(R, r).solarStorage + Rates(R, r).gridStorage
         /\ Rates(R, r).discharged = Rates(R, r).storageHome + Rates(R, r).storageGrid
<1> DEFINE c == Charge(R, r)
           d == Discharge(R, r)
           h == SolarHome(r)
           g == SolarStorage(R, r)
           u == StorageHome(R, r)
<1>1. r.solar \in Nat /\ r.cons \in Nat /\ r.net \in Int
  BY DEF WellFormed
<1>2. c \in Nat /\ d \in Nat
  BY StorageFacts
<1>3. h \in Nat /\ h <= r.solar /\ h <= r.cons
  BY <1>1 DEF SolarHome, Smaller
<1>4. g \in Nat /\ g <= r.solar - h /\ g <= c
  <2> HIDE DEF c, h
  <2>1. g = Smaller(r.solar - h, c)
    BY DEF SolarStorage, c, h
  <2> HIDE DEF g
  <2> QED BY <1>1, <1>2, <1>3, <2>1 DEF Smaller
<1>5. u \in Nat /\ u <= d /\ u <= r.cons - h
  <2> HIDE DEF d, h
  <2>1. u = Smaller(d, r.cons - h)
    BY DEF StorageHome, d, h
  <2> HIDE DEF u
  <2> QED BY <1>1, <1>2, <1>3, <2>1 DEF Smaller
<1>6. Positive(r.net) \in Nat /\ Positive(-r.net) \in Nat
  BY <1>1 DEF Positive
<1>7. Rates(R, r) =
        [generated |-> r.solar, consumed |-> r.cons, exported |-> Positive(r.net),
         imported |-> Positive(-r.net), charged |-> c, discharged |-> d,
         solarHome |-> h, solarStorage |-> g, solarGrid |-> r.solar - h - g,
         gridHome |-> r.cons - h - u, gridStorage |-> c - g, storageHome |-> u,
         storageGrid |-> d - u, covered |-> 1]
  BY DEF Rates
<1> HIDE DEF c, d, h, g, u
<1>8. /\ r.solar - h - g \in Nat /\ r.cons - h - u \in Nat
      /\ c - g \in Nat /\ d - u \in Nat
      /\ r.solar = h + (g + (r.solar - h - g)) /\ r.cons = h + (u + (r.cons - h - u))
      /\ c = g + (c - g) /\ d = u + (d - u)
  BY <1>1, <1>2, <1>3, <1>4, <1>5
<1>9. \A f \in Fields : Rates(R, r)[f] \in Nat
  BY <1>1, <1>2, <1>3, <1>4, <1>5, <1>6, <1>7, <1>8 DEF Fields
<1> QED BY <1>7, <1>8, <1>9

\* A field of the sums is the total of its column.
LEMMA SumsAreTotals ==
  ASSUME NEW R, NEW L, NEW S \in SUBSET R, NEW to
  PROVE  /\ DOMAIN Sums(R, L, S, to) = Fields
         /\ \A f \in Fields : Sums(R, L, S, to)[f] =
              Total([r \in S |-> Rates(R, r)[f] * Duration(R, L, r, to)], S)
<1>1. DOMAIN Sums(R, L, S, to) = Fields
  BY DEF Sums, Fields
<1> DEFINE D(r) == Duration(R, L, r, to)
           T(f) == Total([r \in S |-> Rates(R, r)[f] * D(r)], S)
<1>2. \A F : DOMAIN F = S => SumFunction(F) = Total(F, S)
  BY SumFunctionTotal
<1>3. /\ Sums(R, L, S, to).generated = T("generated")
      /\ Sums(R, L, S, to).consumed = T("consumed")
      /\ Sums(R, L, S, to).exported = T("exported")
      /\ Sums(R, L, S, to).imported = T("imported")
  BY <1>2 DEF Sums, SumOf, Rates
<1>4. /\ Sums(R, L, S, to).charged = T("charged")
      /\ Sums(R, L, S, to).discharged = T("discharged")
      /\ Sums(R, L, S, to).solarHome = T("solarHome")
      /\ Sums(R, L, S, to).solarStorage = T("solarStorage")
      /\ Sums(R, L, S, to).solarGrid = T("solarGrid")
  BY <1>2 DEF Sums, SumOf, Rates
<1>5. /\ Sums(R, L, S, to).gridHome = T("gridHome")
      /\ Sums(R, L, S, to).gridStorage = T("gridStorage")
      /\ Sums(R, L, S, to).storageHome = T("storageHome")
      /\ Sums(R, L, S, to).storageGrid = T("storageGrid")
      /\ Sums(R, L, S, to).covered = T("covered")
  BY <1>2 DEF Sums, SumOf, Rates
<1> HIDE DEF T
<1>6. \A f \in Fields : Sums(R, L, S, to)[f] = T(f)
  BY <1>3, <1>4, <1>5 DEF Fields
<1> QED BY <1>1, <1>6 DEF T

\* Naturals multiply to a natural.
LEMMA ProductNat == \A a, b \in Nat : a * b \in Nat
OBVIOUS

\* The terms of a field are naturals, and so is the field of any part of a range.
LEMMA ColumnFacts ==
  ASSUME NEW R, NEW L, NEW to, RangeReadings(R, L, to), NEW f \in Fields
  PROVE  /\ \A r \in R : Column(R, L, to, f)[r] \in Nat
         /\ \A S \in SUBSET R :
              /\ IsFiniteSet(S)
              /\ Sums(R, L, S, to)[f] = Total(Column(R, L, to, f), S)
              /\ Sums(R, L, S, to)[f] \in Nat
<1> DEFINE C == Column(R, L, to, f)
<1>1. WellFormed(R) /\ IsFiniteSet(R)
  BY DEF RangeReadings, WellFormed
<1>2. ASSUME NEW r \in R PROVE C[r] \in Nat
  <2>1. Rates(R, r)[f] \in Nat /\ Duration(R, L, r, to) \in Nat
    BY <1>1, RatesFacts, DurationFacts
  <2>2. C[r] = Rates(R, r)[f] * Duration(R, L, r, to)
    BY DEF Column
  <2> HIDE DEF C
  <2> QED BY <2>1, <2>2, ProductNat
<1>3. ASSUME NEW S \in SUBSET R
      PROVE  /\ IsFiniteSet(S)
             /\ Sums(R, L, S, to)[f] = Total(C, S)
             /\ Sums(R, L, S, to)[f] \in Nat
  <2> DEFINE G == [r \in S |-> Rates(R, r)[f] * Duration(R, L, r, to)]
  <2>1. IsFiniteSet(S)
    BY <1>1, FS_Subset
  <2>2. Sums(R, L, S, to)[f] = Total(G, S)
    BY SumsAreTotals
  <2>3. \A r \in S : C[r] \in Nat /\ C[r] = G[r]
    BY <1>2 DEF Column
  <2>4. /\ \A r \in S : C[r] \in Nat
        /\ \A r \in S : C[r] \in Int
        /\ \A r \in S : C[r] = G[r]
    BY <2>3
  <2> HIDE DEF C, G
  <2>5. Total(C, S) = Total(G, S)
    BY <2>1, <2>4, TotalEqual
  <2>6. Total(C, S) \in Nat
    BY <2>1, <2>4, TotalNat
  <2> QED BY <2>1, <2>2, <2>5, <2>6
<1> QED BY <1>2, <1>3

-----------------------------------------------------------------------------
(* The range second by second                                              *)

\* What is read second by second is what the durations weigh.
LEMMA SecondBySecond ==
  ASSUME NEW R, NEW L, NEW from \in Int, NEW to, RangeReadings(R, L, to),
         \A r \in R : from <= r.time, NEW f \in Fields
  PROVE  Total([s \in from..(to - 1) |->
                  Total([r \in InForce(R, L, s) |-> Rates(R, r)[f]], InForce(R, L, s))],
               from..(to - 1))
           = Total(Column(R, L, to, f), R)
<1> DEFINE A == from..(to - 1)
           p == [r \in R |-> Rates(R, r)[f]]
           E == [s \in A |-> [r \in R |-> IF r \in InForce(R, L, s) THEN p[r] ELSE 0]]
           F == [s \in A |-> Total([r \in InForce(R, L, s) |-> Rates(R, r)[f]],
                                   InForce(R, L, s))]
           D == [r \in R |-> [s \in A |-> E[s][r]]]
           G == [r \in R |-> Total(D[r], A)]
           C == Column(R, L, to, f)
<1>0. to \in Int /\ WellFormed(R) /\ IsFiniteSet(R) /\ L \subseteq R
  BY DEF RangeReadings, WellFormed, Orders
<1>1. IsFiniteSet(A)
  <2>1. to - 1 \in Int
    BY <1>0
  <2> QED BY <2>1, FS_Interval
<1>2. \A r \in R : p[r] \in Int
  BY <1>0, RatesFacts
<1>3. \A s \in A : \A r \in R : E[s][r] \in Int /\ D[r][s] = E[s][r]
  BY <1>2
<1>4. ASSUME NEW s \in A PROVE F[s] = Total(E[s], R)
  <2> DEFINE I == InForce(R, L, s)
             row == E[s]
             at == [r \in I |-> Rates(R, r)[f]]
  <2>1. I \in SUBSET R
    BY <1>0 DEF InForce
  <2>2. /\ \A r \in I : row[r] \in Int
        /\ \A r \in I : row[r] = at[r]
        /\ \A r \in R \ I : row[r] = 0
    BY <1>2, <2>1
  <2>3. F[s] = Total(at, I)
    OBVIOUS
  <2> HIDE DEF I, row, at, E
  <2>4. Total(row, R) = Total(at, I)
    BY <1>0, <2>1, <2>2, TotalWithin
  <2> QED BY <2>3, <2>4 DEF row
<1>5. ASSUME NEW r \in R PROVE G[r] = C[r] /\ G[r] \in Int
  <2> DEFINE W == {s \in A : r \in InForce(R, L, s)}
             col == D[r]
             one == [s \in W |-> p[r]]
  <2>1. W \in SUBSET A /\ IsFiniteSet(W)
    BY <1>1, FS_Subset
  <2>2. /\ \A s \in W : col[s] \in Int
        /\ \A s \in W : col[s] = one[s]
        /\ \A s \in A \ W : col[s] = 0
        /\ \A s \in W : one[s] = p[r]
    BY <1>2
  <2>3. p[r] \in Int
    BY <1>2
  <2>4. G[r] = Total(col, A)
    OBVIOUS
  <2>5. Cardinality(W) = Duration(R, L, r, to)
    BY SecondsInForce
  <2>6. C[r] = p[r] * Duration(R, L, r, to)
    BY DEF Column
  <2>7. C[r] \in Int
    BY ColumnFacts
  <2> HIDE DEF W, col, one, p, A, G, C
  <2>8. Total(col, A) = Total(one, W)
    BY <1>1, <2>1, <2>2, TotalWithin
  <2>9. Total(one, W) = p[r] * Cardinality(W)
    BY <2>1, <2>2, <2>3, TotalConstant
  <2> QED BY <2>4, <2>5, <2>6, <2>7, <2>8, <2>9
<1>6. Total(F, A) = Total(G, R)
  <2>1. /\ \A s \in A : F[s] = Total(E[s], R)
        /\ \A r \in R : G[r] = Total(D[r], A)
    BY <1>4
  <2> HIDE DEF A, E, D, F, G
  <2>2. Table(A, R, E, D, F, G)
    BY <1>0, <1>1, <1>3, <2>1 DEF Table
  <2> QED BY <2>2, TotalExchange
<1>7. Total(G, R) = Total(C, R)
  <2>1. (\A r \in R : G[r] \in Int) /\ (\A r \in R : G[r] = C[r])
    BY <1>5
  <2> HIDE DEF G, C
  <2> QED BY <1>0, <2>1, TotalEqual
<1> QED BY <1>6, <1>7

\* For a whole range, the sums are what the reference reads.
LEMMA SumsArePiecewise ==
  ASSUME NEW R, NEW L, NEW from \in Int, NEW to, RangeReadings(R, L, to),
         \A r \in R : from <= r.time
  PROVE  \A f \in DOMAIN Reference(R, L, from, to) :
           Reference(R, L, from, to)[f] = Sums(R, L, R, to)[f]
<1> DEFINE A == from..(to - 1)
           I(s) == InForce(R, L, s)
           T(f) == Total([s \in A |-> Total([r \in I(s) |-> Rates(R, r)[f]], I(s))], A)
           P == {"generated", "consumed", "exported", "imported", "covered"}
           ref == Reference(R, L, from, to)
<1>1. \A S, F : DOMAIN F = S => SumFunction(F) = Total(F, S)
  BY SumFunctionTotal
<1>2. DOMAIN ref = P
  BY DEF Reference
<1>3. \A f \in P : ref[f] = T(f)
  <2>1. ref.generated = T("generated") /\ ref.consumed = T("consumed")
    BY <1>1 DEF Reference, SumOf, Rates
  <2>2. ref.exported = T("exported") /\ ref.imported = T("imported")
    BY <1>1 DEF Reference, SumOf, Rates
  <2>3. ref.covered = T("covered")
    BY <1>1 DEF Reference, SumOf, Rates
  <2> HIDE DEF ref, T
  <2> QED BY <2>1, <2>2, <2>3
<1>4. P \subseteq Fields
  BY DEF Fields
<1>5. \A f \in P : T(f) = Total(Column(R, L, to, f), R)
  BY <1>4, SecondBySecond
<1>6. \A f \in P : Sums(R, L, R, to)[f] = Total(Column(R, L, to, f), R)
  BY <1>4, ColumnFacts
<1> HIDE DEF ref, P, T
<1> QED BY <1>2, <1>3, <1>5, <1>6 DEF ref

-----------------------------------------------------------------------------
(* Flows and peaks                                                         *)

\* What is split by reading is split in the sums.
LEMMA SplitInTwo ==
  ASSUME NEW R, NEW L, NEW to, RangeReadings(R, L, to),
         NEW f \in Fields, NEW g \in Fields, NEW h \in Fields,
         \A r \in R : Rates(R, r)[f] = Rates(R, r)[g] + Rates(R, r)[h]
  PROVE  Sums(R, L, R, to)[f] = Sums(R, L, R, to)[g] + Sums(R, L, R, to)[h]
<1> DEFINE F == Column(R, L, to, f)
           G == Column(R, L, to, g)
           H == Column(R, L, to, h)
<1>1. WellFormed(R) /\ IsFiniteSet(R)
  BY DEF RangeReadings, WellFormed
<1>2. /\ \A r \in R : F[r] \in Nat
      /\ \A r \in R : G[r] \in Nat
      /\ \A r \in R : H[r] \in Nat
  BY ColumnFacts
<1>3. ASSUME NEW r \in R PROVE F[r] = G[r] + H[r]
  <2> DEFINE d == Duration(R, L, r, to)
  <2>1. d \in Nat /\ Rates(R, r)[g] \in Nat /\ Rates(R, r)[h] \in Nat
    BY <1>1, DurationFacts, RatesFacts
  <2>2. /\ F[r] = (Rates(R, r)[g] + Rates(R, r)[h]) * d
        /\ G[r] = Rates(R, r)[g] * d /\ H[r] = Rates(R, r)[h] * d
    BY DEF Column
  <2>3. \A a, b, c \in Nat : (a + b) * c = a * c + b * c
    OBVIOUS
  <2> HIDE DEF d, F, G, H
  <2> QED BY <2>1, <2>2, <2>3
<1>4. /\ Sums(R, L, R, to)[f] = Total(F, R) /\ Sums(R, L, R, to)[g] = Total(G, R)
      /\ Sums(R, L, R, to)[h] = Total(H, R)
  BY ColumnFacts
<1> HIDE DEF F, G, H
<1>5. Total(F, R) = Total(G, R) + Total(H, R)
  <2>1. /\ \A r \in R : G[r] \in Int
        /\ \A r \in R : H[r] \in Int
        /\ \A r \in R : F[r] = G[r] + H[r]
    BY <1>2, <1>3
  <2> QED BY <1>1, <2>1, TotalPlus
<1> QED BY <1>4, <1>5

\* A flow that is three others in each reading is their sum over the range.
LEMMA SplitInThree ==
  ASSUME NEW R, NEW L, NEW to, RangeReadings(R, L, to),
         NEW f \in Fields, NEW g \in Fields, NEW h \in Fields, NEW k \in Fields,
         \A r \in R : Rates(R, r)[f] = Rates(R, r)[g] + (Rates(R, r)[h] + Rates(R, r)[k])
  PROVE  Sums(R, L, R, to)[f] =
           Sums(R, L, R, to)[g] + Sums(R, L, R, to)[h] + Sums(R, L, R, to)[k]
<1> DEFINE F == Column(R, L, to, f)
           G == Column(R, L, to, g)
           H == Column(R, L, to, h)
           K == Column(R, L, to, k)
           M == [r \in R |-> H[r] + K[r]]
<1>1. WellFormed(R) /\ IsFiniteSet(R)
  BY DEF RangeReadings, WellFormed
<1>2. /\ \A r \in R : F[r] \in Nat
      /\ \A r \in R : G[r] \in Nat
      /\ \A r \in R : H[r] \in Nat
      /\ \A r \in R : K[r] \in Nat
  BY ColumnFacts
<1>3. ASSUME NEW r \in R PROVE F[r] = G[r] + (H[r] + K[r])
  <2> DEFINE d == Duration(R, L, r, to)
  <2>1. /\ d \in Nat /\ Rates(R, r)[g] \in Nat /\ Rates(R, r)[h] \in Nat
        /\ Rates(R, r)[k] \in Nat
    BY <1>1, DurationFacts, RatesFacts
  <2>2. /\ F[r] = (Rates(R, r)[g] + (Rates(R, r)[h] + Rates(R, r)[k])) * d
        /\ G[r] = Rates(R, r)[g] * d /\ H[r] = Rates(R, r)[h] * d
        /\ K[r] = Rates(R, r)[k] * d
    BY DEF Column
  <2>3. \A a, b, c, e \in Nat : (a + (b + c)) * e = a * e + (b * e + c * e)
    OBVIOUS
  <2> HIDE DEF d, F, G, H, K
  <2> QED BY <2>1, <2>2, <2>3
<1>4. /\ Sums(R, L, R, to)[f] = Total(F, R) /\ Sums(R, L, R, to)[g] = Total(G, R)
      /\ Sums(R, L, R, to)[h] = Total(H, R) /\ Sums(R, L, R, to)[k] = Total(K, R)
  BY ColumnFacts
<1> HIDE DEF F, G, H, K
<1>5. Total(M, R) = Total(H, R) + Total(K, R)
  <2>1. /\ \A r \in R : H[r] \in Int
        /\ \A r \in R : K[r] \in Int
        /\ \A r \in R : M[r] = H[r] + K[r]
    BY <1>2
  <2> HIDE DEF M
  <2> QED BY <1>1, <2>1, TotalPlus
<1>6. Total(F, R) = Total(G, R) + Total(M, R)
  <2>1. /\ \A r \in R : G[r] \in Int
        /\ \A r \in R : M[r] \in Int
        /\ \A r \in R : F[r] = G[r] + M[r]
    BY <1>2, <1>3
  <2> HIDE DEF M
  <2> QED BY <1>1, <2>1, TotalPlus
<1>7. Total(G, R) \in Int /\ Total(H, R) \in Int /\ Total(K, R) \in Int
  <2>1. /\ \A r \in R : G[r] \in Int
        /\ \A r \in R : H[r] \in Int
        /\ \A r \in R : K[r] \in Int
    BY <1>2
  <2> QED BY <1>1, <2>1, TotalInt
<1> HIDE DEF M
<1> QED BY <1>4, <1>5, <1>6, <1>7

\* A share of a whole is a percentage.
LEMMA Percentage ==
  ASSUME NEW g \in Nat \ {0}, NEW e \in Nat, e <= g
  PROVE  ((g - e) * 100) \div g \in 0..100
<1> DEFINE n == (g - e) * 100
           q == n \div g
<1>1. n \in Nat /\ n <= g * 100
  OBVIOUS
<1>2. q \in Int /\ n = g * q + (n % g) /\ n % g \in Nat /\ n % g < g
  <2> HIDE DEF n
  <2> QED BY <1>1
<1> HIDE DEF n, q
<1>3. q >= 0
  <2> SUFFICES ASSUME q <= -1 PROVE FALSE
    BY <1>2
  <2>1. g * q <= g * (-1)
    BY <1>2
  <2> QED BY <1>1, <1>2, <2>1
<1>4. q <= 100
  <2> SUFFICES ASSUME q >= 101 PROVE FALSE
    BY <1>2
  <2>1. g * q >= g * 101
    BY <1>2
  <2> QED BY <1>1, <1>2, <2>1
<1> QED BY <1>2, <1>3, <1>4 DEF n, q

\* One reading has the highest consumption, and is the first that has it.
LEMMA HighestExists ==
  ASSUME NEW R, WellFormed(R), R # {}
  PROVE  \E m \in R : \A y \in R : \/ y.cons < m.cons
                                   \/ y.cons = m.cons /\ y.time >= m.time
<1> DEFINE Before(x, y) == y.cons < x.cons \/ (y.cons = x.cons /\ y.time >= x.time)
           O == {p \in R \X R : Before(p[1], p[2])}
<1>1. IsFiniteSet(R) /\ \A x \in R : x.time \in Int /\ x.cons \in Int
  BY DEF WellFormed
<1>2. \A x, y \in R : <<x, y>> \in O <=> Before(x, y)
  OBVIOUS
<1>3. /\ \A x, y \in R : Before(x, y) \/ Before(y, x)
      /\ \A x, y, z \in R : Before(x, y) /\ Before(y, z) => Before(x, z)
  BY <1>1
<1>4. /\ \A x, y \in R : <<x, y>> \in O \/ <<y, x>> \in O
      /\ \A x, y, z \in R : <<x, y>> \in O /\ <<y, z>> \in O => <<x, z>> \in O
  <2> HIDE DEF O, Before
  <2> QED BY <1>2, <1>3
<1>5. PICK m \in R : \A y \in R : <<m, y>> \in O
  <2> HIDE DEF O
  <2> QED BY <1>1, <1>4, FirstExists
<1>6. \A y \in R : Before(m, y)
  <2> HIDE DEF O, Before
  <2> QED BY <1>2, <1>5
<1> QED BY <1>6

\* The peak is at least the consumption of each reading.
LEMMA PeakFacts ==
  ASSUME NEW R, WellFormed(R), NEW r \in R
  PROVE  \E p \in Peaks(R) : p.kw >= r.cons
<1>1. PICK m \in R : \A y \in R : \/ y.cons < m.cons
                                  \/ y.cons = m.cons /\ y.time >= m.time
  BY HighestExists
<1>2. [kw |-> m.cons, time |-> m.time] \in Peaks(R)
  BY <1>1 DEF Peaks
<1>3. m.cons >= r.cons
  BY <1>1 DEF WellFormed
<1> QED BY <1>2, <1>3

\* Energy is neither lost nor made in a summary.
LEMMA SumsBalance ==
  ASSUME NEW R, NEW L, NEW to, RangeReadings(R, L, to), NEW s, s = Sums(R, L, R, to)
  PROVE  /\ \A f \in DOMAIN s : s[f] >= 0
         /\ s.generated = s.solarHome + s.solarStorage + s.solarGrid
         /\ s.consumed = s.solarHome + s.storageHome + s.gridHome
         /\ s.charged = s.solarStorage + s.gridStorage
         /\ s.discharged = s.storageHome + s.storageGrid
         /\ SelfConsumption(s) \in 0..100
<1>1. WellFormed(R)
  BY DEF RangeReadings
<1>2. DOMAIN s = Fields
  BY SumsAreTotals
<1>3. \A f \in Fields : s[f] \in Nat
  BY ColumnFacts
<1>4. s["generated"] = s["solarHome"] + s["solarStorage"] + s["solarGrid"]
  <2>1. \A r \in R : Rates(R, r)["generated"] =
          Rates(R, r)["solarHome"]
            + (Rates(R, r)["solarStorage"] + Rates(R, r)["solarGrid"])
    BY <1>1, RatesFacts
  <2>2. /\ "generated" \in Fields /\ "solarHome" \in Fields
        /\ "solarStorage" \in Fields /\ "solarGrid" \in Fields
    BY DEF Fields
  <2> QED BY <2>1, <2>2, SplitInThree
<1>5. s["consumed"] = s["solarHome"] + s["storageHome"] + s["gridHome"]
  <2>1. \A r \in R : Rates(R, r)["consumed"] =
          Rates(R, r)["solarHome"]
            + (Rates(R, r)["storageHome"] + Rates(R, r)["gridHome"])
    BY <1>1, RatesFacts
  <2>2. /\ "consumed" \in Fields /\ "solarHome" \in Fields
        /\ "storageHome" \in Fields /\ "gridHome" \in Fields
    BY DEF Fields
  <2> QED BY <2>1, <2>2, SplitInThree
<1>6. s["charged"] = s["solarStorage"] + s["gridStorage"]
  <2>1. \A r \in R : Rates(R, r)["charged"] =
          Rates(R, r)["solarStorage"] + Rates(R, r)["gridStorage"]
    BY <1>1, RatesFacts
  <2>2. "charged" \in Fields /\ "solarStorage" \in Fields /\ "gridStorage" \in Fields
    BY DEF Fields
  <2> QED BY <2>1, <2>2, SplitInTwo
<1>7. s["discharged"] = s["storageHome"] + s["storageGrid"]
  <2>1. \A r \in R : Rates(R, r)["discharged"] =
          Rates(R, r)["storageHome"] + Rates(R, r)["storageGrid"]
    BY <1>1, RatesFacts
  <2>2. "discharged" \in Fields /\ "storageHome" \in Fields /\ "storageGrid" \in Fields
    BY DEF Fields
  <2> QED BY <2>1, <2>2, SplitInTwo
<1>8. /\ s["generated"] \in Nat /\ s["solarHome"] \in Nat
      /\ s["solarStorage"] \in Nat /\ s["solarGrid"] \in Nat
  BY <1>3 DEF Fields
<1>9. SelfConsumption(s) \in 0..100
  <2> DEFINE g == s["generated"]
             e == s["solarGrid"]
  <2>1. g \in Nat /\ e \in Nat /\ e <= g
    BY <1>4, <1>8
  <2>2. SelfConsumption(s) = IF g > 0 THEN ((g - e) * 100) \div g ELSE 0
    BY DEF SelfConsumption
  <2> HIDE DEF g, e
  <2>3. CASE g > 0
    <3>1. g \in Nat \ {0}
      BY <2>1, <2>3
    <3>2. ((g - e) * 100) \div g \in 0..100
      BY <2>1, <3>1, Percentage
    <3> QED BY <2>2, <2>3, <3>2
  <2>4. CASE ~(g > 0)
    BY <2>2, <2>4
  <2> QED BY <2>3, <2>4
<1>10. \A f \in DOMAIN s : s[f] >= 0
  BY <1>2, <1>3
<1> QED BY <1>4, <1>5, <1>6, <1>7, <1>9, <1>10

-----------------------------------------------------------------------------
(* The buckets of a series                                                 *)

\* The readings of the bucket that starts at k.
Bucket(R, k, width, offset) == {r \in R : BucketOf(r.time, width, offset) = k}

\* The buckets are those that some reading falls into, one for each start, with
\* the sums of the readings that fall into it.
LEMMA SeriesFacts ==
  ASSUME NEW R, NEW L, NEW to, RangeReadings(R, L, to), NEW width, NEW offset,
         NEW B, B = Series(R, L, to, width, offset)
  PROVE  /\ IsFiniteSet(B)
         /\ \A b \in B : b.sums = Sums(R, L, Bucket(R, b.start, width, offset), to)
         /\ \A b \in B : \E r \in R : BucketOf(r.time, width, offset) = b.start
         /\ \A r \in R : \E b \in B : b.start = BucketOf(r.time, width, offset)
         /\ \A b, c \in B : b.start = c.start => b = c
<1> DEFINE At(r) == BucketOf(r.time, width, offset)
           K == {At(r) : r \in R}
           S(k) == Sums(R, L, Bucket(R, k, width, offset), to)
           at == [r \in R |-> At(r)]
           bucket == [k \in K |-> [start |-> k, sums |-> S(k)]]
<1>1. B = {[start |-> k, sums |-> S(k)] : k \in K}
  BY DEF Series, Bucket
<1>2. B = {bucket[k] : k \in K} /\ K = {at[r] : r \in R}
  <2> HIDE DEF At, S
  <2> QED BY <1>1
<1>3. IsFiniteSet(R)
  BY DEF RangeReadings, WellFormed
<1>4. IsFiniteSet(B)
  <2> HIDE DEF K, at, bucket
  <2>1. IsFiniteSet(K)
    BY <1>2, <1>3, ImageFinite
  <2> QED BY <1>2, <2>1, ImageFinite
<1>5. \A b \in B : b.start \in K /\ b = [start |-> b.start, sums |-> S(b.start)]
  <2> HIDE DEF K, S
  <2> QED BY <1>1
<1>6. \A k \in K : \E b \in B : b.start = k
  <2> HIDE DEF K, S
  <2> SUFFICES ASSUME NEW k \in K PROVE \E b \in B : b.start = k
    OBVIOUS
  <2> DEFINE b == [start |-> k, sums |-> S(k)]
  <2>1. b \in B /\ b.start = k
    BY <1>1
  <2> QED BY <2>1
<1>7. \A b \in B : b.sums = S(b.start)
  <2> HIDE DEF K, S
  <2> QED BY <1>5
<1>8. \A b, c \in B : b.start = c.start => b = c
  <2> HIDE DEF K, S
  <2> QED BY <1>5
<1> QED BY <1>4, <1>5, <1>6, <1>7, <1>8

\* Each reading counts in one bucket, so the buckets add up.
LEMMA BucketsAddUp ==
  ASSUME NEW R, NEW L, NEW to, RangeReadings(R, L, to), NEW width, NEW offset,
         NEW B, B = Series(R, L, to, width, offset), NEW f \in Fields
  PROVE  Total([b \in B |-> b.sums[f]], B) = Sums(R, L, R, to)[f]
<1> DEFINE C == Column(R, L, to, f)
           In(b) == Bucket(R, b.start, width, offset)
           E == [b \in B |-> [r \in R |-> IF r \in In(b) THEN C[r] ELSE 0]]
           D == [r \in R |-> [b \in B |-> E[b][r]]]
           F == [b \in B |-> b.sums[f]]
           G == [r \in R |-> Total(D[r], B)]
<1>1. IsFiniteSet(R) /\ IsFiniteSet(B)
  <2>1. IsFiniteSet(R)
    BY DEF RangeReadings, WellFormed
  <2>2. IsFiniteSet(B)
    BY SeriesFacts
  <2> QED BY <2>1, <2>2
<1>2. \A r \in R : C[r] \in Nat
  BY ColumnFacts
<1>3. \A b \in B : \A r \in R : E[b][r] \in Int /\ D[r][b] = E[b][r]
  <2> HIDE DEF C, In
  <2> QED BY <1>2
<1>4. ASSUME NEW b \in B PROVE F[b] = Total(E[b], R)
  <2> DEFINE I == In(b)
             row == E[b]
  <2>1. I \in SUBSET R
    BY DEF Bucket
  <2>2. b.sums = Sums(R, L, I, to)
    BY SeriesFacts
  <2>3. F[b] = Sums(R, L, I, to)[f]
    <3> HIDE DEF I
    <3> QED BY <2>2
  <2>4. Sums(R, L, I, to)[f] = Total(C, I)
    <3> HIDE DEF I
    <3> QED BY <2>1, ColumnFacts
  <2>5. /\ \A r \in I : row[r] \in Int
        /\ \A r \in I : row[r] = C[r]
        /\ \A r \in R \ I : row[r] = 0
    <3> HIDE DEF C, In
    <3> QED BY <1>2, <2>1
  <2> HIDE DEF I, row, C, E, F
  <2>6. Total(row, R) = Total(C, I)
    BY <1>1, <2>1, <2>5, TotalWithin
  <2> QED BY <2>3, <2>4, <2>6 DEF row
<1>5. ASSUME NEW r \in R PROVE G[r] = C[r]
  <2>1. PICK b \in B : b.start = BucketOf(r.time, width, offset)
    BY SeriesFacts
  <2>2. \A c \in B : r \in In(c) <=> c = b
    <3>1. \A c \in B : c.start = b.start => c = b
      BY SeriesFacts
    <3> QED BY <2>1, <3>1 DEF Bucket
  <2> DEFINE col == D[r]
             one == [c \in {b} |-> C[r]]
  <2>3. /\ \A c \in {b} : col[c] \in Int
        /\ \A c \in {b} : col[c] = one[c]
        /\ \A c \in {b} : one[c] = C[r]
        /\ \A c \in B \ {b} : col[c] = 0
    <3> HIDE DEF C, In
    <3> QED BY <1>2, <2>2
  <2>4. G[r] = Total(col, B) /\ C[r] \in Nat
    BY <1>2
  <2>5. {b} \in SUBSET B /\ IsFiniteSet({b}) /\ Cardinality({b}) = 1
    BY FS_Singleton
  <2> HIDE DEF col, one, C, D, G
  <2>6. Total(col, B) = Total(one, {b})
    BY <1>1, <2>3, <2>5, TotalWithin
  <2>7. Total(one, {b}) = C[r] * Cardinality({b})
    BY <2>3, <2>4, <2>5, TotalConstant
  <2> QED BY <2>4, <2>5, <2>6, <2>7
<1>6. Total(F, B) = Total(G, R)
  <2>1. /\ \A b \in B : F[b] = Total(E[b], R)
        /\ \A r \in R : G[r] = Total(D[r], B)
    BY <1>4
  <2> HIDE DEF C, E, D, F, G
  <2>2. Table(B, R, E, D, F, G)
    BY <1>1, <1>3, <2>1 DEF Table
  <2> QED BY <2>2, TotalExchange
<1>7. Total(G, R) = Total(C, R)
  <2>1. (\A r \in R : G[r] \in Int) /\ (\A r \in R : G[r] = C[r])
    BY <1>2, <1>5
  <2> HIDE DEF G, C
  <2> QED BY <1>1, <2>1, TotalEqual
<1>8. Sums(R, L, R, to)[f] = Total(C, R)
  BY ColumnFacts
<1> HIDE DEF C, G
<1> QED BY <1>6, <1>7, <1>8

\* A quotient is bounded as its dividend is.
LEMMA DivisionBound ==
  ASSUME NEW n \in Nat, NEW d \in Nat \ {0}, NEW c \in Nat, n <= c * d
  PROVE  n \div d <= c
<1> DEFINE q == n \div d
<1>1. q \in Int /\ n = d * q + (n % d) /\ n % d \in Nat
  OBVIOUS
<1> HIDE DEF q
<1>2. SUFFICES ASSUME q >= c + 1 PROVE FALSE
  BY <1>1 DEF q
<1>3. d * q >= d * (c + 1)
  BY <1>1, <1>2
<1>4. d * (c + 1) = c * d + d
  OBVIOUS
<1>5. d * q \in Int /\ c * d \in Int
  BY <1>1
<1> QED BY <1>1, <1>3, <1>4, <1>5

\* An average is not above the highest consumption.
LEMMA AverageBelowHighest ==
  ASSUME NEW R, NEW L, NEW to, RangeReadings(R, L, to), NEW S \in SUBSET R, S # {}
  PROVE  \E r \in S : AveragePower(Sums(R, L, S, to)) <= r.cons
<1> DEFINE C == Column(R, L, to, "consumed")
           T == Column(R, L, to, "covered")
           s == Sums(R, L, S, to)
<1>1. WellFormed(S) /\ IsFiniteSet(S) /\ WellFormed(R)
  BY FS_Subset DEF RangeReadings, WellFormed
<1>2. PICK m \in S : \A y \in S : \/ y.cons < m.cons
                                  \/ y.cons = m.cons /\ y.time >= m.time
  BY <1>1, HighestExists
<1>3. m.cons \in Nat /\ \A y \in S : y.cons \in Nat /\ y.cons <= m.cons
  BY <1>1, <1>2 DEF WellFormed
<1>4. "consumed" \in Fields /\ "covered" \in Fields
  BY DEF Fields
<1>5. /\ s["consumed"] = Total(C, S) /\ s["covered"] = Total(T, S)
      /\ s["consumed"] \in Nat /\ s["covered"] \in Nat
      /\ \A r \in R : C[r] \in Nat
      /\ \A r \in R : T[r] \in Nat
  BY <1>4, ColumnFacts
<1> DEFINE H == [r \in S |-> m.cons * T[r]]
<1>6. ASSUME NEW r \in S PROVE C[r] <= H[r]
  <2> DEFINE d == Duration(R, L, r, to)
  <2>1. d \in Nat
    BY DurationFacts
  <2>2. Rates(R, r)["consumed"] = r.cons /\ Rates(R, r)["covered"] = 1
    BY DEF Rates
  <2>3. C[r] = r.cons * d /\ T[r] = 1 * d
    BY <2>2 DEF Column
  <2>4. H[r] = m.cons * T[r]
    OBVIOUS
  <2> HIDE DEF d, C, T, H
  <2>5. T[r] = d
    BY <2>1, <2>3
  <2>6. r.cons * d <= m.cons * d
    BY <1>3, <2>1
  <2> QED BY <2>3, <2>4, <2>5, <2>6
<1>7. \A r \in S : H[r] = m.cons * T[r]
  OBVIOUS
<1> HIDE DEF C, T, H, s
<1>8. \A r \in S : H[r] \in Int
  BY <1>3, <1>5, <1>7
<1>9. Total(C, S) <= Total(H, S)
  <2>1. /\ \A r \in S : C[r] \in Int
        /\ \A r \in S : H[r] \in Int
        /\ \A r \in S : C[r] <= H[r]
    BY <1>5, <1>6, <1>8
  <2> QED BY <1>1, <2>1, TotalLe
<1>10. Total(H, S) = m.cons * Total(T, S)
  <2>1. /\ \A r \in S : T[r] \in Int
        /\ \A r \in S : H[r] = m.cons * T[r]
        /\ m.cons \in Int
    BY <1>3, <1>5, <1>7
  <2> QED BY <1>1, <2>1, TotalTimes
<1>11. s["consumed"] <= m.cons * s["covered"]
  BY <1>5, <1>9, <1>10
<1>12. AveragePower(s) =
         IF s["covered"] = 0 THEN 0 ELSE s["consumed"] \div s["covered"]
  BY DEF AveragePower
<1>13. AveragePower(s) <= m.cons
  <2>1. CASE s["covered"] = 0
    BY <1>3, <1>12, <2>1
  <2>2. CASE s["covered"] # 0
    <3>1. s["covered"] \in Nat \ {0}
      BY <1>5, <2>2
    <3>2. s["consumed"] \div s["covered"] <= m.cons
      BY <1>3, <1>5, <1>11, <3>1, DivisionBound
    <3> QED BY <1>12, <2>2, <3>2
  <2> QED BY <2>1, <2>2
<1> QED BY <1>13 DEF s

\* Quotient and remainder of a time, which may be negative.
LEMMA DivisionFacts ==
  ASSUME NEW a \in Int, NEW w \in Nat \ {0}
  PROVE  /\ a \div w \in Int /\ a % w \in 0..(w - 1)
         /\ a = w * (a \div w) + (a % w)
OBVIOUS

\* The number of the bucket of t, and where the bucket with a number starts.
Slot(t, width, offset)    == (t + offset) \div width
StartOf(k, width, offset) == width * k - offset

\* A time within a range that has buckets.
Inside(from, to, width, offset, t) ==
  /\ from \in Int /\ to \in Int /\ from < to
  /\ width \in Nat \ {0} /\ offset \in Int
  /\ t \in Int /\ from <= t /\ t < to

\* A range of n seconds reaches into at most one bucket more than it needs.
LEMMA SlotFacts ==
  ASSUME NEW from, NEW to, NEW width, NEW offset, NEW t,
         Inside(from, to, width, offset, t)
  PROVE  /\ Slot(from, width, offset) \in Int
         /\ Needed(from, to, width) \in Nat
         /\ Slot(t, width, offset) \in Int
         /\ Slot(from, width, offset) <= Slot(t, width, offset)
         /\ Slot(t, width, offset)
              <= Slot(from, width, offset) + Needed(from, to, width)
         /\ BucketOf(t, width, offset)
              = StartOf(Slot(t, width, offset), width, offset)
<1> USE DEF Inside
<1> DEFINE a == (from + offset) \div width
           q == (t + offset) \div width
           u == (from + offset) % width
           v == (t + offset) % width
           n == to - from
           k == n \div width
           e == n % width
           N == Needed(from, to, width)
<1>1. /\ a \in Int /\ u \in 0..(width - 1) /\ from + offset = width * a + u
      /\ q \in Int /\ v \in 0..(width - 1) /\ t + offset = width * q + v
      /\ k \in Int /\ e \in 0..(width - 1) /\ n = width * k + e
  <2>1. from + offset \in Int /\ t + offset \in Int /\ n \in Int
    OBVIOUS
  <2> HIDE DEF n
  <2> QED BY <2>1, DivisionFacts
<1>2. BucketOf(t, width, offset) = t - v
  BY DEF BucketOf
<1>3. N = k + (IF e = 0 THEN 0 ELSE 1)
  BY DEF Needed
<1>4. n \in Nat /\ n > 0 /\ t - from < n /\ t - from >= 0
  <2>1. \A i, j, m \in Int : i < j /\ i <= m /\ m < j =>
          j - i \in Nat /\ j - i > 0 /\ m - i < j - i /\ m - i >= 0
    OBVIOUS
  <2> QED BY <2>1
<1> HIDE DEF a, q, u, v, n, k, e, N
<1>5. width * a \in Int /\ width * q \in Int /\ width * k \in Int
  BY <1>1
<1>6. k >= 0
  <2> SUFFICES ASSUME k <= -1 PROVE FALSE
    BY <1>1
  <2>1. width * k <= width * (-1)
    BY <1>1
  <2> QED BY <1>1, <1>4, <1>5, <2>1
<1>7. N \in Nat
  BY <1>1, <1>3, <1>6
<1>8. n <= width * N
  <2>1. CASE e = 0
    BY <1>1, <1>3, <2>1
  <2>2. CASE e # 0
    <3>1. width * (k + 1) = width * k + width
      BY <1>1
    <3> QED BY <1>1, <1>3, <1>5, <2>2, <3>1
  <2> QED BY <2>1, <2>2
<1>9. a <= q
  <2> SUFFICES ASSUME q <= a - 1 PROVE FALSE
    BY <1>1
  <2>1. width * q <= width * (a - 1)
    BY <1>1
  <2>2. width * (a - 1) = width * a - width
    BY <1>1
  <2>3. from + offset <= t + offset
    OBVIOUS
  <2>4. width * a + u <= width * q + v /\ u >= 0 /\ v < width
    BY <1>1, <2>3
  <2> QED BY <1>1, <1>5, <2>1, <2>2, <2>4
<1>10. q <= a + N
  <2> SUFFICES ASSUME q >= a + N + 1 PROVE FALSE
    BY <1>1, <1>7
  <2>1. width * q >= width * (a + N + 1)
    BY <1>1, <1>7
  <2>2. width * (a + N + 1) = width * a + width * N + width /\ width * N \in Int
    BY <1>1, <1>7
  <2>3. t + offset < (from + offset) + n
    BY <1>4
  <2>4. n \in Int
    BY <1>4
  <2> QED BY <1>1, <1>5, <1>8, <2>1, <2>2, <2>3, <2>4
<1>11. t - v = width * q - offset
  BY <1>1, <1>5
<1>12. /\ Slot(from, width, offset) = a /\ Slot(t, width, offset) = q
       /\ StartOf(q, width, offset) = width * q - offset
  BY DEF Slot, StartOf, a, q
<1> QED BY <1>1, <1>2, <1>7, <1>9, <1>10, <1>11, <1>12 DEF N

\* The first slot and the number of slots have their types.
LEMMA BucketRange ==
  ASSUME NEW from \in Int, NEW to \in Int, from < to, NEW width \in Nat \ {0},
         NEW offset \in Int
  PROVE  Slot(from, width, offset) \in Int /\ Needed(from, to, width) \in Nat
<1>1. Inside(from, to, width, offset, from)
  BY DEF Inside
<1> QED BY <1>1, SlotFacts

\* A series has no more buckets.
LEMMA BucketsBounded ==
  ASSUME NEW R, NEW L, NEW from \in Int, NEW to, RangeReadings(R, L, to), from < to,
         \A r \in R : from <= r.time,
         NEW width \in Nat \ {0}, NEW offset \in Int,
         NEW B, B = Series(R, L, to, width, offset)
  PROVE  Cardinality(B) <= Needed(from, to, width) + 1
<1> DEFINE a == Slot(from, width, offset)
           N == Needed(from, to, width)
           Q == a..(a + N)
           Start(k) == StartOf(k, width, offset)
           bucket == [k \in Q |-> CHOOSE b \in B : b.start = Start(k)]
<1>1. to \in Int /\ \A r \in R : r.time \in Int /\ r.time < to
  BY DEF RangeReadings, WellFormed
<1>2. a \in Int /\ N \in Nat
  BY <1>1, BucketRange
<1>0. ASSUME NEW t \in Int, from <= t, t < to
      PROVE  /\ Slot(t, width, offset) \in Int
             /\ a <= Slot(t, width, offset) /\ Slot(t, width, offset) <= a + N
             /\ BucketOf(t, width, offset) = Start(Slot(t, width, offset))
  <2>1. Inside(from, to, width, offset, t)
    BY <1>0, <1>1 DEF Inside
  <2> QED BY <2>1, SlotFacts
<1>3. ASSUME NEW r \in R
      PROVE  \E k \in Q : BucketOf(r.time, width, offset) = Start(k)
  <2> DEFINE q == Slot(r.time, width, offset)
  <2>1. r.time \in Int /\ from <= r.time /\ r.time < to
    BY <1>1
  <2>2. q \in Int /\ a <= q /\ q <= a + N /\ BucketOf(r.time, width, offset) = Start(q)
    BY <1>0, <2>1
  <2> HIDE DEF q, a, N, Start
  <2>3. q \in Q
    BY <1>2, <2>2
  <2> QED BY <2>2, <2>3
<1>4. /\ IsFiniteSet(B)
      /\ \A b \in B : \E r \in R : BucketOf(r.time, width, offset) = b.start
      /\ \A b, c \in B : b.start = c.start => b = c
  BY SeriesFacts
<1> HIDE DEF a, N, Start
<1>5. \A b \in B : \E k \in Q : b = bucket[k]
  <2> SUFFICES ASSUME NEW b \in B PROVE \E k \in Q : b = bucket[k]
    OBVIOUS
  <2>1. PICK k \in Q : b.start = Start(k)
    BY <1>3, <1>4
  <2>2. bucket[k] \in B /\ bucket[k].start = Start(k)
    BY <2>1
  <2> QED BY <1>4, <2>1, <2>2
<1>6. IsFiniteSet(Q) /\ Cardinality(Q) = N + 1
  <2>1. a + N \in Int
    BY <1>2
  <2>2. IsFiniteSet(Q) /\ Cardinality(Q) = IF a > a + N THEN 0 ELSE (a + N) - a + 1
    BY <1>2, <2>1, FS_Interval
  <2> QED BY <1>2, <2>2
<1> DEFINE I == {bucket[k] : k \in Q}
<1>7. IsFiniteSet(I) /\ Cardinality(I) <= Cardinality(Q)
  <2> HIDE DEF Q, bucket
  <2> QED BY <1>6, ImageFinite
<1>8. B \in SUBSET I
  BY <1>5
<1>9. Cardinality(B) <= Cardinality(I) /\ Cardinality(B) \in Nat /\ Cardinality(I) \in Nat
  <2> HIDE DEF I
  <2> QED BY <1>4, <1>7, <1>8, FS_Subset, FS_CardinalityType
<1> HIDE DEF I, Q
<1> QED BY <1>2, <1>6, <1>7, <1>9 DEF N

-----------------------------------------------------------------------------
(* The energy calls                                                        *)

\* A call for energy that is past its check has an acceptable request; between
\* the two statements of a summary it has the sums of readings that are still
\* there.
CallEnergyInv ==
  call # None /\ call.op \in {"series", "summary"} =>
    /\ {"at", "house", "req", "sums", "rows", "last"} \subseteq DOMAIN call
    /\ call.req \in Requests
    /\ call.at # "check" => Acceptable(call)
    /\ call.at = "peak" =>
         /\ call.rows \subseteq Now
         /\ call.last \in Orders(call.rows)
         /\ call.sums = Sums(call.rows, call.last, call.rows, call.req.to)

\* With what the answers say, it is inductive beside IInv.
EnergyInv == CallEnergyInv /\ SummarySound /\ SeriesSound

\* An acceptable request has a range, and for a series a width and an offset.
LEMMA RequestFacts ==
  ASSUME NEW c, c.req \in Requests, c.op \in {"series", "summary"}, Acceptable(c)
  PROVE  /\ c.req.from \in Int /\ c.req.to \in Int /\ c.req.from < c.req.to
         /\ c.op = "series" =>
              /\ c.req.width \in Nat \ {0} /\ c.req.offset \in Int
              /\ Needed(c.req.from, c.req.to, c.req.width) <= MaxBuckets
<1> DEFINE q == c.req
<1>1. {q.from, q.to, q.offset} \subseteq Int \cup {None} /\ q.width \in Int
  BY QueryAssumption
<1>2. q.from # None /\ q.to # None /\ q.to > q.from
  BY DEF Acceptable, RequestRange, RangeOk
<1>3. c.op = "series" =>
        /\ q.width \in MinBucketWidth..MaxBucketWidth /\ q.offset # None
        /\ Needed(q.from, q.to, q.width) <= MaxBuckets
  BY DEF Acceptable, BucketsOk
<1>4. MinBucketWidth \in Nat \ {0}
  BY EnergyAssumption
<1> HIDE DEF q
<1> QED BY <1>1, <1>2, <1>3, <1>4 DEF q

\* The readings a statement sees are those of a range.
LEMMA NowFacts ==
  ASSUME StateTypes, call.req.to \in Int, NEW R \in SUBSET Now, NEW L \in Orders(R)
  PROVE  /\ RangeReadings(R, L, call.req.to) /\ WellFormed(Now)
         /\ \A r \in R : call.req.from <= r.time
<1>1. WellFormed(world.readings) /\ readings \subseteq world.readings
  BY QueryAssumption DEF StateTypes
<1>2. \A T \in SUBSET world.readings : WellFormed(T)
  BY <1>1, FS_Subset DEF WellFormed
<1>3. /\ Now \in SUBSET world.readings
      /\ \A r \in Now : call.req.from <= r.time /\ r.time < call.req.to
  <2>1. Now \subseteq readings
    BY DEF Now, InRange
  <2>2. \A r \in Now : r.time >= call.req.from /\ r.time < call.req.to
    BY DEF Now, InRange
  <2> QED BY <1>1, <2>1, <2>2
<1>4. WellFormed(R) /\ WellFormed(Now)
  BY <1>2, <1>3
<1>5. \A r \in R : call.req.from <= r.time /\ r.time < call.req.to
  BY <1>3
<1> QED BY <1>4, <1>5 DEF RangeReadings

\* What SeriesAddsUp says of the data of an answer.
AddsUp(d) ==
  LET all == Sums(d.rows, d.last, d.rows, d.req.to) IN
  /\ \A f \in DOMAIN all : SumOf(d.buckets, LAMBDA b : b.sums[f]) = all[f]
  /\ \A b \in d.buckets : \E r \in d.rows : AveragePower(b.sums) <= r.cons

\* The same, with the answer as it is or as it becomes.
LEMMA SeriesAddsUpData ==
  /\ SeriesAddsUp <=> (Answered("series") => AddsUp(answer.data))
  /\ SeriesAddsUp' <=> (Answered("series")' => AddsUp(answer'.data))
<1>1. SeriesAddsUp <=> (Answered("series") => AddsUp(answer.data))
  BY Zenon DEF SeriesAddsUp, AddsUp
<1>2. SeriesAddsUp' <=> (Answered("series")' => AddsUp(answer.data)')
  BY <1>1, PTL
<1> QED BY <1>1, <1>2

\* What the answers say depends on the answer alone.
LEMMA SoundKept ==
  ASSUME SummarySound, SeriesSound, UNCHANGED answer
  PROVE  SummarySound' /\ SeriesSound'
<1>1. EnergyIsPiecewise'
  BY DEF SummarySound, EnergyIsPiecewise, Answered
<1>2. FlowsBalance'
  BY DEF SummarySound, FlowsBalance, Answered
<1>3. PeakCoversSums'
  BY DEF SummarySound, PeakCoversSums, Answered
<1>4. SeriesAddsUp'
  BY SeriesAddsUpData DEF SeriesSound, Answered
<1>5. SeriesBounded'
  BY DEF SeriesSound, SeriesBounded, Answered
<1> QED BY <1>1, <1>2, <1>3, <1>4, <1>5 DEF SummarySound, SeriesSound

\* No answer of energy: what the answers say stays true.
LEMMA OtherReply ==
  ASSUME NEW code, NEW data, Reply(code, data),
         code # "ok" \/ call.op \notin {"series", "summary"}
  PROVE  EnergyInv'
<1>1. call' = None /\ answer'.op = call.op /\ answer'.code = code
  BY DEF Reply
<1> QED BY <1>1 DEF EnergyInv, CallEnergyInv, SummarySound, SeriesSound,
           EnergyIsPiecewise, FlowsBalance, PeakCoversSums, SeriesAddsUp, SeriesBounded,
           Answered

\* A call that is not for energy, or that is not past its check.
LEMMA OtherCall ==
  ASSUME EnergyInv, UNCHANGED answer,
         call' # None /\ call'.op \in {"series", "summary"} =>
           /\ {"at", "house", "req", "sums", "rows", "last"} \subseteq DOMAIN call'
           /\ call'.req \in Requests /\ call'.at = "check"
  PROVE  EnergyInv'
<1>1. CallEnergyInv'
  BY DEF CallEnergyInv
<1> QED BY <1>1, SoundKept DEF EnergyInv

\* The same call, with what its history notes, over the same readings or more.
LEMMA SameCall ==
  ASSUME EnergyInv, UNCHANGED answer, readings \subseteq readings',
         call = None => call' = None,
         call # None =>
           /\ DOMAIN call' = DOMAIN call
           /\ \A f \in DOMAIN call \ {"always", "ever"} : call'[f] = call[f],
         call # None => "op" \in DOMAIN call
  PROVE  EnergyInv'
<1>1. CallEnergyInv'
  <2> SUFFICES ASSUME call # None, call'.op \in {"series", "summary"}
               PROVE  CallEnergyInv'
    BY DEF CallEnergyInv
  <2>1. call'.op = call.op
    OBVIOUS
  <2>2. /\ {"at", "house", "req", "sums", "rows", "last"} \subseteq DOMAIN call
        /\ call.req \in Requests
        /\ call.at # "check" => Acceptable(call)
        /\ call.at = "peak" =>
             /\ call.rows \subseteq Now
             /\ call.last \in Orders(call.rows)
             /\ call.sums = Sums(call.rows, call.last, call.rows, call.req.to)
    BY <2>1 DEF EnergyInv, CallEnergyInv
  <2>3. /\ call'.at = call.at /\ call'.house = call.house /\ call'.req = call.req
        /\ call'.sums = call.sums /\ call'.rows = call.rows /\ call'.last = call.last
        /\ DOMAIN call' = DOMAIN call
    BY <2>2
  <2>4. Acceptable(call)' <=> Acceptable(call)
    BY <2>1, <2>3 DEF Acceptable
  <2>5. Now \subseteq Now'
    BY <2>3 DEF Now, InRange
  <2> QED BY <2>2, <2>3, <2>4, <2>5 DEF CallEnergyInv
<1> QED BY <1>1, SoundKept DEF EnergyInv

\* A call for energy goes to its next place, and is not at the peak there.
LEMMA NextPlace ==
  ASSUME IInv, EnergyInv, call # None, UNCHANGED answer, NEW at,
         call' = [call EXCEPT !.at = at], at # "peak", Acceptable(call)
  PROVE  EnergyInv'
<1>1. {"op", "at", "user", "grid", "house", "always", "ever"} \subseteq DOMAIN call
  BY DEF IInv, CallInv
<1>2. call'.op = call.op /\ call'.house = call.house /\ DOMAIN call' = DOMAIN call
      /\ call'.at = at
  BY <1>1
<1>3. CallEnergyInv'
  <2> SUFFICES ASSUME call.op \in {"series", "summary"} PROVE CallEnergyInv'
    BY <1>2 DEF CallEnergyInv
  <2>1. /\ {"at", "house", "req", "sums", "rows", "last"} \subseteq DOMAIN call
        /\ call.req \in Requests
    BY DEF EnergyInv, CallEnergyInv
  <2>2. call'.req = call.req
    BY <2>1
  <2>3. Acceptable(call)'
    BY <1>2, <2>2 DEF Acceptable
  <2> QED BY <1>2, <2>1, <2>2, <2>3 DEF CallEnergyInv
<1> QED BY <1>3, SoundKept DEF EnergyInv

\* Registrations, claims and readings change neither a call nor its sums.
LEMMA EnvironmentEnergy == ASSUME IInv, EnergyInv, Environment PROVE EnergyInv'
<1>0. CallInv /\ StateTypes
  BY DEF IInv
<1>1. call # None => "op" \in DOMAIN call
  BY <1>0 DEF CallInv
<1>2. CASE \E h \in world.houses : RegisterHouse(h) \/ ChangeOwner(h)
  <2>1. UNCHANGED <<answer, readings>> /\ Watch
    BY <1>2 DEF RegisterHouse, ChangeOwner
  <2>2. call = None => call' = None
    BY <2>1 DEF Watch
  <2>3. call # None =>
          /\ DOMAIN call' = DOMAIN call
          /\ \A f \in DOMAIN call \ {"always", "ever"} : call'[f] = call[f]
    BY <2>1 DEF Watch
  <2> QED BY <1>1, <2>1, <2>2, <2>3, SameCall
<1>3. CASE \E r \in world.readings : InsertReading(r)
  <2>1. UNCHANGED <<answer, call>> /\ readings \subseteq readings'
    BY <1>3 DEF InsertReading
  <2> QED BY <1>1, <2>1, SameCall
<1> QED BY <1>2, <1>3 DEF Environment

\* A call begins with the check of its request, or is a listing.
LEMMA ClientEnergy == ASSUME EnergyInv, Client PROVE EnergyInv'
<1>1. CASE \E u \in Callers \cup {Any}, g \in Grids \cup {Any}, n \in PageSizes,
              token \in {0, None} : List(u, g, n, token)
  <2>1. call'.op = "list" /\ UNCHANGED answer
    BY <1>1 DEF List, Begin
  <2> QED BY <2>1, OtherCall
<1>2. ASSUME NEW u, NEW h, NEW op, NEW q, HouseCall(op, u, h, q),
             op \in {"series", "summary"} => q \in Requests
      PROVE  EnergyInv'
  <2> DEFINE c == [op |-> op, at |-> "check", user |-> u, grid |-> Any, house |-> h,
                   req |-> q, sums |-> None, rows |-> {}, last |-> {},
                   always |-> {}, ever |-> {}]
  <2>1. /\ call' = [c EXCEPT !.always = Selected(c), !.ever = Selected(c)]
        /\ UNCHANGED answer
    BY <1>2 DEF HouseCall, Begin
  <2>2. /\ call'.op = op /\ call'.at = "check" /\ call'.req = q
        /\ {"at", "house", "req", "sums", "rows", "last"} \subseteq DOMAIN call'
    BY <2>1
  <2> QED BY <1>2, <2>1, <2>2, OtherCall
<1>3. CASE \E u \in Callers \cup {Any}, h \in world.houses \cup {None} :
             \/ HouseCall("house", u, h, None)
             \/ HouseCall("latest", u, h, None)
             \/ \E q \in Requests :
                  HouseCall("series", u, h, q) \/ HouseCall("summary", u, h, q)
  BY <1>2, <1>3
<1> QED BY <1>1, <1>3 DEF Client

\* The steps of a listing.
LEMMA ListingEnergy ==
  ASSUME IInv, EnergyInv, ListRefused \/ ReadPage \/ PageAnswered \/ PageFails
  PROVE  EnergyInv'
<1>0. CallInv /\ ListInv /\ HouseInv
  BY DEF IInv
<1>1. CASE ListRefused
  <2>1. Reply("invalid", <<>>)
    BY <1>1 DEF ListRefused, Refuse
  <2> QED BY <2>1, OtherReply
<1>2. CASE ReadPage
  <2>1. call # None /\ call.op = "list" /\ "op" \in DOMAIN call
    BY <1>0, <1>2 DEF ReadPage, HouseInv, CallInv
  <2>2. call'.op = "list" /\ UNCHANGED answer
    BY <1>2, <2>1 DEF ReadPage, Read
  <2> QED BY <2>2, OtherCall
<1>3. CASE PageAnswered \/ PageFails
  <2>1. call # None /\ call.op = "list" /\ "op" \in DOMAIN call
    BY <1>0, <1>3 DEF PageAnswered, PageFails, CallInv
  <2>2. CASE Reply("ok", call.got \o call.page)
    <3> DEFINE all == call.got \o call.page
    <3>1. Reply("ok", all)
      BY <2>2
    <3> HIDE DEF all
    <3> QED BY <2>1, <3>1, OtherReply
  <2>3. CASE ~Reply("ok", call.got \o call.page)
    <3>1. call'.op = "list" /\ UNCHANGED answer
      BY <1>3, <2>1, <2>3 DEF PageAnswered, PageFails, Read
    <3> QED BY <3>1, OtherCall
  <2> QED BY <2>2, <2>3
<1> QED BY <1>1, <1>2, <1>3

\* The steps of a call on one house before it reads, its failures, and the
\* answers that are not of energy.
LEMMA HouseEnergy ==
  ASSUME IInv, EnergyInv,
         \/ CheckRequest \/ OwnedHouse \/ HouseAnswered \/ LatestAnswered
         \/ \E c \in {"house", "data", "peak"} : StoreError(c)
  PROVE  EnergyInv'
<1>1. CASE CheckRequest
  <2>1. call # None
    BY <1>1 DEF CheckRequest
  <2>2. CASE Acceptable(call)
    <3>1. call' = [call EXCEPT !.at = "house"] /\ UNCHANGED answer
      BY <1>1, <2>2 DEF CheckRequest, Goto, Read
    <3> QED BY <2>1, <2>2, <3>1, NextPlace
  <2>3. CASE ~Acceptable(call)
    <3>1. Reply("invalid", <<>>)
      BY <1>1, <2>3 DEF CheckRequest, Refuse
    <3> QED BY <3>1, OtherReply
  <2> QED BY <2>2, <2>3
<1>2. CASE OwnedHouse
  <2>1. call # None /\ call.at = "house"
    BY <1>2 DEF OwnedHouse
  <2>2. CASE call.house \in houses /\ Owns(call)
    <3>1. call' = [call EXCEPT !.at = "data"] /\ UNCHANGED answer
      BY <1>2, <2>2 DEF OwnedHouse, Goto, Read
    <3>2. CASE call.op \in {"series", "summary"}
      <4>1. Acceptable(call)
        BY <2>1, <3>2 DEF EnergyInv, CallEnergyInv
      <4> QED BY <2>1, <3>1, <4>1, NextPlace
    <3>3. CASE call.op \notin {"series", "summary"}
      <4>1. call'.op = call.op
        BY <2>1, <3>1 DEF IInv, CallInv
      <4> QED BY <3>1, <3>3, <4>1, OtherCall
    <3> QED BY <3>2, <3>3
  <2>3. CASE ~(call.house \in houses /\ Owns(call))
    <3>1. Reply("notfound", <<>>)
      BY <1>2, <2>3 DEF OwnedHouse, Refuse
    <3> QED BY <3>1, OtherReply
  <2> QED BY <2>2, <2>3
<1>3. CASE HouseAnswered \/ LatestAnswered
  <2>1. call.op \notin {"series", "summary"}
        /\ (Reply("ok", {call.house}) \/ Reply("notfound", <<>>))
    BY <1>3 DEF HouseAnswered, LatestAnswered
  <2> QED BY <2>1, OtherReply
<1>4. CASE \E c \in {"house", "data", "peak"} : StoreError(c)
  <2>1. PICK code \in {"internal", "canceled"} : Reply(code, <<>>)
    BY <1>4 DEF StoreError
  <2> QED BY <2>1, OtherReply
<1> QED BY <1>1, <1>2, <1>3, <1>4

\* energySummarySQL: the sums of the readings it sees are kept for the answer.
LEMMA ReadSumsEnergy == ASSUME IInv, EnergyInv, ReadSums PROVE EnergyInv'
<1>1. call # None /\ call.op = "summary" /\ call.at = "data" /\ UNCHANGED <<answer, readings>>
  BY DEF ReadSums, Read, dataVars
<1>2. PICK L \in Orders(Now) :
        call' = [call EXCEPT !.at = "peak", !.rows = Now, !.last = L,
                             !.sums = Sums(Now, L, Now, call.req.to)]
  BY DEF ReadSums
<1>3. /\ {"at", "house", "req", "sums", "rows", "last"} \subseteq DOMAIN call
      /\ call.req \in Requests /\ Acceptable(call)
  BY <1>1 DEF EnergyInv, CallEnergyInv
<1>4. "op" \in DOMAIN call
  BY <1>1 DEF IInv, CallInv
<1> DEFINE N == Now
           s == Sums(Now, L, Now, call.req.to)
<1>5. call' = [call EXCEPT !.at = "peak", !.rows = N, !.last = L, !.sums = s]
  BY <1>2
<1> HIDE DEF N, s
<1>6. /\ DOMAIN call' = DOMAIN call /\ call'.at = "peak" /\ call'.op = call.op
      /\ call'.house = call.house /\ call'.req = call.req
      /\ call'.rows = N /\ call'.last = L /\ call'.sums = s
  BY <1>3, <1>4, <1>5
<1>7. Acceptable(call)'
  BY <1>3, <1>6 DEF Acceptable
<1>8. Now' = N
  BY <1>1, <1>6 DEF Now, InRange, N
<1>9. s = Sums(N, L, N, call.req.to) /\ L \in Orders(N)
  BY <1>2 DEF s, N
<1>10. CallEnergyInv'
  BY <1>3, <1>6, <1>7, <1>8, <1>9 DEF CallEnergyInv
<1> QED BY <1>1, <1>10, SoundKept DEF EnergyInv

\* GetEnergySeries: one statement, right in itself.
LEMMA SeriesEnergy == ASSUME IInv, EnergyInv, SeriesAnswered PROVE EnergyInv'
<1> DEFINE R == Now
           q == call.req
           B(L) == Series(R, L, q.to, q.width, q.offset)
<1>1. call # None /\ call.op = "series" /\ call.at = "data"
  BY DEF SeriesAnswered
<1>2. PICK L \in Orders(R) :
        Reply("ok", [req |-> q, rows |-> R, last |-> L, buckets |-> B(L)])
  BY DEF SeriesAnswered
<1>3. call.req \in Requests /\ Acceptable(call)
  BY <1>1 DEF EnergyInv, CallEnergyInv
<1>4. /\ q.from \in Int /\ q.to \in Int /\ q.from < q.to
      /\ q.width \in Nat \ {0} /\ q.offset \in Int
      /\ Needed(q.from, q.to, q.width) <= MaxBuckets
  BY <1>1, <1>3, RequestFacts
<1>5. RangeReadings(R, L, q.to) /\ \A r \in R : q.from <= r.time
  <2>1. StateTypes /\ R \in SUBSET Now
    BY DEF IInv
  <2> QED BY <1>2, <1>4, <2>1, NowFacts
<1> DEFINE b == B(L)
<1>6. /\ call' = None /\ answer'.op = "series"
      /\ answer'.data = [req |-> q, rows |-> R, last |-> L, buckets |-> b]
  BY <1>1, <1>2 DEF Reply
<1>7. b = Series(R, L, q.to, q.width, q.offset)
  OBVIOUS
<1> HIDE DEF R, q, b
<1> DEFINE d == [req |-> q, rows |-> R, last |-> L, buckets |-> b]
           all == Sums(R, L, R, q.to)
<1>8. ASSUME NEW f \in DOMAIN all PROVE SumOf(b, LAMBDA x : x.sums[f]) = all[f]
  <2>1. f \in Fields
    BY SumsAreTotals
  <2>2. Total([x \in b |-> x.sums[f]], b) = all[f]
    BY <1>5, <1>7, <2>1, BucketsAddUp
  <2> QED BY <2>2, SumFunctionTotal DEF SumOf
<1>9. ASSUME NEW x \in b PROVE \E r \in R : AveragePower(x.sums) <= r.cons
  <2> DEFINE S == Bucket(R, x.start, q.width, q.offset)
  <2>1. x.sums = Sums(R, L, S, q.to)
    BY <1>5, <1>7, SeriesFacts
  <2>2. \E r \in R : BucketOf(r.time, q.width, q.offset) = x.start
    BY <1>5, <1>7, SeriesFacts
  <2>3. S \in SUBSET R /\ S # {}
    BY <2>2 DEF Bucket
  <2> HIDE DEF S
  <2>4. \E r \in S : AveragePower(Sums(R, L, S, q.to)) <= r.cons
    BY <1>5, <2>3, AverageBelowHighest
  <2> QED BY <2>1, <2>3, <2>4
<1>10. Cardinality(b) <= MaxBuckets + 1
  <2>1. Cardinality(b) <= Needed(q.from, q.to, q.width) + 1
    BY <1>4, <1>5, <1>7, BucketsBounded
  <2>2. Needed(q.from, q.to, q.width) \in Nat
    BY <1>4, BucketRange
  <2>3. Cardinality(b) \in Nat
    BY <1>5, <1>7, SeriesFacts, FS_CardinalityType
  <2>4. MaxBuckets \in Nat
    BY EnergyAssumption
  <2> QED BY <1>4, <2>1, <2>2, <2>3, <2>4
<1>11. SeriesAddsUp'
  <2>1. d.rows = R /\ d.last = L /\ d.req = q /\ d.buckets = b /\ answer'.data = d
    BY <1>6
  <2> HIDE DEF d
  <2>2. AddsUp(d)
    BY <1>8, <1>9, <2>1 DEF AddsUp
  <2> QED BY <2>1, <2>2, SeriesAddsUpData
<1>12. SeriesBounded'
  BY <1>6, <1>10 DEF SeriesBounded
<1>13. SummarySound' /\ CallEnergyInv'
  BY <1>6 DEF SummarySound, EnergyIsPiecewise, FlowsBalance, PeakCoversSums, Answered,
     CallEnergyInv
<1> QED BY <1>11, <1>12, <1>13 DEF EnergyInv, SeriesSound

\* GetEnergySummary: the sums of the first statement, the peak of the second.
LEMMA SummaryEnergy == ASSUME IInv, EnergyInv, SummaryAnswered PROVE EnergyInv'
<1> DEFINE R == call.rows
           L == call.last
           q == call.req
           s == call.sums
           P == Peaks(Now)
<1>1. /\ call # None /\ call.op = "summary" /\ call.at = "peak"
      /\ Reply("ok", [req |-> q, rows |-> R, last |-> L, sums |-> s, peak |-> P])
  BY DEF SummaryAnswered
<1>2. /\ call.req \in Requests /\ Acceptable(call)
      /\ R \in SUBSET Now /\ L \in Orders(R) /\ s = Sums(R, L, R, q.to)
  BY <1>1 DEF EnergyInv, CallEnergyInv
<1>3. q.from \in Int /\ q.to \in Int
  BY <1>1, <1>2, RequestFacts
<1>4. /\ RangeReadings(R, L, q.to) /\ WellFormed(Now)
      /\ \A r \in R : q.from <= r.time
  <2>1. StateTypes
    BY DEF IInv
  <2> QED BY <1>2, <1>3, <2>1, NowFacts
<1>5. \A r \in R : \E p \in P : p.kw >= r.cons
  BY <1>2, <1>4, PeakFacts
<1>6. /\ call' = None /\ answer'.op = "summary"
      /\ answer'.data = [req |-> q, rows |-> R, last |-> L, sums |-> s, peak |-> P]
  BY <1>1 DEF Reply
<1> HIDE DEF R, L, q, s, P
<1>7. EnergyIsPiecewise'
  <2>1. \A f \in DOMAIN Reference(R, L, q.from, q.to) :
          Reference(R, L, q.from, q.to)[f] = s[f]
    BY <1>2, <1>3, <1>4, SumsArePiecewise
  <2> QED BY <1>6, <2>1 DEF EnergyIsPiecewise
<1>8. FlowsBalance'
  <2>1. /\ \A f \in DOMAIN s : s[f] >= 0
        /\ s.generated = s.solarHome + s.solarStorage + s.solarGrid
        /\ s.consumed = s.solarHome + s.storageHome + s.gridHome
        /\ s.charged = s.solarStorage + s.gridStorage
        /\ s.discharged = s.storageHome + s.storageGrid
        /\ SelfConsumption(s) \in 0..100
    BY <1>2, <1>4, SumsBalance
  <2> QED BY <1>6, <2>1 DEF FlowsBalance
<1>9. PeakCoversSums'
  BY <1>5, <1>6 DEF PeakCoversSums
<1>10. SeriesSound' /\ CallEnergyInv'
  BY <1>6 DEF SeriesSound, SeriesAddsUp, SeriesBounded, Answered, CallEnergyInv
<1> QED BY <1>7, <1>8, <1>9, <1>10 DEF EnergyInv, SummarySound

\* Every step keeps it.
LEMMA NextEnergy == IInv /\ EnergyInv /\ [Next]_vars => EnergyInv'
<1> SUFFICES ASSUME IInv, EnergyInv, [Next]_vars PROVE EnergyInv'
  OBVIOUS
<1>1. CASE Environment
  BY <1>1, EnvironmentEnergy
<1>2. CASE Client
  BY <1>2, ClientEnergy
<1>3. CASE Service
  BY <1>3, ListingEnergy, HouseEnergy, ReadSumsEnergy, SeriesEnergy, SummaryEnergy
     DEF Service
<1>4. CASE Failures
  BY <1>4, ListingEnergy, HouseEnergy DEF Failures
<1>5. CASE UNCHANGED vars
  <2>1. UNCHANGED <<call, answer, readings>>
    BY <1>5 DEF vars, dataVars
  <2>2. call # None => "op" \in DOMAIN call
    BY DEF IInv, CallInv
  <2> QED BY <2>1, <2>2, SameCall
<1> QED BY <1>1, <1>2, <1>3, <1>4, <1>5 DEF Next

\* No call has begun.
LEMMA InitEnergy == Init => EnergyInv
BY DEF Init, EnergyInv, CallEnergyInv, SummarySound, SeriesSound, EnergyIsPiecewise,
   FlowsBalance, PeakCoversSums, SeriesAddsUp, SeriesBounded, Answered

\* What a call for energy has in hand, and what the answers say, in every state.
THEOREM EnergyInvariant == Spec => []EnergyInv
<1>1. Init => EnergyInv
  BY InitEnergy
<1>2. IInv /\ EnergyInv /\ [Next]_vars => EnergyInv'
  BY NextEnergy
<1>3. Spec => []IInv
  BY InductiveInvariant
<1> QED BY <1>1, <1>2, <1>3, PTL DEF Spec

\* GetEnergySummary, for any readings, gaps, ties and range, and whatever arrives
\* between its two statements: the sums are those of the range read second by
\* second, energy is neither lost nor made, the self-consumption is a percentage,
\* and the peak is not below a consumption that the sums count.
THEOREM SummaryExact == Spec => []SummarySound
<1>1. EnergyInv => SummarySound
  BY DEF EnergyInv
<1> QED BY <1>1, EnergyInvariant, PTL

\* GetEnergySeries, for any readings, width and time zone: the buckets add up to
\* the summary of the same readings, none has an average above the highest
\* consumption, and there is at most one bucket more than MaxBuckets.
THEOREM SeriesExact == Spec => []SeriesSound
<1>1. EnergyInv => SeriesSound
  BY DEF EnergyInv
<1> QED BY <1>1, EnergyInvariant, PTL
=============================================================================
