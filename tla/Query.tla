------------------------------- MODULE Query -------------------------------
(***************************************************************************)
(* The query service behind IotService: paged listing of houses, single    *)
(* houses, latest readings and energy, each with the optional owner scope. *)
(* The tables change while a call is served: houses are registered, claims *)
(* on meters are approved or withdrawn, readings arrive.  Every statement  *)
(* is a step of its own and sees what is committed at that moment.         *)
(*                                                                         *)
(* Houses are numbers in the order of their IDs; 0 is the empty page       *)
(* token.  A behaviour has one call, since the service keeps nothing from  *)
(* one call to the next and the tables start in any state; a listing is    *)
(* the whole sequence of ListHouses calls from the empty token on.  Redis  *)
(* is external: MeterPipeline and HeartbeatLiveness model the keys.        *)
(***************************************************************************)
EXTENDS Energy, Sequences

CONSTANTS
  Users,            \* owners of meters
  Callers,          \* the users a call may be scoped to
  Grids,            \* the grids a listing may be restricted to
  GridOf,           \* the grid of a house
  Any,              \* no owner scope, no grid filter
  None,
  Worlds,           \* [houses, readings, ops]: what may come to exist, and the
                    \* calls a client may make
  PageSizes,        \* page sizes a client asks for
  Requests,         \* [from, to, width, offset]; None: missing or not valid
  DefaultPageSize,
  MaxPageSize,
  MaxChanges,       \* bound on changes of ownership
  MaxFaults         \* bound on failing reads

ASSUME QueryAssumption ==
  /\ MaxPageSize \in Nat \ {0}
  /\ DefaultPageSize \in 1..MaxPageSize
  /\ PageSizes \subseteq Int
  /\ MaxChanges \in Nat
  /\ MaxFaults \in Nat
  /\ Callers \subseteq Users
  /\ None \notin Users /\ Any \notin Users /\ Any \notin Grids
  /\ \A w \in Worlds : /\ w.houses \subseteq Nat \ {0} /\ IsFiniteSet(w.houses)
                        /\ WellFormed(w.readings)
  /\ \A q \in Requests : /\ {q.from, q.to, q.offset} \subseteq Int \cup {None}
                          /\ q.width \in Int

VARIABLES
  world,     \* what may come to exist in this behaviour
  houses,    \* iot_data.houses
  owner,     \* user of the APPROVED PRIMARY_OWNER claim on a house's meter
  readings,  \* meter_readings of the house the energy calls are about
  call,      \* the call being served, or None
  answer,    \* the last complete answer, or None
  changes,   \* changes of ownership left
  faults     \* failing reads left

dataVars == <<world, houses, owner, readings>>
vars == <<dataVars, call, answer, changes, faults>>

Fault == faults > 0 /\ faults' = faults - 1

\* The rows a filter selects: house_reader.go's houseSource and WHERE.
SelectedOf(H, O, c) ==
  {h \in H : /\ c.user = Any \/ O[h] = c.user
             /\ c.grid = Any \/ GridOf[h] = c.grid}

Selected(c) == SelectedOf(houses, owner, c)

Init ==
  /\ world \in Worlds
  /\ houses \in SUBSET world.houses
  /\ owner \in [world.houses -> Users \cup {None}]
  /\ readings = {}
  /\ call = None
  /\ answer = None
  /\ changes = MaxChanges
  /\ faults = MaxFaults

-----------------------------------------------------------------------------
(* The tables change                                                       *)

\* History kept with a call: what its filter selected all along, and at some
\* time, since it began.
Watch ==
  call' = IF call = None THEN None
          ELSE LET S == SelectedOf(houses', owner', call) IN
               [call EXCEPT !.always = @ \cap S, !.ever = @ \cup S]

RegisterHouse(h) ==
  /\ h \notin houses
  /\ houses' = houses \cup {h}
  /\ UNCHANGED <<world, owner, readings, answer, changes, faults>>
  /\ Watch

\* A claim is approved, or stops being so.
ChangeOwner(h) ==
  /\ changes > 0
  /\ changes' = changes - 1
  /\ \E u \in (Users \cup {None}) \ {owner[h]} :
       owner' = [owner EXCEPT ![h] = u]
  /\ UNCHANGED <<world, houses, readings, answer, faults>>
  /\ Watch

InsertReading(r) ==
  /\ r \notin readings
  /\ readings' = readings \cup {r}
  /\ UNCHANGED <<world, houses, owner, call, answer, changes, faults>>

\* A behaviour ends with its answer.
Environment ==
  /\ answer = None
  /\ \/ \E h \in world.houses : RegisterHouse(h) \/ ChangeOwner(h)
     \/ \E r \in world.readings : InsertReading(r)

-----------------------------------------------------------------------------
(* Calls and answers                                                       *)

\* The call c begins, with its history.
Begin(c) ==
  /\ call = None /\ answer = None
  /\ c.op \in world.ops
  /\ call' = [c EXCEPT !.always = Selected(c), !.ever = Selected(c)]
  /\ UNCHANGED <<dataVars, answer, changes, faults>>

\* ToGRPCError: the call ends with a code and, when it is "ok", with data.
Reply(code, data) ==
  /\ call' = None
  /\ answer' = [op |-> call.op, user |-> call.user, house |-> call.house,
                code |-> code, data |-> data,
                always |-> call.always, ever |-> call.ever]
  /\ UNCHANGED <<dataVars, changes>>

Refuse(code) == Reply(code, <<>>) /\ UNCHANGED faults

\* A store fails under the call, or its context ends.
StoreError(c) ==
  /\ call # None /\ call.at = c
  /\ Fault
  /\ \E code \in {"internal", "canceled"} : Reply(code, <<>>)

Goto(c) == call' = [call EXCEPT !.at = c]
Read    == UNCHANGED <<dataVars, answer, changes, faults>>

-----------------------------------------------------------------------------
(* ListHouses                                                              *)

\* pageSize: 0 means the default, too much means the maximum.
PageSize(n) ==
  IF n = 0 THEN DefaultPageSize
  ELSE IF n > MaxPageSize THEN MaxPageSize ELSE n

List(user, grid, size, token) ==
  Begin([op |-> "list", at |-> "page", user |-> user, grid |-> grid,
         house |-> None, size |-> size, after |-> token, page |-> <<>>,
         next |-> 0, got |-> <<>>, always |-> {}, ever |-> {}])

\* A negative page size, or a token that does not decode (None), is a
\* validation error, before any read.
Listable == call.size >= 0 /\ call.after # None

ListRefused ==
  /\ call # None /\ call.at = "page"
  /\ ~Listable
  /\ Refuse("invalid")

\* The first limit houses of the selected ones after the token, in order.
Rows(limit) ==
  LET S == {h \in Selected(call) : h > call.after}
      First(h) == Cardinality({g \in S : g <= h})
      n == Smaller(limit, Cardinality(S))
  IN [i \in 1..n |-> CHOOSE h \in S : First(h) = i]

\* Mutant of TokenOf: the token names the first house of the next page.
BugTokenAhead(rows, size) == IF Len(rows) > size THEN rows[size + 1] ELSE 0

\* The token names the last house of the page, if there is another page.
TokenOf(rows, size) == IF Len(rows) > size THEN rows[size] ELSE 0

\* listHousesSQL with one row more than the page.
ReadPage ==
  /\ call # None /\ call.at = "page" /\ Listable
  /\ LET size == PageSize(call.size)
         rows == Rows(size + 1) IN
       call' = [call EXCEPT !.at = "status", !.next = TokenOf(rows, size),
                            !.page = SubSeq(rows, 1, Smaller(size, Len(rows)))]
  /\ Read

\* withStatus for each row, then the answer; the client asks for the next page
\* while there is a token.
PageAnswered ==
  /\ call # None /\ call.op = "list" /\ call.at = "status"
  /\ IF call.next = 0
     THEN Reply("ok", call.got \o call.page) /\ UNCHANGED faults
     ELSE /\ call' = [call EXCEPT !.at = "page", !.after = call.next,
                                  !.got = call.got \o call.page, !.page = <<>>,
                                  !.next = 0]
          /\ Read

\* A read fails: the client sends the same token again.
PageFails ==
  /\ call # None /\ call.op = "list" /\ call.at \in {"page", "status"}
  /\ Listable
  /\ Fault
  /\ call' = [call EXCEPT !.at = "page", !.page = <<>>, !.next = 0]
  /\ UNCHANGED <<dataVars, answer, changes>>

-----------------------------------------------------------------------------
(* GetHouse, GetLatestReading, GetEnergySeries, GetEnergySummary           *)

HouseCall(op, user, h, req) ==
  Begin([op |-> op, at |-> "check", user |-> user, grid |-> Any, house |-> h,
         req |-> req, sums |-> None, rows |-> {}, last |-> {},
         always |-> {}, ever |-> {}])

\* requestRange: both times are there and valid.
RequestRange(q) == q.from # None /\ q.to # None

\* A missing house ID, a refused range, width or time zone end the call.
Acceptable(c) ==
  /\ c.house # None
  /\ c.op \in {"series", "summary"} =>
       RequestRange(c.req) /\ RangeOk(c.req.from, c.req.to)
  /\ c.op = "series" => /\ BucketsOk(c.req.from, c.req.to, c.req.width)
                        /\ c.req.offset # None

CheckRequest ==
  /\ call # None /\ call.at = "check"
  /\ IF Acceptable(call) THEN Goto("house") /\ Read ELSE Refuse("invalid")

\* Mutant of Owns: a house without an owner is everybody's.
BugUnownedIsFree(c) == c.user = Any \/ owner[c.house] \in {c.user, None}

Owns(c) == c.user = Any \/ owner[c.house] = c.user

\* Mutant of OwnedHouse: a missing house is asked for until there is one.
BugAskAgain ==
  /\ call # None /\ call.at = "house"
  /\ call.house \in houses /\ Owns(call)
  /\ Goto("data") /\ Read

\* ownedHouse: a house of someone else is reported like a missing one.
OwnedHouse ==
  /\ call # None /\ call.at = "house"
  /\ IF call.house \in houses /\ Owns(call) THEN Goto("data") /\ Read
     ELSE Refuse("notfound")

\* GetHouse: withStatus and the registered assets.
HouseAnswered ==
  /\ call # None /\ call.op = "house" /\ call.at = "data"
  /\ Reply("ok", {call.house})
  /\ UNCHANGED faults

\* GetLatestReading: the key is in Redis, or there is no reading yet.
LatestAnswered ==
  /\ call # None /\ call.op = "latest" /\ call.at = "data"
  /\ \/ Reply("ok", {call.house})
     \/ Reply("notfound", <<>>)
  /\ UNCHANGED faults

\* The readings of the range as a statement sees them.
Now == InRange(readings, call.req.from, call.req.to)

SeriesAnswered ==
  /\ call # None /\ call.op = "series" /\ call.at = "data"
  /\ \E L \in Orders(Now) :
       Reply("ok", [req |-> call.req, rows |-> Now, last |-> L, buckets |->
                     Series(Now, L, call.req.to, call.req.width,
                            call.req.offset)])
  /\ UNCHANGED faults

\* EnergySummary: the sums, and then the peak with a statement of its own.
ReadSums ==
  /\ call # None /\ call.op = "summary" /\ call.at = "data"
  /\ \E L \in Orders(Now) :
       call' = [call EXCEPT !.at = "peak", !.rows = Now, !.last = L,
                            !.sums = Sums(Now, L, Now, call.req.to)]
  /\ Read

SummaryAnswered ==
  /\ call # None /\ call.op = "summary" /\ call.at = "peak"
  /\ Reply("ok", [req |-> call.req, rows |-> call.rows, last |-> call.last,
                  sums |-> call.sums, peak |-> Peaks(Now)])
  /\ UNCHANGED faults

-----------------------------------------------------------------------------
Client ==
  \/ \E u \in Callers \cup {Any}, g \in Grids \cup {Any}, n \in PageSizes,
        token \in {0, None} : List(u, g, n, token)
  \/ \E u \in Callers \cup {Any}, h \in world.houses \cup {None} :
       \/ HouseCall("house", u, h, None)
       \/ HouseCall("latest", u, h, None)
       \/ \E q \in Requests :
            HouseCall("series", u, h, q) \/ HouseCall("summary", u, h, q)

Service ==
  \/ ListRefused \/ ReadPage \/ PageAnswered \/ CheckRequest \/ OwnedHouse
  \/ HouseAnswered \/ LatestAnswered \/ SeriesAnswered \/ ReadSums
  \/ SummaryAnswered

Failures == PageFails \/ \E c \in {"house", "data", "peak"} : StoreError(c)

Next == Environment \/ Client \/ Service \/ Failures

Spec == Init /\ [][Next]_vars

\* A served call goes on; nothing forces a client, a change or a failure.
FairSpec == Spec /\ WF_vars(Service)

-----------------------------------------------------------------------------
(* Properties                                                              *)

Answered(op) == answer # None /\ answer.op = op /\ answer.code = "ok"

\* The state components keep their types, and a page fits its size.
TypeOK ==
  /\ world \in Worlds
  /\ houses \subseteq world.houses
  /\ owner \in [world.houses -> Users \cup {None}]
  /\ readings \subseteq world.readings
  /\ changes \in 0..MaxChanges
  /\ faults \in 0..MaxFaults
  /\ call # None => /\ call.op \in {"list", "house", "latest", "series", "summary"}
                    /\ call.always \subseteq call.ever
                    /\ call.op = "list" => Len(call.page) <= MaxPageSize
  /\ answer # None =>
       answer.code \in {"ok", "invalid", "notfound", "internal", "canceled"}

\* ListHouses over all pages: whatever is registered, claimed or withdrawn in
\* between and however often a page is asked for again, a house the filter
\* selects all along is listed, none is listed twice, and the order holds.
ListingExact ==
  Answered("list") =>
    LET got == answer.data IN
    /\ \A i, j \in DOMAIN got : i < j => got[i] < got[j]
    /\ answer.always \subseteq {got[i] : i \in DOMAIN got}

\* The state is well typed, no page is above the maximum, and listings are exact.
ListingInv == TypeOK /\ ListingExact

\* The owner scope: a call with a user gets a house, its readings or its
\* energy only if the house was that user's at some time while it was served;
\* and a house that was the user's all along is never reported missing, except
\* for a latest reading that does not exist.
ScopeKept ==
  (answer # None /\ answer.user # Any) =>
    /\ (answer.op = "list" /\ answer.code = "ok")
         => {answer.data[i] : i \in DOMAIN answer.data} \subseteq answer.ever
    /\ (answer.op # "list" /\ answer.code = "ok") => answer.house \in answer.ever
    /\ (answer.op # "latest" /\ answer.code = "notfound")
         => answer.house \notin answer.always

\* The sums of energySummarySQL are what reading the range second by second
\* gives: each second counts for the reading in force, once, and not at all
\* more than MaxReadingSeconds after it, for gaps, ties and both range ends.
EnergyIsPiecewise ==
  Answered("summary") =>
    LET d == answer.data
        ref == Reference(d.rows, d.last, d.req.from, d.req.to) IN
    \A f \in DOMAIN ref : ref[f] = d.sums[f]

\* The buckets of a series add up to the summary of the same readings, also
\* when a reading reaches into the next bucket, and no bucket's average
\* consumption is above the highest one read.
SeriesAddsUp ==
  Answered("series") =>
    LET d == answer.data
        all == Sums(d.rows, d.last, d.rows, d.req.to) IN
    /\ \A f \in DOMAIN all : SumOf(d.buckets, LAMBDA b : b.sums[f]) = all[f]
    /\ \A b \in d.buckets : \E r \in d.rows : AveragePower(b.sums) <= r.cons

\* Where the energy goes: no flow is negative, what is generated, consumed,
\* charged and discharged is the sum of its flows, and the self-consumption
\* is a percentage.
FlowsBalance ==
  Answered("summary") =>
    LET s == answer.data.sums IN
    /\ \A f \in DOMAIN s : s[f] >= 0
    /\ s.generated = s.solarHome + s.solarStorage + s.solarGrid
    /\ s.consumed = s.solarHome + s.storageHome + s.gridHome
    /\ s.charged = s.solarStorage + s.gridStorage
    /\ s.discharged = s.storageHome + s.storageGrid
    /\ SelfConsumption(s) \in 0..100

\* The two statements of EnergySummary see different readings, but the peak is
\* never below a consumption the sums count, and there is one if they count any.
PeakCoversSums ==
  Answered("summary") =>
    \A r \in answer.data.rows : \E p \in answer.data.peak : p.kw >= r.cons

\* A summary is right in itself: the sums, the flows and the peak, each by its
\* own measure, whatever readings arrive between its two statements.
SummarySound == EnergyIsPiecewise /\ FlowsBalance /\ PeakCoversSums

\* A series never has more buckets than MaxBuckets, and one more when the start
\* of the range is not aligned with the buckets of the time zone.
SeriesBounded ==
  Answered("series") => Cardinality(answer.data.buckets) <= MaxBuckets + 1

\* A series is right in itself: it adds up, and its length is bounded.
SeriesSound == SeriesAddsUp /\ SeriesBounded

\* Every call is answered and every listing comes to its last page, although
\* houses keep being registered behind and ahead of the token.
CallsEnd == call # None ~> call = None
=============================================================================
