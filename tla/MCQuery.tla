------------------------------- MODULE MCQuery -------------------------------
(* A small instance of Query for TLC.                                      *)
EXTENDS Query

CONSTANTS g1, g2

ThreeHouses == 1..3
TwoGrids    == [h \in ThreeHouses |-> IF h = 2 THEN g2 ELSE g1]

Reading(t, seq, solar, cons, net, assets) ==
  [time |-> t, seq |-> seq, solar |-> solar, cons |-> cons, net |-> net,
   assets |-> assets]

\* Readings before, in and after the ranges; two in one instant; a gap longer
\* than a reading counts; surplus with charging, deficit with discharging.
SomeReadings ==
  {Reading(1, 1, 1, 1, 0, {}),
   Reading(2, 2, 3, 1, 1, {[id |-> 1, power |-> 1]}),
   Reading(2, 3, 0, 2, -2, {}),
   Reading(4, 4, 1, 4, -1, {[id |-> 1, power |-> -2], [id |-> 2, power |-> -2]}),
   Reading(7, 5, 2, 1, 1, {[id |-> 1, power |-> 3]})}

\* Behaviours about houses and behaviours about the energy of one house.
HousesAndEnergy ==
  {[houses |-> ThreeHouses, readings |-> {},
    ops |-> {"list", "house", "latest"}],
   [houses |-> {1}, readings |-> SomeReadings, ops |-> {"series", "summary"}]}

SomePageSizes == {-1, 0, 1, 5}

Request(from, to, width, offset) ==
  [from |-> from, to |-> to, width |-> width, offset |-> offset]

\* Aligned and not, too long, backwards, too many buckets, a bad time zone, no
\* start, no width.
SomeRequests ==
  {Request(0, 6, 3, 0), Request(1, 5, 2, 0), Request(2, 8, 3, 1),
   Request(0, 9, 3, 0), Request(3, 3, 2, 0), Request(0, 8, 2, 0),
   Request(0, 6, 3, None), Request(None, 6, 3, 0), Request(0, 6, 0, 0)}
=============================================================================
