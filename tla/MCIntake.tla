------------------------------- MODULE MCIntake -------------------------------
(* A small instance of Intake for TLC.                                     *)
EXTENDS Intake

\* IDs.  Lengths at the limits: grid IDs 2, asset IDs 2, house numbers 2.
Grid(name, len, alnum) == [name |-> name, len |-> len, alnum |-> alnum]
G1 == Grid("a", 1, TRUE)
G2 == Grid("b", 2, TRUE)
House(g, num, digits, shape) ==
  [grid |-> g, num |-> num, digits |-> digits, shape |-> shape]
H1 == House(G1, 1, 1, TRUE)
H2 == House(G2, 2, 2, TRUE)
Meter(h) == [house |-> h]
Asset(name, len, chars) == [name |-> name, len |-> len, chars |-> chars]
A1 == Asset("x", 1, TRUE)
A2 == Asset("y", 2, TRUE)

\* Entries of storage_assets and flexible_assets.
Storage(id, type, soc, power, capacity, plugged) ==
  [id |-> id, type |-> type, soc |-> soc, power |-> power,
   capacity |-> capacity, plugged |-> plugged]
Flexible(id, type, capacity, charge, discharge, v2g) ==
  [id |-> id, type |-> type, capacity |-> capacity, charge |-> charge,
   discharge |-> discharge, v2g |-> v2g]

OneStorage ==
  {Storage(id, type, soc, power, capacity, plugged) :
     id \in {A1, Asset("z", 3, TRUE), Asset("x", 1, FALSE), None},
     type \in {"bess", "ev", "pump"}, soc \in {None, -1, 0, 100, 101},
     power \in {None, -5}, capacity \in {0, 1}, plugged \in {None, FALSE}}
OneFlexible ==
  {Flexible(id, type, capacity, charge, discharge, v2g) :
     id \in {A1, Asset("z", 3, TRUE), None}, type \in {"bess", "ev", "pump"},
     capacity \in {0, 1}, charge \in {None, -1, 0}, discharge \in {None, -1, 7},
     v2g \in {None, TRUE}}

BessStorage(id)  == Storage(id, "bess", 50, 1, 1, None)
EvStorage(id)    == Storage(id, "ev", 50, 1, 1, FALSE)
BessFlexible(id) == Flexible(id, "bess", 1, 1, 1, None)

\* Valid bodies, and bodies that differ from one in a field or two.
MeterBody(g, h, t) ==
  [schema |-> "1.0", grid |-> g, house |-> h, meter |-> Meter(h),
   class |-> "consumer", time |-> t, seq |-> 0, solar |-> 0, cons |-> 1,
   net |-> -1, assets |-> <<>>, irradiance |-> None, cloud |-> None]
BeatBody(g, h) ==
  [schema |-> "1.0", grid |-> g, house |-> h, meter |-> Meter(h),
   class |-> "consumer", status |-> "online", rated |-> 0, assets |-> <<>>]

IdentityFields ==
  [schema : {"2.0", None}] \cup
  [grid : {Grid("a", 3, TRUE), Grid("A", 1, FALSE), G2, None}] \cup
  [house : {House(G1, 123, 3, TRUE), House(G1, 1, 1, FALSE), H2, None}] \cup
  [meter : {Meter(H2), None}] \cup [class : {"", "factory", "commercial"}]
MeterFields ==
  IdentityFields \cup [time : {None, -4, 2}] \cup [seq : {None, -1, 3}] \cup
  [solar : {None, -1, 2}] \cup [cons : {None, -1}] \cup [net : {None, 3}] \cup
  [irradiance : {-1, 0}] \cup [cloud : {-1, 0, 100, 101}] \cup
  [assets : {<<BessStorage(A1), EvStorage(A2)>>,
             <<BessStorage(A1), EvStorage(A1)>>}]
BeatFields ==
  IdentityFields \cup [status : {"", "offline"}] \cup [rated : {None, -1, 2}] \cup
  [assets : {<<BessFlexible(A1), BessFlexible(A2)>>,
             <<BessFlexible(A1), BessFlexible(A1)>>}]

With(b, d) == [f \in DOMAIN b |-> IF f \in DOMAIN d THEN d[f] ELSE b[f]]

Rec(topic, key, body) == [topic |-> topic, size |-> 1, key |-> key, body |-> body]

M1 == MeterBody(G1, H1, 0)
B1 == BeatBody(G1, H1)

\* One record of any of these.
AnyRecord ==
  {Rec("meter", None, With(With(M1, d), e)) : d, e \in MeterFields} \cup
  {Rec("heartbeat", None, With(With(B1, d), e)) : d, e \in BeatFields} \cup
  {Rec("meter", None, With(M1, [assets |-> <<a>>])) : a \in OneStorage} \cup
  {Rec("heartbeat", None, With(B1, [assets |-> <<a>>])) : a \in OneFlexible} \cup
  {Rec("meter", k, M1) : k \in {H1, H2, [grid |-> G1, house |-> H1],
                                [grid |-> G2, house |-> H1]}} \cup
  {[topic |-> t, size |-> 9, key |-> None, body |-> M1] : t \in {"meter"}} \cup
  {Rec(t, None, None) : t \in {"meter", "heartbeat"}}

\* Files for register-houses.
Row(g, h, m, class) == [grid |-> g, house |-> h, meter |-> m, class |-> class]
E(g, h, m, class, rated) ==
  [grid |-> g, house |-> h, meter |-> m, class |-> class, rated |-> rated]
E1 == E(G1, H1, Meter(H1), "consumer", None)
E2 == E(G2, H2, Meter(H2), "consumer", 1)
OtherClass == E(G1, H1, Meter(H1), "commercial", None)
WrongMeter == E(G2, H2, Meter(H1), "consumer", None)
BadRating  == E(G1, H1, Meter(H1), "consumer", -1)

Files ==
  {<<E1>>, <<E1, E2>>, <<E2, E1, E2>>, <<OtherClass, E2>>, <<E1, OtherClass>>,
   <<E1, WrongMeter>>, <<BadRating, E1, E2>>, <<WrongMeter>>, <<>>,
   <<E1, E1, E1, E1>>}

Legacy == {Row(G1, H1, None, "consumer")}

\* Every kind of record, everything provisioned; two commands with any files;
\* a reading and a heartbeat that come before their grid and house; a reading
\* whose stores fail until its retries are exhausted;
\* a grid that comes and goes beside a reading, a heartbeat and a registration.
AllScenarios ==
  {[log |-> <<r>>, files |-> <<>>, grids |-> {G1, G2}, moving |-> {},
    houses |-> {Row(G1, H1, Meter(H1), "consumer")},
    until |-> 0, replays |-> 0, faults |-> 0] : r \in AnyRecord} \cup
  {[log |-> <<>>, files |-> <<f, g>>, grids |-> {G1}, moving |-> {G2},
    houses |-> old, until |-> 0, replays |-> 0, faults |-> 1] :
     f \in Files, g \in {<<OtherClass, E2>>, <<E1, E2>>}, old \in {{}, Legacy}} \cup
  {[log |-> <<Rec("meter", H2, MeterBody(G2, H2, 0)), Rec("heartbeat", None, B1)>>,
    files |-> <<<<E1>>>>, grids |-> {G1}, moving |-> {G2}, houses |-> {},
    until |-> 0, replays |-> 1, faults |-> 1],
   [log |-> <<Rec("meter", H1, M1)>>, files |-> <<>>, grids |-> {G1},
    moving |-> {}, houses |-> {}, until |-> 2, replays |-> 2, faults |-> 3],
   [log |-> <<Rec("meter", H2, MeterBody(G2, H2, 0)),
              Rec("heartbeat", None, BeatBody(G2, H2))>>,
    files |-> <<<<E2>>>>, grids |-> {G2}, moving |-> {G2}, houses |-> {},
    until |-> 0, replays |-> 2, faults |-> 1]}
=============================================================================
