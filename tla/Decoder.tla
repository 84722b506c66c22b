------------------------------ MODULE Decoder ------------------------------
(***************************************************************************)
(* decoder.go and the checks of options.go: which records are accepted.    *)
(* Pure operators.  Every check fails with the same error, a validation    *)
(* error, so their order does not matter and each decoder is a conjunction.*)
(*                                                                         *)
(* IDs are abstracted to what the checks look at:                          *)
(*   grid ID   [name, len, alnum]            alnum: only a-z and 0-9       *)
(*   house ID  [grid, num, digits, shape]    "{grid}-house{num}", num with *)
(*             so many digits; shape: "house" and digits only              *)
(*   meter ID  [house]                       "meter-" and a house ID       *)
(*   asset ID  [name, len, chars]            chars: only permitted ones    *)
(* The empty ID and a missing field are None.  A number on the wire is     *)
(* finite (JSON has no other; one that overflows does not parse).  A       *)
(* missing "readings" or "meta" object is the same as its fields missing.  *)
(***************************************************************************)
EXTENDS Integers, Sequences

CONSTANTS
  None,             \* missing
  MaxGridIDLen,     \* maxGridIDLen
  MaxAssetIDLen,    \* maxAssetIDLen
  MaxHouseNum,      \* maxHouseNum
  MaxSkewFuture,    \* maxClockSkewFuture
  MaxSkewPast,      \* maxClockSkewPast
  MaxRecordBytes,   \* InputLimits.MaxRecordBytes
  EnforceHouseKey   \* InputLimits.EnforceHouseKey

ASSUME DecoderAssumption ==
  /\ {MaxGridIDLen, MaxAssetIDLen, MaxHouseNum} \subseteq Nat
  /\ {MaxSkewFuture, MaxSkewPast, MaxRecordBytes} \subseteq Nat
  /\ EnforceHouseKey \in BOOLEAN
  /\ None # "1.0"

DeviceClasses == {"consumer", "residential_prosumer", "commercial"}
AssetTypes    == {"bess", "ev"}

-----------------------------------------------------------------------------
(* Field validators                                                        *)

ValidateGridID(g) == g # None /\ g.len \in 1..MaxGridIDLen /\ g.alnum

ValidateHouseID(h, g) ==
  /\ h # None
  /\ h.grid = g
  /\ h.shape
  /\ h.digits \in 1..MaxHouseNum

ValidateMeterID(m, h) == m # None /\ m.house = h

ValidateAssetID(a) == a # None /\ a.len \in 1..MaxAssetIDLen /\ a.chars

Identity(x) == [grid |-> x.grid, house |-> x.house, meter |-> x.meter,
                class |-> x.class]

\* The identity checks both decoders make.
IdentityAccepted(x) ==
  /\ ValidateGridID(x.grid)
  /\ ValidateHouseID(x.house, x.grid)
  /\ ValidateMeterID(x.meter, x.house)
  /\ x.class \in DeviceClasses

\* The identity checks of register-houses.
ValidateHouseIdentity(x) ==
  /\ ValidateGridID(x.grid)
  /\ ValidateHouseID(x.house, x.grid)
  /\ ValidateMeterID(x.meter, x.house)
  /\ x.class \in DeviceClasses

\* Mutant of ValidateCapabilityField: the field may be left out or given.
BugOptional(type, present) == TRUE

\* The EV-only field is present if and only if the asset is an EV.
ValidateCapabilityField(type, present) == present = (type = "ev")

ValidateClockSkew(t, now) ==
  t <= now + MaxSkewFuture /\ t >= now - MaxSkewPast

RequireFinite(v)            == v # None
RequireNonNegative(v)       == v # None /\ v >= 0
RequirePercent(v)           == v # None /\ v \in 0..100
OptionalNonNegative(v)      == v = None \/ RequireNonNegative(v)
OptionalPercent(v)          == v = None \/ RequirePercent(v)
UniqueAssetIDs(assets)      ==
  \A i, j \in DOMAIN assets : assets[i].id = assets[j].id => i = j

-----------------------------------------------------------------------------
(* Decoders.  A body is None when the record has no value or does not      *)
(* parse.                                                                  *)

DecodeStorageAssets(assets) ==
  /\ UniqueAssetIDs(assets)
  /\ \A i \in DOMAIN assets : LET a == assets[i] IN
       /\ ValidateAssetID(a.id)
       /\ a.type \in AssetTypes
       /\ RequirePercent(a.soc)
       /\ RequireFinite(a.power)
       /\ a.capacity > 0
       /\ ValidateCapabilityField(a.type, a.plugged # None)

DecodeMeterReading(b, now) ==
  /\ b # None
  /\ b.schema = "1.0"
  /\ IdentityAccepted(b)
  /\ b.time # None
  /\ ValidateClockSkew(b.time, now)
  /\ RequireNonNegative(b.seq)
  /\ RequireNonNegative(b.solar)
  /\ RequireNonNegative(b.cons)
  /\ RequireFinite(b.net)
  /\ DecodeStorageAssets(b.assets)
  /\ OptionalNonNegative(b.irradiance)
  /\ OptionalPercent(b.cloud)

DecodeFlexibleAssets(assets) ==
  /\ UniqueAssetIDs(assets)
  /\ \A i \in DOMAIN assets : LET a == assets[i] IN
       /\ ValidateAssetID(a.id)
       /\ a.type \in AssetTypes
       /\ a.capacity > 0
       /\ RequireNonNegative(a.charge)
       /\ RequireNonNegative(a.discharge)
       /\ ValidateCapabilityField(a.type, a.v2g # None)

DecodeHeartbeat(b) ==
  /\ b # None
  /\ b.schema = "1.0"
  /\ IdentityAccepted(b)
  /\ b.status = "online"
  /\ RequireNonNegative(b.rated)
  /\ DecodeFlexibleAssets(b.assets)

-----------------------------------------------------------------------------
(* InputLimits                                                             *)

CheckSize(rec) == MaxRecordBytes = 0 \/ rec.size <= MaxRecordBytes

\* A key is None, a house ID, or the MQTT topic as [grid, house].
CheckKey(key, b) ==
  ~EnforceHouseKey
    \/ key \in {None, b.house, [grid |-> b.grid, house |-> b.house]}

\* Step 1 of both handlers.
Decodes(rec, now) ==
  /\ CheckSize(rec)
  /\ IF rec.topic = "meter" THEN DecodeMeterReading(rec.body, now)
     ELSE DecodeHeartbeat(rec.body)
  /\ CheckKey(rec.key, rec.body)

-----------------------------------------------------------------------------
(* Migrations 00002, 00005 and 00009: NOT NULL, CHECK and primary keys.    *)

\* NOT NULL and CHECK (v >= 0).
NotNegative(v) == v # None /\ v >= 0

MeterRowFits(b) ==
  /\ None \notin {b.schema, b.grid, b.house, b.meter, b.time, b.net}
  /\ b.class \in DeviceClasses
  /\ NotNegative(b.seq) /\ NotNegative(b.solar) /\ NotNegative(b.cons)
  /\ b.irradiance # None => b.irradiance >= 0
  /\ b.cloud # None => b.cloud \in 0..100

StorageRowsFit(assets) ==
  /\ \A i \in DOMAIN assets : LET a == assets[i] IN
       /\ a.id # None /\ a.type \in AssetTypes /\ a.power # None
       /\ a.soc # None /\ a.soc \in 0..100
       /\ a.capacity > 0
       /\ a.plugged # None => a.type = "ev"
  /\ \A i, j \in DOMAIN assets : i # j => assets[i].id # assets[j].id

AssetRowsFit(assets) ==
  /\ \A i \in DOMAIN assets : LET a == assets[i] IN
       /\ a.id # None /\ a.type \in AssetTypes
       /\ a.capacity > 0
       /\ NotNegative(a.charge) /\ NotNegative(a.discharge)
       /\ a.v2g # None => a.type = "ev"
  /\ \A i, j \in DOMAIN assets : i # j => assets[i].id # assets[j].id

RowsFit(rec) ==
  IF rec.topic = "meter"
  THEN MeterRowFits(rec.body) /\ StorageRowsFit(rec.body.assets)
  ELSE AssetRowsFit(rec.body.assets)
=============================================================================
