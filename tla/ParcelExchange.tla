--------------------------- MODULE ParcelExchange ---------------------------
(***************************************************************************)
(* One side writes a payload value into a MsgParcel with the type's        *)
(* Serialize impl; the parcel may be damaged on the way (a four-byte word  *)
(* overwritten, as by a peer of another version or a faulty service); the *)
(* other side reads it back with the type's Deserialize impl.  Both sides  *)
(* are the TypedValue codecs.                                              *)
(*                                                                         *)
(* The writer repeats with any value of any kind, so every kind, every     *)
(* input value and every HashMap order of its entries is exercised.        *)
(***************************************************************************)
EXTENDS TypedValue

CONSTANTS
    Kinds,      \* payload types exchanged
    Values,     \* Values[k]: the values of kind k the writer may send
    CorruptAt,  \* CorruptAt[k]: token positions of a w32 word that may be damaged
    BadWords    \* values a damaged word may take

VARIABLES
    kind,       \* the type of the payload in flight
    value,      \* the value the writer serialized
    parcel,     \* the parcel as the reader receives it
    corrupted,  \* whether a word of the parcel was overwritten
    decoded,    \* what the reader's Deserialize returned
    phase       \* "idle", "written" or "read"

vars == <<kind, value, parcel, corrupted, decoded, phase>>

\* Serialize: the parcels the writer can produce for v (one per HashMap
\* iteration order for maps).
Encodings(k, v) ==
    CASE k = "AssetStatus"        -> {EncStatus(v)}
      [] k = "CloudAsset"         -> {EncCloudAsset(v)}
      [] k = "CloudAssets"        -> {EncCloudAssets(v)}
      [] k = "FieldRaw"           -> {EncFieldRaw(v)}
      [] k = "ValueBucket"        -> EncValueBuckets(v)
      [] k = "SwitchStatus"       -> {EncSwitchStatus(v)}
      [] k = "Response"           -> {EncResponse(v)}
      [] k = "FieldType"          -> {EncFieldType(v)}
      [] k = "Field"              -> {EncField(v)}
      [] k = "OrderTable"         -> {EncOrderTable(v)}
      [] k = "Database"           -> {EncDatabase(v)}
      [] k = "SubscriptionResult" -> EncSubscriptionResults(v)
      [] k = "Databases"          -> {EncDatabases(v)}
      [] k = "Schema"             -> {EncSchema(v)}
      [] k = "AppInfo"            -> {EncAppInfo(v)}
      [] k = "AppInfos"           -> EncAppInfos(v)
      [] k = "ValueBuckets"       -> EncValueBucketVecs(v)
      [] k = "CloudData"          -> EncCloudData(v)
      [] k = "UnsubscriptionInfo" -> EncUnsubscriptionInfo(v)

\* `parcel.read::<T>()` from the start of the parcel.
Decode(k, p) ==
    CASE k = "AssetStatus"        -> DecStatus(p, 1)
      [] k = "CloudAsset"         -> DecCloudAsset(p, 1)
      [] k = "CloudAssets"        -> DecCloudAssets(p, 1)
      [] k = "FieldRaw"           -> DecFieldRaw(p, 1)
      [] k = "ValueBucket"        -> DecValueBucket(p, 1)
      [] k = "SwitchStatus"       -> DecSwitchStatus(p, 1)
      [] k = "Response"           -> DecResponse(p, 1)
      [] k = "FieldType"          -> DecFieldType(p, 1)
      [] k = "Field"              -> DecField(p, 1)
      [] k = "OrderTable"         -> DecOrderTable(p, 1)
      [] k = "Database"           -> DecDatabase(p, 1)
      [] k = "SubscriptionResult" -> DecSubscriptionResult(p, 1)
      [] k = "Databases"          -> DecDatabases(p, 1)
      [] k = "Schema"             -> DecSchema(p, 1)
      [] k = "AppInfo"            -> DecAppInfo(p, 1)
      [] k = "AppInfos"           -> DecAppInfos(p, 1)
      [] k = "ValueBuckets"       -> DecValueBuckets(p, 1)
      [] k = "CloudData"          -> DecCloudData(p, 1)
      [] k = "UnsubscriptionInfo" -> DecUnsubscriptionInfo(p, 1)

\* A token: a four-byte word holds an i32, a String16 its UTF-16 units.
IsToken(t) ==
    /\ t[1] \in {"w32", "w64", "f64", "str", "bytes"}
    /\ t[1] = "w32" => t[2] \in -2147483647 - 1 .. 2147483647
    /\ t[1] \in {"w64", "f64"} => t[2] \in Int
    /\ t[1] = "str" => t[2] \in Seq(0 .. 65535)
    /\ t[1] = "bytes" => t[2] \in Seq(0 .. 255)

TypeOK ==
    /\ kind \in Kinds
    /\ value \in Values[kind]
    /\ \A i \in DOMAIN parcel : IsToken(parcel[i])
    /\ corrupted \in BOOLEAN
    /\ DOMAIN decoded = {"ok", "val", "next"}
    /\ decoded.ok \in BOOLEAN /\ decoded.next \in Int
    /\ phase \in {"idle", "written", "read"}

Init ==
    /\ kind = CHOOSE k \in Kinds : TRUE
    /\ value = CHOOSE v \in Values[kind] : TRUE
    /\ parcel = <<>>
    /\ corrupted = FALSE
    /\ decoded = Failed
    /\ phase = "idle"

(***************************************************************************)
(* Actions                                                                 *)
(***************************************************************************)

\* `parcel.write(&v)` into a fresh MsgParcel.
Write(k, v, p) ==
    /\ phase \in {"idle", "read"}
    /\ kind' = k
    /\ value' = v
    /\ parcel' = p
    /\ corrupted' = FALSE
    /\ phase' = "written"
    /\ UNCHANGED decoded

\* A four-byte word of the parcel in flight is overwritten with w.
Corrupt(i, w) ==
    /\ phase = "written"
    /\ ~corrupted
    /\ i \in DOMAIN parcel
    /\ parcel[i][1] = "w32"
    /\ parcel' = [parcel EXCEPT ![i] = W32(w)]
    /\ corrupted' = TRUE
    /\ UNCHANGED <<kind, value, decoded, phase>>

\* `parcel.read::<T>()`.
Read ==
    /\ phase = "written"
    /\ decoded' = Decode(kind, parcel)
    /\ phase' = "read"
    /\ UNCHANGED <<kind, value, parcel, corrupted>>

Next ==
    \/ \E k \in Kinds : \E v \in Values[k] : \E p \in Encodings(k, v) : Write(k, v, p)
    \/ \E i \in CorruptAt[kind], w \in BadWords : Corrupt(i, w)
    \/ Read

Spec == Init /\ [][Next]_vars

(***************************************************************************)
(* Properties                                                              *)
(***************************************************************************)

\* Serialize then Deserialize of an undamaged parcel gives back the value
\* that was written, whatever order the HashMap entries were written in,
\* and consumes the whole parcel: writer and reader agree on every field's
\* position.
RoundTrip ==
    (phase = "read" /\ ~corrupted) => decoded = Ok(value, Len(parcel) + 1)

\* A parcel whose enum tag was overwritten with a code outside the type's
\* range is rejected with an error: no unknown tag is read as some variant.
MalformedRejected ==
    (phase = "read" /\ corrupted) => ~decoded.ok

\* Spec section 7: a malformed reply surfaces as an error, never as a
\* crash.  Deserialize never panics, whatever word of the parcel is damaged.
NoPanic ==
    phase = "read" => ~IsPanic(decoded)

=============================================================================
