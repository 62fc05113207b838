---------------------------- MODULE TypedValue ----------------------------
(***************************************************************************)
(* The Serialize / Deserialize impls of ipc_conn's payload types           *)
(* (connect.rs, asset.rs) over the WireCodec primitives: AssetStatus,      *)
(* CloudAsset, CloudAssets, FieldRaw, ValueBucket, SwitchStatus, Response, *)
(* FieldType, Field, OrderTable, Database.                                 *)
(*                                                                         *)
(* Values are records; a FieldRaw is [tag, val] with tag the variant name. *)
(***************************************************************************)
EXTENDS WireCodec

(***************************************************************************)
(* AssetStatus                                                             *)
(***************************************************************************)

AssetStatuses == {"Normal", "Insert", "Update", "Delete", "Abnormal",
                  "Downloading"}

EncStatus(s) ==
    <<W32(CASE s = "Normal" -> 0 [] s = "Insert" -> 1 [] s = "Update" -> 2
            [] s = "Delete" -> 3 [] s = "Abnormal" -> 4 [] s = "Downloading" -> 5)>>

DecStatus(p, i) ==
    LET r == ReadW32(p, i)
        c == r.val
    IN IF r.ok /\ c \in 0 .. 5
         THEN Ok(<<"Normal", "Insert", "Update", "Delete", "Abnormal",
                   "Downloading">>[c + 1], r.next)
         ELSE Failed

(***************************************************************************)
(* CloudAsset: eight String16 and the status, in wire order                *)
(***************************************************************************)

\* Mutant: uri and sub_path written in swapped order.
EncCloudAssetSwapped(a) ==
    <<Str(a.asset_name), Str(a.sub_path), Str(a.uri), Str(a.create_time),
      Str(a.modify_time), Str(a.size)>> \o EncStatus(a.status)
    \o <<Str(a.asset_id), Str(a.hash)>>

EncCloudAsset(a) ==
    <<Str(a.asset_name), Str(a.uri), Str(a.sub_path), Str(a.create_time),
      Str(a.modify_time), Str(a.size)>> \o EncStatus(a.status)
    \o <<Str(a.asset_id), Str(a.hash)>>

DecCloudAsset(p, i) ==
    LET name == ReadStr(p, i)
        uri == ReadStr(p, name.next)
        sub == ReadStr(p, uri.next)
        ct == ReadStr(p, sub.next)
        mt == ReadStr(p, ct.next)
        size == ReadStr(p, mt.next)
        st == DecStatus(p, size.next)
        id == ReadStr(p, st.next)
        hash == ReadStr(p, id.next)
    IN IF /\ name.ok /\ uri.ok /\ sub.ok /\ ct.ok /\ mt.ok /\ size.ok
          /\ st.ok /\ id.ok /\ hash.ok
         THEN Ok([asset_id |-> id.val, asset_name |-> name.val,
                  hash |-> hash.val, uri |-> uri.val, sub_path |-> sub.val,
                  create_time |-> ct.val, modify_time |-> mt.val,
                  size |-> size.val, status |-> st.val], hash.next)
         ELSE Failed

EncCloudAssets(s) == EncVec(s, EncCloudAsset)

DecCloudAssets(p, i) == DecVec(p, i, DecCloudAsset)

(***************************************************************************)
(* FieldRaw: a u32 tag, then the payload of that variant                   *)
(***************************************************************************)

\* Mutant: Text is written from the String's code points, without the
\* String16::new conversion to UTF-16 units.
EncFieldRawNoString16(v) ==
    CASE v.tag = "Null"   -> <<W32(0)>>
      [] v.tag = "Number" -> <<W32(1), W64(v.val)>>
      [] v.tag = "Real"   -> <<W32(2), F64(v.val)>>
      [] v.tag = "Text"   -> <<W32(3), <<"str", v.val>> >>
      [] v.tag = "Bool"   -> <<W32(4), WBool(v.val)>>
      [] v.tag = "Blob"   -> <<W32(5), Bytes(v.val)>>
      [] v.tag = "Asset"  -> <<W32(6)>> \o EncCloudAsset(v.val)
      [] v.tag = "Assets" -> <<W32(7)>> \o EncCloudAssets(v.val)

EncFieldRaw(v) ==
    CASE v.tag = "Null"   -> <<W32(0)>>
      [] v.tag = "Number" -> <<W32(1), W64(v.val)>>
      [] v.tag = "Real"   -> <<W32(2), F64(v.val)>>
      [] v.tag = "Text"   -> <<W32(3), Str(v.val)>>
      [] v.tag = "Bool"   -> <<W32(4), WBool(v.val)>>
      [] v.tag = "Blob"   -> <<W32(5), Bytes(v.val)>>
      [] v.tag = "Asset"  -> <<W32(6)>> \o EncCloudAsset(v.val)
      [] v.tag = "Assets" -> <<W32(7)>> \o EncCloudAssets(v.val)

\* The FieldRaw variant `tag` around the payload read r.
Variant(tag, r) == IF r.ok THEN Ok([tag |-> tag, val |-> r.val], r.next) ELSE Failed

\* Mutant: an unknown tag decodes as Null instead of failing.
DecFieldRawLenient(p, i) ==
    LET t == ReadW32(p, i)
        j == t.next
    IN IF ~t.ok THEN Failed
       ELSE CASE t.val = 1 -> Variant("Number", ReadW64(p, j))
              [] t.val = 2 -> Variant("Real", ReadF64(p, j))
              [] t.val = 3 -> Variant("Text", ReadStr(p, j))
              [] t.val = 4 -> Variant("Bool", ReadBool(p, j))
              [] t.val = 5 -> Variant("Blob", ReadBytes(p, j))
              [] t.val = 6 -> Variant("Asset", DecCloudAsset(p, j))
              [] t.val = 7 -> Variant("Assets", DecCloudAssets(p, j))
              [] OTHER     -> Ok([tag |-> "Null", val |-> <<>>], j)

DecFieldRaw(p, i) ==
    LET t == ReadW32(p, i)
        j == t.next
    IN IF ~t.ok THEN Failed
       ELSE CASE t.val = 0 -> Ok([tag |-> "Null", val |-> <<>>], j)
              [] t.val = 1 -> Variant("Number", ReadW64(p, j))
              [] t.val = 2 -> Variant("Real", ReadF64(p, j))
              [] t.val = 3 -> Variant("Text", ReadStr(p, j))
              [] t.val = 4 -> Variant("Bool", ReadBool(p, j))
              [] t.val = 5 -> Variant("Blob", ReadBytes(p, j))
              [] t.val = 6 -> Variant("Asset", DecCloudAsset(p, j))
              [] t.val = 7 -> Variant("Assets", DecCloudAssets(p, j))
              [] OTHER     -> Failed

\* ValueBucket: HashMap<String, FieldRaw>.
EncValueBuckets(m) == EncMaps(m, EncFieldRaw)

DecValueBucket(p, i) == DecMap(p, i, DecFieldRaw)

(***************************************************************************)
(* SwitchStatus and Response                                               *)
(***************************************************************************)

EncSwitchStatus(s) ==
    <<W32(CASE s = "Close" -> 0 [] s = "Open" -> 1 [] s = "NotEnable" -> 2)>>

DecSwitchStatus(p, i) ==
    LET r == ReadW32(p, i)
    IN IF r.ok /\ r.val \in 0 .. 2
         THEN Ok(<<"Close", "Open", "NotEnable">>[r.val + 1], r.next)
         ELSE Failed

EncResponse(r) == <<W64(r.time), Str(r.device_name), Str(r.app_id)>>

DecResponse(p, i) ==
    LET t == ReadW64(p, i)
        d == ReadStr(p, t.next)
        a == ReadStr(p, d.next)
    IN IF t.ok /\ d.ok /\ a.ok
         THEN Ok([time |-> t.val, device_name |-> d.val, app_id |-> a.val], a.next)
         ELSE Failed

(***************************************************************************)
(* Schema parts: FieldType, Field, OrderTable, Database                    *)
(***************************************************************************)

FieldTypes == <<"Null", "Number", "Real", "Text", "Bool", "Blob", "Asset",
                "Assets">>

\* From<&FieldType> for u8: the index of the type in FieldTypes, from 0.
FieldTypeCode(t) == CHOOSE c \in 0 .. 7 : FieldTypes[c + 1] = t

\* FieldType is written as a u32 code and read back as an i32 in 0 .. 7.
EncFieldType(t) == <<W32(FieldTypeCode(t))>>

DecFieldType(p, i) ==
    LET r == ReadW32(p, i)
    IN IF r.ok /\ r.val \in 0 .. 7 THEN Ok(FieldTypes[r.val + 1], r.next)
                                  ELSE Failed

EncField(f) ==
    <<Str(f.alias), Str(f.col_name)>> \o EncFieldType(f.typ)
    \o <<WBool(f.primary), WBool(f.nullable)>>

\* Field::deserialize reads the first string into col_name and the second
\* into alias (`cloud_name`).
DecField(p, i) ==
    LET col == ReadStr(p, i)
        cloud == ReadStr(p, col.next)
        typ == DecFieldType(p, cloud.next)
        prim == ReadBool(p, typ.next)
        null == ReadBool(p, prim.next)
    IN IF col.ok /\ cloud.ok /\ typ.ok /\ prim.ok /\ null.ok
         THEN Ok([col_name |-> col.val, alias |-> cloud.val, typ |-> typ.val,
                  primary |-> prim.val, nullable |-> null.val], null.next)
         ELSE Failed

EncOrderTable(t) ==
    <<Str(t.alias), Str(t.table_name)>> \o EncVec(t.fields, EncField)

DecOrderTable(p, i) ==
    LET a == ReadStr(p, i)
        n == ReadStr(p, a.next)
        fs == DecVec(p, n.next, DecField)
    IN IF a.ok /\ n.ok /\ fs.ok
         THEN Ok([alias |-> a.val, table_name |-> n.val, fields |-> fs.val], fs.next)
         ELSE Failed

\* SchemaOrderTables: Vec<OrderTable>.
EncSchemaOrderTables(s) == EncVec(s, EncOrderTable)

DecSchemaOrderTables(p, i) == DecVec(p, i, DecOrderTable)

EncDatabase(d) ==
    <<Str(d.alias), Str(d.name)>> \o EncSchemaOrderTables(d.tables)

DecDatabase(p, i) ==
    LET a == ReadStr(p, i)
        n == ReadStr(p, a.next)
        ts == DecSchemaOrderTables(p, n.next)
    IN IF a.ok /\ n.ok /\ ts.ok
         THEN Ok([alias |-> a.val, name |-> n.val, tables |-> ts.val], ts.next)
         ELSE Failed

\* Databases: Vec<Database>.
EncDatabases(s) == EncVec(s, EncDatabase)

DecDatabases(p, i) == DecVec(p, i, DecDatabase)

\* Schema as the service writes it (Schema has no Serialize of its own):
\* version, bundle name, databases, the order Schema::deserialize reads.
EncSchema(sc) ==
    <<W32(sc.version), Str(sc.bundle_name)>> \o EncDatabases(sc.databases)

DecSchema(p, i) ==
    LET v == ReadW32(p, i)
        b == ReadStr(p, v.next)
        d == DecDatabases(p, b.next)
    IN IF v.ok /\ b.ok /\ d.ok
         THEN Ok([version |-> v.val, bundle_name |-> b.val, databases |-> d.val],
                 d.next)
         ELSE Failed

(***************************************************************************)
(* Decode-only replies: AppInfo, AppInfos, ValueBuckets, CloudData         *)
(***************************************************************************)

\* AppInfo as the service writes it: app id, bundle name, the cloud switch
\* as an i32 word, instance id.
EncAppInfo(a) ==
    <<Str(a.app_id), Str(a.bundle_name), WBool(a.cloud_switch), W32(a.instance_id)>>

\* The cloud switch is read as an i32 and compared with 0.
DecAppInfo(p, i) ==
    LET id == ReadStr(p, i)
        bn == ReadStr(p, id.next)
        sw == ReadW32(p, bn.next)
        in == ReadW32(p, sw.next)
    IN IF id.ok /\ bn.ok /\ sw.ok /\ in.ok
         THEN Ok([app_id |-> id.val, bundle_name |-> bn.val,
                  cloud_switch |-> sw.val # 0, instance_id |-> in.val], in.next)
         ELSE Failed

\* AppInfos: HashMap<String, AppInfo>.
EncAppInfos(m) == EncMaps(m, EncAppInfo)

DecAppInfos(p, i) == DecMap(p, i, DecAppInfo)

\* ValueBuckets: Vec<ValueBucket>; each bucket may be written in any of its
\* HashMap orders, independently of the others.
EncValueBucketVecs(s) ==
    LET PerBucket == {c \in [1 .. Len(s) -> UNION {EncValueBuckets(s[j]) : j \in 1 .. Len(s)}] :
                       \A j \in 1 .. Len(s) : c[j] \in EncValueBuckets(s[j])}
    IN {<<W32(Len(s))>> \o FlattenSeq(c) : c \in PerBucket}

DecValueBuckets(p, i) == DecVec(p, i, DecValueBucket)

\* CloudData as the service writes it: cursor, has_more, rows.
EncCloudData(d) ==
    {<<Str(d.next_cursor), WBool(d.has_more)>> \o rows :
        rows \in EncValueBucketVecs(d.values)}

DecCloudData(p, i) ==
    LET c == ReadStr(p, i)
        h == ReadBool(p, c.next)
        v == DecValueBuckets(p, h.next)
    IN IF c.ok /\ h.ok /\ v.ok
         THEN Ok([next_cursor |-> c.val, has_more |-> h.val, values |-> v.val],
                 v.next)
         ELSE Failed

(***************************************************************************)
(* Subscription replies                                                    *)
(***************************************************************************)

\* A (table alias, subscription id) pair as the service writes it.
EncPair(pr) == <<Str(pr[1]), Str(pr[2])>>

\* The service's encoding of a SubscriptionResultValue: a count, then the
\* pairs.
EncSubscriptionResultValue(s) == EncVec(s, EncPair)

\* The largest count Vec::with_capacity::<(String, String)> survives in
\* the build: above it the byte size passes isize::MAX and with_capacity
\* panics ("capacity overflow"; 89478485 elements of 24 bytes on a 32-bit
\* target), or the allocation fails and handle_alloc_error aborts (a
\* 64-bit target without tens of GB to give).
CONSTANT MaxCapacity
ASSUME MaxCapacity \in Nat

\* SubscriptionResultValue::deserialize casts the i32 count to usize and
\* passes it to Vec::with_capacity before reading any pair: a negative
\* count becomes a capacity of at least 2^63 - 2^31 and a count above
\* MaxCapacity is more than the build can allocate; both end the process
\* however few pairs follow.
RECURSIVE ReadPairs(_, _, _, _)
ReadPairs(p, i, n, acc) ==
    IF n = 0 THEN Ok(acc, i)
    ELSE LET a == ReadStr(p, i)
             id == ReadStr(p, a.next)
         IN IF a.ok /\ id.ok THEN ReadPairs(p, id.next, n - 1, Append(acc, <<a.val, id.val>>))
                            ELSE Failed

DecSubscriptionResultValue(p, i) ==
    LET len == ReadW32(p, i)
    IN CASE ~len.ok -> Failed
         [] len.val < 0 \/ len.val > MaxCapacity -> Panicked
         [] OTHER -> ReadPairs(p, len.next, len.val, <<>>)

\* The service's encodings of a SubscriptionResult: the i64 interval, then
\* the map from database alias to SubscriptionResultValue.
EncSubscriptionResults(r) ==
    { <<W64(r.interval)>> \o m : m \in EncMaps(r.subs, EncSubscriptionResultValue) }

DecSubscriptionResult(p, i) ==
    LET t == ReadW64(p, i)
        m == DecMap(p, t.next, DecSubscriptionResultValue)
    IN CASE ~t.ok -> Failed
         [] m.ok -> Ok([interval |-> t.val, subs |-> m.val], m.next)
         [] OTHER -> m

(***************************************************************************)
(* UnsubscriptionInfo: HashMap<String, Vec<String>>                       *)
(***************************************************************************)

\* A Vec<String> of subscription ids: a count, then one String16 each.
EncStrVec(v) == EncVec(v, LAMBDA x : <<Str(x)>>)

EncUnsubscriptionInfo(m) == EncMaps(m, EncStrVec)

\* How the service reads the request back.
DecStrVec(p, i) == DecVec(p, i, ReadStr)

DecUnsubscriptionInfo(p, i) == DecMap(p, i, DecStrVec)

=============================================================================
