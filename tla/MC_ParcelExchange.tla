------------------------- MODULE MC_ParcelExchange -------------------------
(***************************************************************************)
(* Inputs for ParcelExchange.  Strings are sequences of code points: the   *)
(* empty string, ASCII, and U+1F600, which UTF-16 writes as a surrogate    *)
(* pair.  Values follow the unit tests of connect.rs / asset.rs (default   *)
(* CloudAsset, the map {"key1": Null, "key2": Number(1)}) and add values   *)
(* whose fields all differ, so that a swapped pair of fields shows.        *)
(***************************************************************************)
EXTENDS ParcelExchange, TLC

SEmpty == <<>>
SA == <<97>>            \* "a"
SB == <<98>>            \* "b"
SFace == <<128512>>     \* U+1F600
Key1 == <<107, 101, 121, 49>>   \* "key1"
Key2 == <<107, 101, 121, 50>>   \* "key2"

DefaultAsset ==
    [asset_id |-> SEmpty, asset_name |-> SEmpty, hash |-> SEmpty,
     uri |-> SEmpty, sub_path |-> SEmpty, create_time |-> SEmpty,
     modify_time |-> SEmpty, size |-> SEmpty, status |-> "Normal"]

\* An asset whose consecutive string fields all differ.
MixedAsset(st) ==
    [asset_id |-> SFace, asset_name |-> SA, hash |-> SA,
     uri |-> SB, sub_path |-> SFace, create_time |-> SA,
     modify_time |-> SB, size |-> SFace, status |-> st]

Null == [tag |-> "Null", val |-> <<>>]
Number(n) == [tag |-> "Number", val |-> n]

\* A field whose column name and alias differ, and one where they agree.
DistinctField == [col_name |-> SA, alias |-> SB, typ |-> "Text",
                  primary |-> TRUE, nullable |-> FALSE]
SameField == [col_name |-> SA, alias |-> SA, typ |-> "Asset",
              primary |-> FALSE, nullable |-> TRUE]

Table(fs) == [alias |-> SA, table_name |-> SB, fields |-> fs]

Db == [alias |-> SA, name |-> SB, tables |-> <<Table(<<SameField>>)>>]

App(sw) == [app_id |-> SA, bundle_name |-> SFace, cloud_switch |-> sw,
            instance_id |-> 7]

\* A row of a paged fetch: two columns, so both HashMap orders occur.
Row == (Key1 :> Null) @@ (Key2 :> [tag |-> "Text", val |-> SB])

MCValues ==
    [AssetStatus |-> AssetStatuses,
     CloudAsset |-> {DefaultAsset} \cup {MixedAsset(st) : st \in AssetStatuses},
     CloudAssets |-> {<<>>, <<DefaultAsset, MixedAsset("Delete")>>},
     FieldRaw |-> {Null, Number(-1), Number(2147483647),
                   [tag |-> "Real", val |-> 3],
                   [tag |-> "Text", val |-> SFace], [tag |-> "Text", val |-> SEmpty],
                   [tag |-> "Bool", val |-> TRUE], [tag |-> "Bool", val |-> FALSE],
                   [tag |-> "Blob", val |-> <<0, 255>>],
                   [tag |-> "Asset", val |-> MixedAsset("Downloading")],
                   [tag |-> "Assets", val |-> <<MixedAsset("Abnormal")>>]},
     ValueBucket |-> {<<>>, (Key1 :> Null) @@ (Key2 :> Number(1))},
     SwitchStatus |-> {"Close", "Open", "NotEnable"},
     Response |-> {[time |-> 5, device_name |-> SA, app_id |-> SFace]},
     FieldType |-> {FieldTypes[i] : i \in 1 .. 8},
     Field |-> {DistinctField, SameField},
     OrderTable |-> {Table(<<>>), Table(<<SameField, SameField>>)},
     Database |-> {[alias |-> SA, name |-> SB, tables |-> <<Table(<<SameField>>)>>]},
     SubscriptionResult |->
        {[interval |-> 10,
          subs |-> (Key1 :> << <<SA, SFace>>, <<SB, SA>> >>) @@ (Key2 :> <<>>)]},
     Databases |-> {<<>>, <<Db, Db>>},
     Schema |-> {[version |-> -1, bundle_name |-> SFace, databases |-> <<Db>>]},
     AppInfo |-> {App(TRUE), App(FALSE)},
     AppInfos |-> {(Key1 :> App(TRUE)) @@ (Key2 :> App(FALSE))},
     ValueBuckets |-> {<<>>, <<Row, <<>>, Row>>},
     CloudData |-> {[next_cursor |-> SFace, has_more |-> TRUE, values |-> <<Row>>]},
     UnsubscriptionInfo |-> {(Key1 :> <<SA, SFace>>) @@ (Key2 :> <<>>)}]

\* Tags and counts that a damaged word may hit: the first word of every
\* tag-coded enum and of every count-prefixed collection.
MCCorruptAt ==
    LET Leading == {"AssetStatus", "CloudAssets", "FieldRaw", "ValueBucket",
                    "SwitchStatus", "FieldType", "Databases", "AppInfos",
                    "ValueBuckets", "UnsubscriptionInfo"}
        \* Schema and CloudData: the collection count after a word and a string.
        Third == {"Schema", "CloudData"}
        Others == {"CloudAsset", "Response", "Field", "OrderTable", "Database",
                   "SubscriptionResult", "AppInfo"}
    IN [k \in Leading \cup Third \cup Others |->
           IF k \in Leading THEN {1} ELSE IF k \in Third THEN {3} ELSE {}]

\* A damaged word: -1 (an out-of-range tag, a negative count) or 8 (a tag
\* past the last variant, a count larger than the entries present).
MCBadWords == {-1, 8}

\* SubscriptionResult: interval, map count, first key, then the count of
\* that key's SubscriptionResultValue at position 4.
MCCorruptCount ==
    [k \in {"SubscriptionResult"} |-> {4}]

\* A negative pair count: `as usize` makes it at least 2^63 - 2^31.
MCNegativeCount == {-1}

\* A positive pair count the i32 allows but no build can reserve room for:
\* i32::MAX, more than MaxCapacity on any target.
MCHugeCount == {2147483647}

=============================================================================
