\* Round trip of every payload kind whose Field values have equal column
\* name and alias; tags and counts damaged to -1 or 8.
CONSTANTS
    MaxCapacity = 89478485
    Kinds = {"AssetStatus", "CloudAsset", "CloudAssets", "FieldRaw",
             "ValueBucket", "SwitchStatus", "Response", "FieldType",
             "OrderTable", "Database", "SubscriptionResult", "Databases",
             "Schema", "AppInfo", "AppInfos", "ValueBuckets", "CloudData",
             "UnsubscriptionInfo"}
    Values <- MCValues
    CorruptAt <- MCCorruptAt
    BadWords <- MCBadWords
SPECIFICATION Spec
INVARIANT TypeOK
INVARIANT RoundTrip
INVARIANT MalformedRejected
