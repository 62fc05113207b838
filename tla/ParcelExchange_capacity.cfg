\* SubscriptionResult reply whose inner pair count is damaged to i32::MAX,
\* with no pairs behind it, on a 32-bit target: the largest capacity of a
\* Vec<(String, String)> there is 89478485.
CONSTANTS
    MaxCapacity = 89478485
    Kinds = {"SubscriptionResult"}
    Values <- MCValues
    CorruptAt <- MCCorruptCount
    BadWords <- MCHugeCount
SPECIFICATION Spec
INVARIANT NoPanic
