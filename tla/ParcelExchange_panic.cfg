\* SubscriptionResult reply whose inner pair count is damaged to -1.
CONSTANTS
    MaxCapacity = 89478485
    Kinds = {"SubscriptionResult"}
    Values <- MCValues
    CorruptAt <- MCCorruptCount
    BadWords <- MCNegativeCount
SPECIFICATION Spec
INVARIANT NoPanic
