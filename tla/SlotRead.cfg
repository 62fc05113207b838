\* Refreshes of every slot from whole and truncated replies, in any order.
CONSTANTS
    MaxCapacity = 89478485
    Values <- MCValues
SPECIFICATION Spec
INVARIANT PartialWriteIsPrefix
