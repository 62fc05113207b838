\* Unsubscribe reply holding an empty error list.
CONSTANT Threads = {t1}
CONSTANTS
    MaxCapacity = 89478485
    SubReplies <- MCSubReplies
    UnsubReplies <- MCUnsubReplies
SPECIFICATION Spec
INVARIANT UnsubscribeErrIffErrors
CHECK_DEADLOCK FALSE
