\* Spec 8 "refresh failure preserves prior value", against the code's
\* field-by-field decode into the locked slot.
CONSTANTS
    Users = {u1}
    Threads = {t1}
    Resp = {r1, r2}
    NoThread = NoThread
    Default = Default
SPECIFICATION Spec
PROPERTY RefreshFailurePreservesPrior
