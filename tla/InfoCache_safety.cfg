\* Two callers sharing one Connect, one user, two distinct replies.
CONSTANTS
    Users = {u1}
    Threads = {t1, t2}
    Resp = {r1, r2}
    NoThread = NoThread
    Default = Default
SPECIFICATION Spec
SYMMETRY Symmetry
INVARIANT ViewConsistent
