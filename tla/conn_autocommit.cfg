SPECIFICATION Spec
CONSTANTS
    Conns = {c1, c2, c3}
    Tokens = {t1}
    NoToken = NoToken
    LockMode = "rwlock"
    Ops = {"write", "leaky", "select", "close"}
    BUSY_RETRY_TIME = 2
    MaxNest = 1
    MaxEnded = 1
    MaxLeak = 1
    MaxRows = 1
    MaxFaults = 0
SYMMETRY Symmetry
INVARIANTS
    NoneUnfinished
    LockExcludes
    Stored
    FileReleased
