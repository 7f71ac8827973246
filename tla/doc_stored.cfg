SPECIFICATION Spec
CONSTANTS
    Conns = {c1, c2}
    Tokens = {t1}
    NoToken = NoToken
    LockMode = "semaphore"
    Ops = {"write", "leaky", "transaction", "close"}
    BUSY_RETRY_TIME = 10
    MaxNest = 1
    MaxEnded = 1
    MaxLeak = 1
    MaxRows = 1
    MaxFaults = 0
SYMMETRY Symmetry
INVARIANT
    Stored
