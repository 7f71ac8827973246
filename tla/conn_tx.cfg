SPECIFICATION Spec
CONSTANTS
    Conns = {c1, c2}
    Tokens = {t1, t2}
    NoToken = NoToken
    LockMode = "semaphore"
    Ops = {"write", "save", "transaction", "close"}
    BUSY_RETRY_TIME = 2
    MaxNest = 2
    MaxEnded = 1
    MaxLeak = 1
    MaxRows = 1
    MaxFaults = 0
SYMMETRY Symmetry
INVARIANTS
    TypeOK
    TransactionAgrees
    Stored
    Isolated
    RolledBack
    LockExcludes
PROPERTY
    ImplementsStore
