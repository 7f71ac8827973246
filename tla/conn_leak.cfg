SPECIFICATION Spec
CONSTANTS
    Conns = {c1, c2}
    Tokens = {t1}
    NoToken = NoToken
    LockMode = "semaphore"
    Ops = {"leaky", "iterate", "transaction"}
    BUSY_RETRY_TIME = 2
    MaxNest = 2
    MaxEnded = 1
    MaxLeak = 1
    MaxRows = 1
    MaxFaults = 1
SYMMETRY Symmetry
INVARIANTS
    TransactionAgrees
    SemaphoreKept
    RolledBack
    FileReleased
