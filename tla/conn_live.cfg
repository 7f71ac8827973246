SPECIFICATION FairSpec
CONSTANTS
    Conns = {c1, c2}
    Tokens = {t1}
    NoToken = NoToken
    LockMode = "semaphore"
    Ops = {"write", "select", "transaction", "close"}
    BUSY_RETRY_TIME = 2
    MaxNest = 1
    MaxEnded = 1
    MaxLeak = 1
    MaxRows = 1
    MaxFaults = 0
PROPERTIES
    CloseReturns
    CallsReturn
