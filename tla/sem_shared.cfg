SPECIFICATION FairSpec
CONSTANTS
    Procs = {p1, p2, p3}
    Created = FALSE
    MaxCrashes = 1
    MaxInterrupts = 1
    MaxLoneV = 1
INVARIANTS
    TypeOK
    OneUnit
    MutexUndisturbed
    NeverLockedOut
PROPERTY
    WaiterServed
CHECK_DEADLOCK FALSE
