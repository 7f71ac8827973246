SPECIFICATION Spec
CONSTANTS
    Names = {"a"}
    MaxFiles = 2
    MaxColumns = 1
    MaxKeys = 0
    MaxLens = {2}
INVARIANTS
    TwoKeysInTable
