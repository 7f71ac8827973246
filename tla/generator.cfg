SPECIFICATION Spec
CONSTANTS
    Names = {"a", "b"}
    MaxFiles = 2
    MaxColumns = 2
    MaxKeys = 2
    MaxLens = {2, 3}
INVARIANTS
    TypeOK
    Described
    FilesAgree
    AccessorsInStruct
