SPECIFICATION Spec
CONSTANTS
    Columns <- MCColumns
    PK <- MCPK
    Allocator = "pool"
    MaxBlocks = 20
    MaxRows = 2
    MaxLost = 0
INVARIANT TypeOK
INVARIANT OneOwner
INVARIANT Readable
INVARIANT FreedRight
PROPERTY LossesKnown
