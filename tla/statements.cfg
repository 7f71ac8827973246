SPECIFICATION Spec
CONSTANTS
    MaxString = 5
    MaxBuffer = 11
    Columns <- TwoTables
    MaxItems = 4
    Constraints <- KeyUniquePlain
    Foreign = {2}
    NameLength = 2
    StmtMaxes <- UpTo140
    CallerLens = {0, 7}
INVARIANTS
    OverrunKnown
    SentWhole
    TooLongRight
    BindsMatch
    Restricted
    FixedUnlessLeadingQuote
    UnreadKept
    PositionsRight
    SelectionRight
