SPECIFICATION MCSpec
CONSTANTS
    Values = {1}
    Rows <- MCRows
    Nullable <- MCNullable
    LeafKeys = 9
    InnerKeys = 12
    LastRow = 16
    LastNull = 2
    MaxTurns = 3
INVARIANTS
    TreeIsWhole
    ScanIsExact
    OperationEnds
PROPERTY
    Refinement
