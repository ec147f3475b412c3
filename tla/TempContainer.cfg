SPECIFICATION Spec
CONSTANTS
    mCacheSize = 2
    MaxFileUnitSize = 3
    Failed = Failed
    Values = {v1, v2}
    MaxSize = 7
    MaxChunk = 3
SYMMETRY Symmetry
INVARIANTS
    HoldsWhatWasWritten
