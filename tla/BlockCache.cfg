SPECIFICATION Spec
CONSTANTS
    Threads = {t1, t2}
    ItemSize = 2
    WantedBlockSize = 5
    MaxCachedBlocks = 2
    MaxPins = 2
    PinsAcrossUnlock = TRUE
    MaxItems = 5
    Values = {v1, v2}
    Unread = Unread
    None = None
SYMMETRY Symmetry
INVARIANTS
    PinnedBlocksStay
    CleanBlocksMatchFile
PROPERTIES
    Refinement
