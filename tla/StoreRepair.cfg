SPECIFICATION TableSpec
CONSTANTS
    Threads = {t1}
    MaxEntries = 4
    MaxRefs = 2
    MaxGrow = 2
    MaxCalls = 2
    MaxEvictions = 3
    None = None
    Arrays = {1, 3}
    Texts = {2}
INVARIANTS
    RepairedStoreIsWhole
    KeptValuesAreWhole
PROPERTIES
    FlushedValuesSurvive
CHECK_DEADLOCK FALSE
