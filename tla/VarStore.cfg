SPECIFICATION FairSpec
CONSTANTS
    Threads = {t1, t2}
    MaxEntries = 5
    MaxRefs = 2
    MaxGrow = 2
    None = None
INVARIANTS
    TypeOK
    FreeListLinked
    ChainsLinked
    NoEntryLost
    RefCountExact
    WalkOnLiveEntries
PROPERTIES
    ReferencedRecordsKeepEntries
    LockReleased
