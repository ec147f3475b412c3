SPECIFICATION FairSpec
CONSTANTS
    Threads = {t1, t2, t3}
    Tables = {tb1}
    MaxRows = 1
    Values = {Null, v1}
    Null = Null
    Absent = Absent
    Ops = {"set", "append", "add", "match", "syncAll", "syncTable"}
    SharedRows = TRUE
    None = None
INVARIANTS
    CleanMeansFlushed
    IndexExclusive
    IndexMissesNoRow
PROPERTIES
    SyncEnds
CHECK_DEADLOCK FALSE
