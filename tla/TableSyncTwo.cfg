SPECIFICATION Spec
CONSTANTS
    Threads = {t1, t2}
    Tables = {tb1, tb2}
    MaxRows = 2
    Values = {Null, v1}
    Null = Null
    Absent = Absent
    Ops = {"set", "add", "exchange", "syncAll", "syncTable"}
    SharedRows = FALSE
    None = None
SYMMETRY Symmetry
INVARIANTS
    CleanMeansFlushed
    IndexMatchesRows
CHECK_DEADLOCK FALSE
