SPECIFICATION Spec
CONSTANTS
    Threads = {t1, t2, t3}
    Tables = {tb1}
    MaxRows = 2
    Values = {Null, v1}
    Null = Null
    Absent = Absent
    Ops = {"set", "add", "append", "sort", "createIndex", "removeIndex", "syncTable"}
    SharedRows = TRUE
    None = None
SYMMETRY Symmetry
INVARIANTS
    IndexSound
CHECK_DEADLOCK FALSE
