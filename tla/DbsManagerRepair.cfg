SPECIFICATION Spec
CONSTANTS
  Threads = {t1, t2}
  Names = {1, 2}
  None = None
  MaxUses = 5
  t1 = t1
  t2 = t2
SYMMETRY Symmetry
INVARIANTS
  RepairedListIsWhole
CHECK_DEADLOCK FALSE
