SPECIFICATION Spec
CONSTANTS
  Threads = {t1, t2, t3}
  Names = {1, 2}
  None = None
  MaxUses = 5
  t1 = t1
  t2 = t2
  t3 = t3
SYMMETRY Symmetry
INVARIANTS
  TypeOK
  CutListRefused
  ModifiedIsNoticed
  HandlesValid
  FilesListed
CHECK_DEADLOCK FALSE
