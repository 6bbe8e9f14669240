CONSTANTS
  t1 = t1 t2 = t2
  Thread <- Two
  Capacity = 1
  Cancelable = TRUE
  Migrate = FALSE
  MayExit <- Two
  MaxRaw = 2
  MaxRoot = 2
  MaxParents = 1
  Ops = {"root", "child", "cancel"}
SPECIFICATION Spec
SYMMETRY MCSymmetry
INVARIANTS HeldUntilCommit NoOrphan
CHECK_DEADLOCK FALSE
