CONSTANTS
  t1 = t1 t2 = t2
  Thread <- Two
  Capacity = 8
  Cancelable = TRUE
  Migrate = FALSE
  MayExit <- None
  MaxRaw = 3
  MaxRoot = 2
  MaxParents = 1
  Ops = {"root", "child", "cancel", "flush"}
SPECIFICATION Spec
SYMMETRY MCSymmetry
INVARIANTS TypeOK CancelHonoured HeldUntilCommit FlushReports RootReportsChildren
CHECK_DEADLOCK FALSE
