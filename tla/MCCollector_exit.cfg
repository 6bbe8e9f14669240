CONSTANTS
  t1 = t1 t2 = t2
  Thread <- Two
  Capacity = 8
  Cancelable = FALSE
  Migrate = FALSE
  MayExit <- Two
  MaxRaw = 1
  MaxRoot = 1
  MaxParents = 1
  Ops = {"root", "flush"}
SPECIFICATION Spec

INVARIANT FlushReports
CHECK_DEADLOCK FALSE
