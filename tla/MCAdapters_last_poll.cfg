CONSTANTS
  t1 = t1 t2 = t2
  Thread <- One
  Capacity = 8
  Cancelable = TRUE
  Migrate = FALSE
  MayExit <- None
  MaxRaw = 2
  MaxRoot = 1
  MaxParents = 1
  Ops = {"root"}
SPECIFICATION AdapterSpec
INVARIANT PolledReported
CHECK_DEADLOCK FALSE
