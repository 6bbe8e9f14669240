CONSTANTS
  t1 = t1 t2 = t2
  Thread <- Two
  Capacity = 8
  Cancelable = FALSE
  Migrate = TRUE
  MayExit <- None
  MaxRaw = 2
  MaxRoot = 1
  MaxParents = 1
  Ops = {"root", "flush"}
SPECIFICATION FairAdapterSpec
INVARIANT NothingMissing
PROPERTIES OwedIsReported FlushReturns
CHECK_DEADLOCK FALSE
