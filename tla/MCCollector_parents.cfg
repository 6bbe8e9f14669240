CONSTANTS
  t1 = t1 t2 = t2
  Thread <- One
  Capacity = 8
  Cancelable = FALSE
  Migrate = FALSE
  MayExit <- None
  MaxRaw = 4
  MaxRoot = 1
  MaxParents = 2
  Ops = {"root", "unsampled", "child", "attach", "push"}
SPECIFICATION Spec
INVARIANTS ReportedOnce AttachmentsKept UnsampledStaysOut
CHECK_DEADLOCK FALSE
