CONSTANTS
  Capacity = 2
  m1 = m1 m2 = m2 f1 = f1 f2 = f2 f3 = f3
  NoMsg = NoMsg
  Msg <- MCMsg
  Forced <- MCForced
SPECIFICATION Spec
INVARIANTS TypeOK NoDuplicate NothingLostWhileOpen SendIsBarrier
PROPERTIES KeepsPromise DrainedBeforeClosed
CHECK_DEADLOCK FALSE
