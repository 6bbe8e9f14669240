CONSTANTS
  t1 = t1 t2 = t2
  Thread <- Two
  NoThread = NoThread
  Loop = Loop
  ThreadId = {0, 1, 2}
  Shards = 2
  BatchSize = 2
  Capacity = 2
  MaxSpan = 2
  MaxFlush = 2
SPECIFICATION MCSpec
SYMMETRY MCSymmetry
INVARIANTS TypeOK KeepsNewest FlushComplete WrittenWhole DescribedFirst PoolStable TracingComesBack NeverStuck
CHECK_DEADLOCK FALSE
