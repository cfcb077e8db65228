CONSTANTS
  Producers = {p1, p2}
  SinkThreads = {t1, t2}
  Capacity = 1
  MaxRetries = 1
  MaxBatches = 3
  None = None
SPECIFICATION Spec
INVARIANT BlockNeverDrops
