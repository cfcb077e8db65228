CONSTANTS
  Producers = {p1}
  SinkThreads = {t1}
  Capacity = 1
  MaxRetries = 1
  MaxBatches = 1
  Valid = {0}
  Large = {}
  LargeChunks = 2
  MaxRestarts = 1
  Absent = Absent
  Committed = Committed
  None = None
SPECIFICATION Spec
VIEW View
INVARIANTS
  NothingMissing
  ArrivalIdentity
PROPERTIES
  EveryRequestAnswered
