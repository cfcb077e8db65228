CONSTANTS
  Requests = {r1, r2}
  Batches = {b1}
  Valid = {b1}
  Large = {}
  LargeChunks = 2
  MaxRestarts = 1
  Absent = Absent
  Committed = Committed
  None = None
SPECIFICATION Spec
SYMMETRY Symmetry
INVARIANTS
  ReplayStoresOnce
