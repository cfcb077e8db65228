CONSTANTS
  Connections = {k1, k2}
  Workers = {w1, w2}
  Capacity = 2
  MaxBatchSize = 2
  MaxEvents = 4
  MaxMalformed = 1
  None = None
SPECIFICATION Spec
SYMMETRY Symmetry
INVARIANTS
  TypeOK
  AcceptedAccounted
  ReceivedAccounted
  ShutdownLineTruthful
  WrittenOnce
