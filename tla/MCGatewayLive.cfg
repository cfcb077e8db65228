CONSTANTS
  Connections = {k1}
  Workers = {w1, w2}
  Capacity = 1
  MaxBatchSize = 2
  MaxEvents = 3
  MaxMalformed = 1
  None = None
SPECIFICATION Spec
PROPERTIES
  ImplementsContract
  PartialBatchFlushed
  ShutdownCompletes
