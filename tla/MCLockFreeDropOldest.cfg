CONSTANTS
  Producers = {p1}
  Consumers = {c1, c2}
  RequestedCapacity = 2
  kSpinAttempts = 1
  MaxItems = 4
  None = None
SPECIFICATION Spec
SYMMETRY Symmetry
INVARIANT
  DropOldestNeverRejects
