CONSTANTS
  Producers = {p1, p2}
  Consumers = {c1, c2}
  RequestedCapacity = 1
  kSpinAttempts = 1
  MaxItems = 3
  None = None
SPECIFICATION Spec
SYMMETRY Symmetry
INVARIANTS
  TypeOK
  SlotExclusive
  TakesWhatWasPut
