CONSTANTS
  Requests = {r1, r2, r3}
  Batches = {b1, b2, b3}
  Valid = {b1, b2}
  Large = {b1}
  LargeChunks = 2
  MaxRestarts = 1
  Absent = Absent
  Committed = Committed
  None = None
SPECIFICATION Spec
SYMMETRY Symmetry
CONSTRAINT LargeAlone
INVARIANTS
  TypeOK
  CountersAddUp
  AllOrNothing
  AcknowledgedIsStored
  StoredOnceWithoutFault
PROPERTIES
  LeaseEndedByOwner
