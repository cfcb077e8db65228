CONSTANTS
  Producers = {p1}
  Consumers = {c1, c2}
  RequestedCapacity = 1
  kSpinAttempts = 1
  MaxItems = 3
  None = None
SPECIFICATION Spec
PROPERTIES
  ImplementsContract
  PushTerminates
