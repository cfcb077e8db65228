CONSTANTS
  ThreadCount = 2
  DeviceCount = 2
  SpikeCount = 2
  MaxEvents = 1
SPECIFICATION Spec
INVARIANTS
  TypeOK
  NoDataRace
  OneWriteInFlight
  FleetStopped
PROPERTIES RunEnds
