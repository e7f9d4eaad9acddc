SPECIFICATION FairSpec
CONSTANTS
  d1 = d1
  d2 = d2
  Devices = {d1, d2}
  DeviceOf <- TwoDevices
  OutboxLimit = 2
  MaxRows = 3
  MaxLocks = 1
  MaxFailures = 2
INVARIANTS
  TypeOK
  NoStaleSending
  IdleMeansSent
PROPERTIES
  KicksSuffice
  SynchronisedInTheEnd
