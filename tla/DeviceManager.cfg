SPECIFICATION FairSpec
CONSTANTS
  Devices = {d1, d2}
  NoDevice = NoDevice
  Null = Null
  Clients = {c1}
  Controllers = {m1}
  MaxRetries = 1
  MaxDevices = 2
INVARIANTS
  TypeOK
PROPERTIES
  RemovedNotPrimary
  MonitorConverges
  CallsReturn
