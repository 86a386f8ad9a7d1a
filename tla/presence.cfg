SPECIFICATION FairSpec
CONSTANTS
  d1 = d1  n1 = n1  n2 = n2  c1 = c1  c2 = c2
  Devices = {d1}
  Nodes = {n1, n2}
  Conns = {c1, c2}
  DeviceOf <- OneDevice
  None = None
  MaxErrors = 1
  MaxCrashes = 1
INVARIANTS
  TypeOK
  NoOrphan
PROPERTIES
  PresenceHeals
CHECK_DEADLOCK FALSE
