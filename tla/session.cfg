SPECIFICATION FairSpec
CONSTANTS
  p1 = p1  p2 = p2  r1 = r1  r2 = r2
  Tabs = {p1, p2}
  Main = p1
  Requests = {r1, r2}
  TabOf <- Together
  Apps = {"web", "mobile"}
  None = None
  MaxRotations = 1
  MaxFaults = 1
INVARIANTS
  TypeOK
  KeepsLiveSession
  GraceCovers
PROPERTIES
  RequestsEnd
  RotationSpends
CHECK_DEADLOCK FALSE
