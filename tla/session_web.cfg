SPECIFICATION FairSpec
CONSTANTS
  p1 = p1  p2 = p2  r1 = r1  r2 = r2
  Tabs = {p1, p2}
  Main = p1
  Requests = {r1, r2}
  TabOf <- Together
  Apps = {"web"}
  None = None
  MaxRotations = 1
  MaxFaults = 1
INVARIANT FlakyNetworkKeepsSession
CHECK_DEADLOCK FALSE
