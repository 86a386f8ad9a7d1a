SPECIFICATION Spec
CONSTANTS
  h1 = h1  h2 = h2
  Handlers = {h1}
  PageSize = 1
  MaxLog = 3
  Mine = {2}
  MaxUpsets = 2
  Tearing = FALSE
CONSTRAINT UpsetsInShorterLogs
INVARIANTS
  TypeOK
  PrefixIsStored
  ClearedIsGone
  NewestArrives
PROPERTIES
  DevicePromiseKept
  PagesAdvance
CHECK_DEADLOCK FALSE
