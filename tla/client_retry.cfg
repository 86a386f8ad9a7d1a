SPECIFICATION Spec
CONSTANTS
  h1 = h1  h2 = h2
  Handlers = {h1}
  PageSize = 1
  MaxLog = 3
  Mine = {2}
  MaxUpsets = 1
  Tearing = TRUE
INVARIANT NextSyncRetries
CHECK_DEADLOCK FALSE
