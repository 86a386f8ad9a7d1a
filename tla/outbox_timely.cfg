SPECIFICATION Spec
CONSTANTS
  e1 = e1
  e2 = e2
  u1 = u1
  w1 = w1
  w2 = w2
  NoJob = NoJob
  Users = {u1}
  Target <- OneUser
  Events = {e1, e2}
  Realtime = {e1}
  Workers = {w1, w2}
  MultiNode = TRUE
  BatchSize = 2
  MaxRetryCount = 2
  Window = 1
  MaxCrashes = 1
  MaxFaults = 1
  MaxLostReplies = 0
  MaxOverruns = 0
  MaxLinkChanges = 0
  MaxTotal = 2
INVARIANT SingleConsumer
PROPERTY PromiseKept
CHECK_DEADLOCK FALSE
