SPECIFICATION FairSpec
CONSTANTS
  i = i d1 = d1 d2 = d2 e = e A = A B = B C = C
  Devices <- Three
  UserOf <- Owns
  Caller = i
  Scopes = {TRUE, FALSE}
  MaxJoined = 2
  Txs = {t1, t2}
  MaxRequests = 2
  MaxFaults = 0
  None = None
PROPERTIES
  OperationsEnd
  RingingEnds
CHECK_DEADLOCK FALSE
