SPECIFICATION Spec
CONSTANTS
  i = i d1 = d1 d2 = d2 e = e A = A B = B C = C
  Devices <- Four
  UserOf <- Owns
  Caller = i
  Scopes = {TRUE, FALSE}
  MaxJoined = 2
  Txs = {t1, t2}
  MaxRequests = 2
  MaxFaults = 1
  None = None
INVARIANTS
  TypeOK
  EndedIsRecorded
  JoinedIsConsistent
PROPERTIES
  CallPromiseKept
CHECK_DEADLOCK FALSE
