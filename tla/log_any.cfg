SPECIFICATION Spec
CONSTANTS
  o = o  a = a  m = m
  Users <- Trio
  Owner = o
  Founders <- Pair
  Cids = {c1}
  Txs = {t1, t2}
  Ops <- AllOps
  InviteAll = FALSE
  MaxOps = 4
  None = None
INVARIANTS
  TypeOK
  HolesAreDuplicates
  OneMessagePerClientId
  UnreadNeverOvercounts
  OneOwnerInTurn
  AudienceInTurn
  SendersNeverDeadlock
PROPERTIES
  LogPromiseKept
SYMMETRY Symmetry
CHECK_DEADLOCK FALSE
