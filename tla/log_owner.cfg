SPECIFICATION Spec
CONSTANTS
  o = o  a = a  m = m
  Users <- Trio
  Owner = o
  Founders <- Trio
  Cids = {c1}
  Txs = {t1, t2}
  Ops <- TransferOnly
  InviteAll = FALSE
  MaxOps = 2
  None = None
INVARIANTS
  OneOwner
CHECK_DEADLOCK FALSE
