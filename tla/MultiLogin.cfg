SPECIFICATION LoggedInSpec
CONSTANTS
  p1 = p1
  p2 = p2
  p3 = p3
  n1 = n1
  NoOne = NoOne
  NoName = NoName
  Name = {n1}
  Proc = {p1, p2, p3}
  MaxUser = 2
  MsgNum = 2
  Present <- Alone
  Lines <- LoginLines
  SpacedLogins = TRUE
INVARIANT TypeOK
INVARIANT NoLostWakeup
INVARIANT EverySessionListed
