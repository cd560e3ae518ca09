SPECIFICATION LoggedInSpec
CONSTANTS
  p1 = p1
  p2 = p2
  p3 = p3
  n1 = n1
  NoOne = NoOne
  NoName = NoName
  Name = {n1}
  Proc = {p1, p2}
  MaxUser = 2
  MsgNum = 8
  Present <- Both
  Lines <- PipeLines
  SpacedLogins = TRUE
INVARIANT PipeHasReader
INVARIANT PipeIsOpen
INVARIANT NoOrphanPipe
CHECK_DEADLOCK FALSE
