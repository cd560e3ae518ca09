SPECIFICATION FairSpec
CONSTANTS
  c1 = c1
  c2 = c2
  c3 = c3
  n1 = n1
  v1 = v1
  v2 = v2
  NoName = NoName
  Unset = Unset
  Shell = Shell
  Name = {n1}
  Value = {v1, v2}
  Client <- Three
  Typed <- RoomLines
  TypeAhead = FALSE
  Crowd = FALSE
  MAX_USERS = 3
  Sock = {1, 2}
  Cap = 1
  MaxProc = 8
INVARIANT TypeOK
INVARIANT RightAuthor
INVARIANT EnvIsOwn
INVARIANT ServerEnds
INVARIANT WholeInput
PROPERTY ImplementsRoom
PROPERTY EveryLineEnds
