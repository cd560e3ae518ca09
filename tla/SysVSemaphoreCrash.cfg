SPECIFICATION FairSpec
CONSTANTS
  Proc = {p1, p2, p3, p4}
  NoOne = NoOne
  MaxEintr = 0
INVARIANTS MutualExclusion NeverLeftSet
PROPERTIES SleeperGetsIn IsMutex
