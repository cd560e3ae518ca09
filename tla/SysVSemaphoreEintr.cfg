SPECIFICATION Spec
CONSTANTS
  Proc = {p1, p2, p3}
  NoOne = NoOne
  MaxEintr = 1
INVARIANT MutualExclusion
