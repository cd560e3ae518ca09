SPECIFICATION Spec
CONSTANTS
  Proc = {p1, p2, p3, p4}
  NoOne = NoOne
  MaxEintr = 3
INVARIANTS TypeOK CrowdBounded CountsInside
