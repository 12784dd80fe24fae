\* A restart, nothing else.
CONSTANTS
  Positions = {p1, p2}
  Pairs = 2
  Events = {"crash"}
SPECIFICATION Spec
INVARIANTS HandledMeansFlatAlways
