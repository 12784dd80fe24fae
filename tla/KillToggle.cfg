\* The dashboard asks for PAPER.
CONSTANTS
  Positions = {p1, p2}
  Pairs = 2
  Events = {"toggle"}
SPECIFICATION Spec
INVARIANTS HandledMeansFlatAlways
