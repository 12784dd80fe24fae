\* No fault at all.
CONSTANTS
  Positions = {p1, p2}
  Pairs = 2
  Events = {}
SPECIFICATION Spec
INVARIANTS RequestSurvives
