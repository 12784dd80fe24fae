\* A restart whose read of the row fails.
CONSTANTS
  Positions = {p1, p2}
  Pairs = 2
  Events = {"crash", "restore"}
SPECIFICATION Spec
PROPERTIES RestartKeepsKill
