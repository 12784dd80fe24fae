\* Fair loops and every fault, any number of times.
CONSTANTS
  Positions = {p1, p2}
  Pairs = 2
  Events = {"crash", "restore", "refresh", "save", "sweep", "settings", "toggle"}
SPECIFICATION FairSpec
INVARIANTS HandledMeansFlat
PROPERTIES SettledKillStays SettledKillBlocks KillCloses
