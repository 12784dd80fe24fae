\* One failing read.
CONSTANTS
  Positions = {p1, p2}
  Pairs = 2
  Events = {"refresh"}
SPECIFICATION FairSpec
PROPERTIES BlipClears
