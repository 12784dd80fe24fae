\* A startup longer than the renewal interval, nothing else.
CONSTANTS
  Processes = {p1, p2}
  NoOne = NoOne
  TTL = 4
  Renewal = 2
  MaxDelay = 0
  MaxStartup = 3
  Events = {}
  MaxFaults = 0
SPECIFICATION Spec
INVARIANTS OnePrimary
