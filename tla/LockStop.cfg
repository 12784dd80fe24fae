\* SIGTERM, nothing else.
CONSTANTS
  Processes = {p1, p2}
  NoOne = NoOne
  TTL = 4
  Renewal = 2
  MaxDelay = 0
  MaxStartup = 0
  Events = {"terminate"}
  MaxFaults = 1
SPECIFICATION Spec
INVARIANTS ReleasedOnShutdown
