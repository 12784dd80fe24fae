\* The intervals of the code, in units of 15 s: calls of up to a unit; renewals may fail.
CONSTANTS
  Processes = {p1, p2}
  NoOne = NoOne
  TTL = 8
  Renewal = 4
  MaxDelay = 1
  MaxStartup = 0
  Events = {"renew"}
  MaxFaults = 2
SPECIFICATION Spec
INVARIANTS OnePrimary
