\* The intervals of the code, in units of 30 s: calls and startups that take time, and every
\* event.
CONSTANTS
  Processes = {p1, p2, p3}
  NoOne = NoOne
  TTL = 4
  Renewal = 2
  MaxDelay = 1
  MaxStartup = 1
  Events = {"crash", "renew", "acquire", "lost", "late", "terminate"}
  MaxFaults = 2
SPECIFICATION FairSpec
INVARIANTS Exclusion LeaseCovers
PROPERTIES LosersHalt ImplementsPrimacy LockTaken
