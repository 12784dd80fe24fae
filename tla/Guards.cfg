SPECIFICATION GuardsSpec
\* The breaker's intervals are those of the code in units of 10 s.
CONSTANTS
  Threshold = 3
  Window = 6
  ResetAfter = 3
  Calls = {c1, c2, c3, c4}
  Listed = {"nfp", "pmi"}
  High = {"nfp"}
  Dates <- Times
  Ttl = 1
  Ahead = 4
  Kept = 1
  Before = 2
  After = 1
  Soon = 1
  MaxFetch = 1
  MaxDelay = 1
  Prices = {0, 1, 9}
  MaxMoves = 3
  RollingWindow = 3
  MaxLen = 4
  SpikeMultiplier = 2
  ResetThreshold = 2
  MaxStreamFailures = 3
  Stale = 4
  Beat = 3
  HealthStale = 4
  Renewal = 2
  ReconcileEvery = 2
  MaxReconcile = 1
  MaxLost = 1
INVARIANTS ClosedIsQuiet StallIsTold DeadIsReported
PROPERTIES TripsOnBurst StrandedStays NewsRespected SpikesEnd
