SPECIFICATION Spec
CONSTANTS
  Prices <- Levels
  Orders <- SomeOrders
  Migrated = FALSE
  MaxFaults = 2
  None = None
PROPERTIES DistanceIsKept
CHECK_DEADLOCK FALSE
