SPECIFICATION Spec
CONSTANTS
  Prices <- Levels
  Orders <- SomeOrders
  Migrated = TRUE
  MaxFaults = 2
  None = None
INVARIANTS UncoveredIsAlerted
PROPERTIES StopsOnlyForward ProfitIsSecured
CHECK_DEADLOCK FALSE
