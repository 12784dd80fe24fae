\* A signal fed twice, to the two OANDA accounts, under fairness.
CONSTANTS
  o1 = o1
  o2 = o2
  s1 = s1
  s2 = s2
  Orders = {o1, o2}
  Rows = {r1, r2, r3}
  Reconcilers = {watchdog}
  BookingReconcilers = {watchdog}
  LoopReconcilers = {}
  SignalOf <- OneSignal
  ModeOf <- BothLive
  AccountOf <- TwoAccounts
  NoOrder = NoOrder
  Engine = Engine
  NotFound = NotFound
  Looks404 = {}
  MaxFaults = 1
SPECIFICATION FairSpec
PROPERTIES NoSecondLiveOrder GoneRowsAreClosed PositionsGetRows
