\* A live gold order on Capital.com.
CONSTANTS
  o1 = o1
  o2 = o2
  s1 = s1
  s2 = s2
  Orders = {o1}
  Rows = {r1, r2}
  Reconcilers = {watchdog}
  BookingReconcilers = {watchdog}
  LoopReconcilers = {}
  SignalOf <- Single
  ModeOf <- SingleLive
  AccountOf <- SingleCapital
  NoOrder = NoOrder
  Engine = Engine
  NotFound = NotFound
  Looks404 = {}
  MaxFaults = 0
SPECIFICATION Spec
SYMMETRY RowSymmetry
INVARIANTS ClosedRowsAreGoneEverywhere
