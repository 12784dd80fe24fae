\* A live order whose broker id contains 404.
CONSTANTS
  o1 = o1
  o2 = o2
  s1 = s1
  s2 = s2
  Orders = {o1}
  Rows = {r1, r2, r3}
  Reconcilers = {watchdog}
  BookingReconcilers = {watchdog}
  LoopReconcilers = {}
  SignalOf <- Single
  ModeOf <- SingleLive
  AccountOf <- SingleMain
  NoOrder = NoOrder
  Engine = Engine
  NotFound = NotFound
  Looks404 = {o1}
  MaxFaults = 1
SPECIFICATION Spec
SYMMETRY RowSymmetry
INVARIANTS NotFoundMeansGone
