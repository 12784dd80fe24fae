\* A shadow and a live order, the monitor and two reconcilers racing for their rows.
CONSTANTS
  o1 = o1
  o2 = o2
  s1 = s1
  s2 = s2
  Orders = {o1, o2}
  Rows = {r1, r2, r3}
  Reconcilers = {watchdog, prescan}
  BookingReconcilers = {watchdog}
  LoopReconcilers = {prescan}
  SignalOf <- TwoSignals
  ModeOf <- ShadowAndLive
  AccountOf <- TwoAccounts
  NoOrder = NoOrder
  Engine = Engine
  NotFound = NotFound
  Looks404 = {o2}
  MaxFaults = 1
SPECIFICATION Spec
SYMMETRY RowSymmetry
INVARIANTS ClosedRowsAreGone BookedAtMostOnce
PROPERTIES ImplementsTradeBook LossesAreBooked
