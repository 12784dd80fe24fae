CONSTANTS
  WeekDays = 2
  Equity <- OneAccount
  DailyPct = 5
  WeeklyPct = 10
  NoBalanceLimit = 1
  AccountBreaker = 2
  BreakerFor = 1
  AlertAfter = 2
  Pnls <- SmallPnls
  MaxLoss = 0
  MaxProfit = 0
  Events = {"fetch"}
  MaxFaults = 2
SPECIFICATION Spec
INVARIANTS StaleBalanceAlerts
