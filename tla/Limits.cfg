CONSTANTS
  WeekDays = 2
  Equity <- TwoAccounts
  DailyPct = 5
  WeeklyPct = 10
  NoBalanceLimit = 1
  AccountBreaker = 2
  BreakerFor = 1
  AlertAfter = 0
  Pnls <- SmallPnls
  MaxLoss = 2
  MaxProfit = 1
  Events = {"crash", "restore", "save", "fetch"}
  MaxFaults = 2
SPECIFICATION FairSpec
INVARIANTS MondayAgrees
PROPERTIES LossesStay NoApprovalPastLimit HaltIsLifted BalanceRecovers
