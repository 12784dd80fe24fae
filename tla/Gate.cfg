SPECIFICATION Spec
CONSTANTS
  Pairs = {"JPY", "BTC"}
  Crypto = {"BTC"}
  DollarBase = {"JPY"}
  Corr <- Uncorrelated
  MaxUnits = 1000
  MinUnits = 1
  MinRisk = 20
  PairList <- JpyFirst
  LivePairs = {"JPY", "BTC"}
  Settings <- Rows
  Defaults <- Fresh
  Confs = {70, 80}
  Balances = {100, 2000}
  Quotes <- Stops
  Ceiling = 80
  Cooldown = 2
  RejectFor = 1
  Slots = {s1, s2}
  MaxFaults = 1
INVARIANTS RiskIsBounded
PROPERTIES SlotsHold CooldownHolds OrdersInHours NoStaleLive
