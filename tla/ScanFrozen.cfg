SPECIFICATION Spec
CONSTANTS
  Pairs = {"JPY", "CAD", "BTC"}
  Crypto = {"BTC"}
  H4Pairs = {"JPY"}
  D1Pairs = {"BTC"}
  TokyoPairs = {"JPY"}
  SpreadWarn <- Warn
  SpreadReject <- Reject
  MinStop <- Least
  MinTarget <- Least
  Setups = {"low"}
  Kinds <- Trades
  Seeds <- None
  MinSample = 2
  MaxTrades = 2
  MaxFound = 1
  MaxAged = 1
  Markets <- Cases
  Answers <- Replies
  BuyOnly = TRUE
  MinConf = 70
  MaxConf = 80
INVARIANT RulesKeepUp
