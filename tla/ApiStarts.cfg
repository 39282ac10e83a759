SPECIFICATION FairSpec
CONSTANTS
  Clients = {c1, c2}
  Sessions = {s1}
  Nobody = Nobody
  NoId = NoId
  NumBars = 1
  Exchanges = {"binance"}
  Providers = {"none", "unknown"}
  HasDatabase = TRUE
  ClientMessages <- MCMessages
  OutBuffer = 1
  MaxSignals = 1
  MaxTrades = 1
  MaxStarts = 2
  MaxMessages = 1
  MaxDrops = 1
INVARIANTS EnginesAccountedFor ProviderComesBack
PROPERTY EverythingAnswered
CHECK_DEADLOCK FALSE
