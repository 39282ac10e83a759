SPECIFICATION Spec
CONSTANTS
  Clients = {c1}
  Sessions = {s1, s2}
  Nobody = Nobody
  NoId = NoId
  NumBars = 2
  Exchanges = {"binance"}
  Providers = {"unknown"}
  HasDatabase = FALSE
  ClientMessages <- MCMessages
  OutBuffer = 1
  MaxSignals = 1
  MaxTrades = 2
  MaxStarts = 1
  MaxMessages = 3
  MaxDrops = 0
INVARIANTS BarsInOrder CompleteComesLast
CHECK_DEADLOCK FALSE
