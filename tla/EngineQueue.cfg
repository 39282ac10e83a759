SPECIFICATION Spec
CONSTANTS
  BarSeqs <- MCBarSeqs
  Signals <- QueueSignals
  Closes = {2, 5}
  NumBars = 4
  FirstTime = 1
  BarLength = 1
  Symbol = "btc"
  Symbols = {"btc", "eth"}
  InitialBalance = 100
  Unit = 10
  FeeRate = 1
  MarginRate = 2
  Delay = 2
  DefaultQuantity = 1
  DayLength = 2
  MaxPerBar = 1
  MaxPending = 2
INVARIANTS QueueOrdered DaysAddUp TradesReportedOnce
PROPERTY ExecutedOnTime
