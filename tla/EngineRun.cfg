SPECIFICATION StrategyRunSpec
CONSTANTS
  BarSeqs <- AllBarSeqs
  Backtests <- MCBacktests
  Signals <- AllSignals
  Watched <- MCWatched
  Quantity = 2
  Closes = {7776, 23328}
  NumBars = 4
  Levels = {7776, 15552, 23328}
  NumLevels = 5
  FirstTime = 3
  BarLength = 1
  Symbol = "btc"
  Symbols = {"btc"}
  InitialBalance = 100
  Unit = 10
  FeeRate = 1
  MarginRate = 2
  Delay = 1
  DefaultQuantity = 1
  DayLength = 2
  MaxPerBar = 1
  MaxPending = 0
  Method = "LIFO"
  BookPrices <- MCBookPrices
INVARIANTS TypeOK BalanceAccountedFor ResultAddsUp EquityIsFair DrawdownIsLargestFall
  OrdersFillWithinBar OpeningsWithinDelay ChartsDoNotRepaint
PROPERTIES BookSpec RunCompletes
