SPECIFICATION LedgerSpec
CONSTANTS
  Symbols = {btc, eth}
  Prices = {720, 1440}
  Quantities = {1, 2}
  Methods = {"FIFO", "LIFO", "WeightedAverage"}
  MaxAdds = 2
  MaxFills = 4
  MaxPositions = 2
INVARIANTS OpenOrClosed BookTotalIsSum LegsCoverSize RealizedMatchesCash
PROPERTY ClosedIsFinal
