SPECIFICATION LedgerSpec
CONSTANTS
  Symbols = {btc}
  Prices = {1, 2}
  Quantities = {1, 2}
  Methods = {"FIFO", "LIFO"}
  MaxAdds = 4
  MaxFills = 5
  MaxPositions = 1
PROPERTY LotBookSpec
