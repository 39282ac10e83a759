SPECIFICATION Spec
CONSTANTS
  Callers = {"a", "b"}
  Requests <- MCRequests
  FirstRows <- MCFirstRows
  Market = {2, 6, 8, 10}
  Adapters = {"binance"}
  Exchanges = {"binance", "bybit", "custom"}
  Millis = 10
  BarLength = 2
  MonthLength = 5
  Table <- MCTable
  MaxMissing = 3
  MaxCalls = 2
  MaxFaults = 1
  MaxDrops = 1
INVARIANT PaginationGetsSeconds
CHECK_DEADLOCK FALSE
