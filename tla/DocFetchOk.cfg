SPECIFICATION Spec
CONSTANTS
  Callers = {"a", "b"}
  Requests <- MCRequests
  FirstRows <- MCFirstRows
  Market = {2, 6, 8, 10}
  Adapters = {"custom"}
  Exchanges = {"binance", "bybit", "custom"}
  Millis = 10
  BarLength = 2
  MonthLength = 5
  Table <- MCTable
  MaxMissing = 3
  MaxCalls = 2
  MaxFaults = 1
  MaxDrops = 0
INVARIANT OkMeansStored
CHECK_DEADLOCK FALSE
