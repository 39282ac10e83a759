SPECIFICATION FairSpec
CONSTANTS
  Callers = {"a", "b", "c"}
  Requests <- MCRequests
  FirstRows <- MCFirstRows
  Market = {2, 6, 8, 10}
  Adapters = {"custom", "binance", "okx"}
  Exchanges = {"binance", "bybit", "custom", "okx"}
  Millis = 6
  BarLength = 2
  MonthLength = 5
  Table <- MCTable
  MaxMissing = 3
  MaxCalls = 3
  MaxFaults = 1
  MaxDrops = 1
INVARIANTS OneLeader GapsAreExact LeaderLeavesNoGap VerifyMissesNothing ArchiveKeepsTable
PROPERTY CallsReturn
CHECK_DEADLOCK FALSE
