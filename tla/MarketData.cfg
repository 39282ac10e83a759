SPECIFICATION DataSpec
CONSTANTS
  Callers = {a, b}
  Requests <- MCRequests
  FirstRows <- MCFirstRows
  Market = {2, 4, 6, 8, 10}
  Adapters = {"custom"}
  Exchanges = {"bybit", "custom"}
  Millis = 6
  BarLength = 2
  MaxMissing = 3
  MaxCalls = 3
  MaxFaults = 1
  MaxDrops = 0
  Configs <- MCConfigs
  Presents = {11}
  Content <- MCContent
  Backends = {"memory", "redis"}
  Capacity = 1
  Ttl = 2
SYMMETRY MCSymmetry
INVARIANTS EnoughBars AggregationComposes
PROPERTY AnswersWithinTtl
CHECK_DEADLOCK FALSE
