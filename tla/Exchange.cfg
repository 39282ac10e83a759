SPECIFICATION FairSpec
CONSTANTS
  Tasks = {t1, t2}
  Adapters = {"bybit"}
  Bases <- MCBases
  Quotes <- MCQuotes
  Letters <- MCLetters
  Pairs <- MCPairs
  Raws <- MCRaws
  Ranges <- MCRanges
  Intervals <- MCIntervals
  Opens <- MCOpens
  BarLength = 1
  Millis = 10
  Limit = 1
  MinInterval = 1
  Horizon = 4
  MaxAsks = 2
  MaxErrors = 1
INVARIANTS
  SymbolsComeBack
  WholeUnlessRecent
PROPERTIES
  FetchIsOneStep
  RequestsReturn
CHECK_DEADLOCK FALSE
