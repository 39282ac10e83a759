SPECIFICATION FairSpec
CONSTANTS
  Sockets <- MCSockets
  NumBars = 2
  Time <- MCTime
  MaxAttempts = 2
  MaxInFlight = 1
  MaxStarts = 2
  MaxResets = 1
  MaxFaults = 1
INVARIANTS
  ChartInOrder
PROPERTIES
  PlayEnds
CHECK_DEADLOCK FALSE
