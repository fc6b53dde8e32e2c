CONSTANTS
  Ids = {a, b}
  nlri <- MCNlri
  None = None
  TTL = 5
  Refresh = TRUE
  FineResolution = 1
  TickPeriod = 2
  Sustained = 2
  LongWait = 6
  EventQueue = 2
  UpdateQueue = 1
  MaxStops = 1
  MaxEvictions = 1
SPECIFICATION FairSpec
INVARIANTS Covered WakesInTime RoutesFollowLeases NothingStaleUpstream Released
PROPERTIES EventuallyCovered
