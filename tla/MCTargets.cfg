SPECIFICATION Spec
CONSTANTS
  k1 = k1
  k2 = k2
  k3 = k3
  Keys = {k1, k2, k3}
  None = None
  Rows = {1, 2}
  Index <- MCIndex
  Scale = 8
  Divisor <- MCDivisor
  MaxInstances = 2
  SampleSize = 1
  History <- MCHistory
  MinSamples = 3
  MaxBuckets = 3
  Base = 100
  Scenarios <- MCScenarios
CHECK_DEADLOCK FALSE
INVARIANTS
  TypeOK
  NeverOverestimates
  RingExact
  SpreadExact
PROPERTIES
  EvictsLighter
  HeavierDisplaces
