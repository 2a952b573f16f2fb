SPECIFICATION LimiterSpec
CONSTANTS
  Keys = {k1, k2}
  Requests = {r1, r2}
  NoArrival = NoArrival
  PerMinute = 2
  Minute = 3
  BurstSeconds = 3
  BurstFloor = 1
  IdleEviction = 3
  SweepEvery = 2
  MaxTracked = 1
  MaxClock = 5
SYMMETRY Symmetry
INVARIANTS LimiterTypeOK LevelIsIdeal
PROPERTY PromiseKept
CHECK_DEADLOCK FALSE
