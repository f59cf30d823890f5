SPECIFICATION Spec
CONSTANTS
  B = 16
  Increments <- MCIncrements
  BootTimes <- MCBootTimes
  BootCounts = {0, 14, 17}
  TickLimit = 2
  MaxIdle = 1
  MaxTime = 120
INVARIANTS ReadInWindow  CountersExact
PROPERTIES NoLostTick NoEarlyTick
