CONSTANTS
  None = None
  w1 = w1
  w2 = w2
  Item = {i1, i2}
  Attempt = {r1, r2}
  Worker = {w1, w2}
  Capacity <- Pair
  MaxConcurrentExecutions = 2
SPECIFICATION FairSpec
INVARIANTS
  NoReplay
  
  
  
  StopReportIsTrue
  SlotsWithinLimits
PROPERTIES
  EveryStopIsProved
CHECK_DEADLOCK FALSE
