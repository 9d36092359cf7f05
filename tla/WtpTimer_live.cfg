SPECIFICATION FairSpec
CONSTANTS
  MaxTimers = 3
  UsecPerSec = 100
  AlmostNow = 1
  Delays <- ShortAndLong
  Lags <- NoLag
  Horizon = 4
PROPERTY
  TimersLeave
CHECK_DEADLOCK FALSE
