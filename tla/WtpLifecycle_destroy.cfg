SPECIFICATION LSpec
CONSTANTS
  MaxTimers = 1
  UsecPerSec = 100
  AlmostNow = 1
  Delays <- OneDelay
  Lags <- NoLag
  Horizon = 2
INVARIANT
  NoUseAfterFree
CHECK_DEADLOCK FALSE
