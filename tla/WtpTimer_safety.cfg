SPECIFICATION Spec
CONSTANTS
  MaxTimers = 3
  UsecPerSec = 3
  AlmostNow = 1
  Delays <- ShortAndLong
  Lags <- SomeLag
  Horizon = 5
INVARIANTS
  TypeOK
  QueueOrder
  ActiveHead
  NoMissedWakeup
  ArgHandedOnce
  Bookkeeping
PROPERTY
  ServiceSpec
CHECK_DEADLOCK FALSE
