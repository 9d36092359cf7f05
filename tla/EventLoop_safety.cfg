SPECIFICATION Spec
CONSTANTS
  h1 = h1
  h2 = h2
  h3 = h3
  f1 = f1
  f2 = f2
  f3 = f3
  Handlers <- ThreeHandlers
  Fds <- ThreeFds
  Types <- SomeTypes
  MaxTimers = 2
  MaxListeners = 2
  TicksPerSec = 2
  Delays <- NowOrLater
  Horizon = 4
INVARIANTS
  TypeOK
  QueueOrdered
PROPERTIES
  BoundedDisplacement
  AllReadyServed
SYMMETRY Alike
CHECK_DEADLOCK FALSE
