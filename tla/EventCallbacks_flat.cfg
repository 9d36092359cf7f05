SPECIFICATION FairSpec
CONSTANTS
  a1 = a1
  a2 = a2
  k1 = k1
  k2 = k2
  Addrs <- TwoAddrs
  Keys <- TwoKeys
  NoKey = NoKey
  MaxCallbacks = 3
  MaxActive = 2
  MaxDepth = 1
  MaxCalls = 2
INVARIANT
  StandsOnLinked
PROPERTY
  DispatchEnds
CHECK_DEADLOCK FALSE
