SPECIFICATION Spec
CONSTANTS
  a1 = a1
  a2 = a2
  k1 = k1
  k2 = k2
  Addrs <- TwoAddrs
  Keys <- TwoKeys
  NoKey = NoKey
  MaxCallbacks = 3
  MaxActive = 2
  MaxDepth = 2
  MaxCalls = 2
INVARIANTS
  TypeOK
  OneListEach
PROPERTIES
  StopIsEffective
  InOrderSpec
CHECK_DEADLOCK FALSE
