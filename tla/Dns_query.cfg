SPECIFICATION Spec
CONSTANTS
  user1 = user1
  s1 = s1
  s2 = s2
  s3 = s3
  loop = loop
  junk = junk
  none = none
  LabelMax = 3
  NameMax = 48
  PacketSize = 48
  MaxAddrs = 2
  AddrLen <- SmallAddrs
  Servers <- AllServers
  Loopback = loop
  None = none
  Arguments <- UserArguments
  Confs <- SomeConfs
  Names <- SomeNames
  Plans <- MainPlans
  Contents <- SomeContents
  Attempts = 2
  AnswerSize = 100
INVARIANTS
  TypeOK
  Asks
  Reports
CHECK_DEADLOCK FALSE
