SPECIFICATION Spec
CONSTANTS
  DdmSize = 3
  WordBits = 4
  IntBits = 2
  Base = 3
  Numbers <- FiveNumbers
  MaxNumLen = 4
  MaxIpLen = 3
  MaxArg = 2
  Strings <- SomeStrings
  Empty = ""
  Rank <- StringRank
  Strtol <- Number
  Itoa <- Text
  LinkSize = 1
  Pieces <- Parts
  LinkWords <- PartWords
  NoId = noid
  noid = noid
  FewStrings <- SomeFew
  t1 = t1
  t2 = t2
  t3 = t3
  t4 = t4
  none = none
  v = v
  Tags <- FourTags
  TagRank <- TagOrder
  Values <- TwoValues
  NoValue = none
INVARIANTS
  TypeOK
  NoDuplicates
  Members
  Reordered
  Placed
  FreeIsFree
  RoundTrip
  TagsAreMap
