SPECIFICATION Spec
CONSTANTS
  a = a
  none = none
  v = v
  r = r
  s1 = s1
  s2 = s2
  Tags <- OneTag
  TagRank <- TagOrder
  Values <- TwoValues
  NoValue = none
  Readers <- OneReader
  Savers <- TwoSavers
  Inodes = {1, 2, 3, 4, 5, 6}
  NoFile = 0
  Prefix <- AllTags
  Modes <- AllModes
  MaxRetry = 2
  AutoRetry = 1
  FirstLines <- AtFirst
  MaxTime = 2
  MaxSaves = 2
  MaxCrashes = 1
  MaxLeft = 2
INVARIANTS
  TypeOK
  WholeFile
  SaveReported
  NoStaleList
  NoLitter
SYMMETRY Alike
CHECK_DEADLOCK FALSE
