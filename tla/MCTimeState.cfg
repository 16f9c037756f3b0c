CONSTANTS
  a = a
  b = b
  none = none
  star = star
  t1 = t1
  t2 = t2
  sys = sys
  Threads = {t1, t2, sys}
  Mortal = {t1, t2}
  Id <- MCIds
  Names <- MCNames
  Empty = none
  DoubleStar = star
  Asked <- OnePattern
  Present <- MCPaths
  Paths <- MCPaths
  Patterns <- OnePattern
  Vals = {x, y}
  Matchers = {{x}}
  MinHistory = 2
  Key <- MCKeys
  MaxRank = 3
  MaxCues = 3
SPECIFICATION Spec
INVARIANTS LookupsAreExact LeavesFollowCueOrder
PROPERTY ImplementsTimeState
CHECK_DEADLOCK FALSE
