CONSTANTS
  a = a
  b = b
  none = none
  star = star
  t1 = t1
  t2 = t2
  sys = sys
  Threads = {t1, sys}
  Mortal = {t1}
  Id <- MCIds
  Names <- MCNames
  Empty = none
  DoubleStar = star
  Asked <- MCPatterns
  Present <- MCPaths
  Paths <- MCPaths
  Patterns <- MCPatterns
  Vals = {x}
  Matchers = {{x}}
  MinHistory = 1
  Key <- MCKeys
  MaxRank = 3
  MaxCues = 2
SPECIFICATION Spec
INVARIANT NoLostWakeup
CHECK_DEADLOCK FALSE
