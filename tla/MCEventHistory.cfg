CONSTANTS
  a = a
  b = b
  none = none
  star = star
  t1 = t1
  t2 = t2
  sys = sys
  Threads = {t1, t2, sys}
  Mortal = {t1, t2}
  Id <- MCIds
  Names <- MCNames
  Empty = none
  DoubleStar = star
  Asked <- AllPatterns
  Present <- AllPaths
  Paths <- MCPaths
  Patterns <- MCPatterns
  Vals = {x}
  Matchers = {{x}}
  MinHistory = 1
  Key <- MCKeys
  MaxRank = 5
  MaxCues = 2
SPECIFICATION FairSpec
INVARIANTS TypeOK NoSyncError SleepsOnlyThroughTheGap MatchersHaveSleepers
  TreeSearchIsThePattern WakingImpliesFinding WakesWhereEachTakesOne
PROPERTY CueWakesSleepers
CHECK_DEADLOCK FALSE
