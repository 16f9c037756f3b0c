CONSTANTS
  j1 = j1
  j2 = j2
  r1 = r1
  b1 = b1
  c1 = c1
  d1 = d1
  r2 = r2
  c2 = c2
  x = x
  Nobody = nobody
  Jobs = {j1, j2}
  Threads = {r1, r2}
  Parent <- MCParent
  JobOf <- MCJobOf
  NameOf <- NoneNamed
  Names = {}
  StopAll = {all}
  StopOne = {one}
  Rebooters = {}
SPECIFICATION FairSpec
PROPERTIES StopReturns
CHECK_DEADLOCK FALSE
