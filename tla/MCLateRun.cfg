CONSTANTS
  c1 = c1
  c2 = c2
  r1 = r1
  r2 = r2
  NoCard = NoCard
  Cards = {}
  Runs = {r1, r2}
  Slow = {r2}
  Noisy = {r1, r2}
  MaxPresses = 1
  MaxReloads = 0
  Hasty = FALSE
SPECIFICATION Spec
PROPERTY HeardUnlessStopped
CHECK_DEADLOCK FALSE
