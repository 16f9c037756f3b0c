CONSTANTS
  c1 = c1
  c2 = c2
  r1 = r1
  r2 = r2
  NoCard = NoCard
  Cards = {}
  Runs = {r1, r2}
  Slow = {}
  Noisy = {r1, r2}
  MaxPresses = 2
  MaxReloads = 1
  Hasty = FALSE
SPECIFICATION Spec
INVARIANT SoundsAreKnown
PROPERTIES HeardUnlessStopped FadesEnd RunsAreAnswered
CHECK_DEADLOCK FALSE
