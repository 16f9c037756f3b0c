CONSTANTS
  c1 = c1
  c2 = c2
  r1 = r1
  r2 = r2
  NoCard = NoCard
  Cards = {c1, c2}
  Runs = {r1, r2}
  Slow = {r2}
  Noisy = {r2}
  MaxPresses = 1
  MaxReloads = 1
  Hasty = FALSE
SPECIFICATION Spec
INVARIANTS TypeOK SoundsAreKnown NoRunIsOrphaned StoppedOnlyIfAsked
PROPERTIES CardsRest
CHECK_DEADLOCK FALSE
