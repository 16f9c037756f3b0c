CONSTANTS
  d1 = d1
  b1 = b1
  u1 = u1
  r1 = r1
  r2 = r2
  Own = Own
  Defs <- MCDefs
  Bufs <- MCBufs
  Urls <- MCUrls
  Runs <- MCRuns
  Names <- MCNames
  Outboxes <- MCOutboxes
  MaxAsks = 2
  MaxSounds = 3
  MaxStops = 1
  Impatient = TRUE
SPECIFICATION Spec
PROPERTY SoundsAreALine
CHECK_DEADLOCK FALSE
