SPECIFICATION Spec
CHECK_DEADLOCK FALSE
CONSTANTS
  w1 = w1
  w2 = w2
  NoProject = NoProject
  Workers = {w1, w2}
  Projects <- Web
  Keys <- SomeKeys
  Modes <- AllModes
  Guarded = TRUE
  AutoCompact = TRUE
  Timeout = 1
  MaxContext = 1
  MaxSecond = 0
  MaxTurns = 2
  MaxTicks = 1
  MaxCloses = 1
SYMMETRY Interchangeable
INVARIANTS
  ExchangesKept
  NothingDropped
  Continuity
