SPECIFICATION Spec
CHECK_DEADLOCK FALSE
CONSTANTS
  w1 = w1
  NoProject = NoProject
  Workers = {w1}
  Projects <- Unscoped
  Keys <- SomeKeys
  Modes <- AllModes
  Guarded = TRUE
  AutoCompact = TRUE
  Timeout = 1
  MaxContext = 2
  MaxSecond = 0
  MaxTurns = 2
  MaxTicks = 1
  MaxCloses = 0
INVARIANT
  PersistentMemory
