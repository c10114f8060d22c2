SPECIFICATION Spec
CONSTANTS
  Sessions = {"s1", "s2"}
  Tools <- TwoHosts
  Patterns <- Globs
  Base <- Root
  Tree <- Files
  PipeCap = 1
  ArgSize = 1
  MaxSaid = 1
  MaxCalls = 2
CHECK_DEADLOCK FALSE
INVARIANT
  GlobFinds
