SPECIFICATION FairSpec
CHECK_DEADLOCK FALSE
CONSTANTS
  NoBudget = NoBudget
  MaxTurns = 2
  MaxRetries = 1
  Budgets <- SomeBudgets
  Costs <- SomeCosts
  MaxCalls = 2
  InCap = 1
  OutCap = 1
  MaxUnasked = 1
  AskIds = {3}
PROPERTY NeverHangs
