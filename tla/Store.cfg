SPECIFICATION StoreSpec
CONSTANTS
  t1 = t1
  p1 = p1
  p2 = p2
  p3 = p3
  Tasks = {t1}
  Pollers = {p1, p2, p3}
  Resident = p1
  StaleAfter = 2
  RetryDelay = 1
  Period = 2
  MaxRetries = 2
  MaxLag = 1
  DueChoices = {0, 1}
  MaxMishaps = 2
  o1 = o1
  o2 = o2
  Processes = {o1, o2}
  MaxDeaths = 1
INVARIANTS
  HolderOwnsRow
  FiresOnce
  RetriesExact
  OpenMeansCurrent
  RowsSurvive
  RefusedOnlyIfDisturbed
PROPERTIES
  ImplementsDispatch
  DueIsHandedOut
  ClaimEnds
