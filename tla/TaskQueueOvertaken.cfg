SPECIFICATION Spec
CONSTANTS
  t1 = t1
  t2 = t2
  p1 = p1
  p2 = p2
  Tasks = {t1, t2}
  Pollers = {p1, p2}
  Resident = p1
  StaleAfter = 2
  RetryDelay = 1
  Period = 2
  MaxRetries = 2
  MaxLag = 1
  DueChoices = {0, 1}
  MaxMishaps = 1
INVARIANTS
  OneHolder
