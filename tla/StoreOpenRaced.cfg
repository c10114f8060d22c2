SPECIFICATION OpenSpec
CONSTANTS
  o1 = o1
  o2 = o2
  Processes = {o1, o2}
  MaxDeaths = 0
INVARIANT
  RaceIsFine
