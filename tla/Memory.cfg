SPECIFICATION MemorySpec
CONSTANTS
  Convs = {"c1", "c2"}
  Notes = {"o1"}
  Keys = {"k1"}
  Rules = {"r1", "r2"}
  Writers = {"w1", "w2"}
  Callers = {"ticker", "host"}
  Loop = "ticker"
  Cap = 1
  MaxNow = 2
  MaxWrites = 3
  MaxTurns = 2
  MinHours = 2
  MinSessions = 1
  MaxAge = 1
  MaxOutcomes = 1
  Areas <- Separately
  Builds = {"b1", "b2"}
  Languages = {"English"}
  NoLanguage = "unset"
  Starts <- FirstAndLater
  MaxFacts = 5
  MaxBegun = 3
  MaxCalls = 2
  Creators = {"caller1", "caller2"}
  Runners = {"p1", "p2"}
  Words <- MCWords
  Requests <- MCRequests
  FirstDay = 5
  Horizon = 7
  Plans <- MCPlans
  MaxMishaps = 2
CHECK_DEADLOCK FALSE
INVARIANTS
  RunsSpaced
  RecentMessagesKept
  ReadsAgree
  HintsRunInTurn
  TasksAsAsked
PROPERTIES
  OwnLessonKept
  SignalledLoopExits
