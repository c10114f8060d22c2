SPECIFICATION ProvidersSpec
CONSTANTS
  Calls = {"a", "b"}
  Requests <- MCRequests
  MaxAttempts = 2
  MaxTries = 2
  Leftovers = {1}
  MaxSessions = 2
  MaxMishaps = 1
  NoSession = 0
  Scripts <- MCScripts
  MaxLine = 3
  ChannelCap = 1
  MaxTurns = 3
  Histories <- MCHistories
  Replies <- MCReplies
  TypeValues <- MCTypes
CHECK_DEADLOCK FALSE
INVARIANTS
  ConfigFileKept
  ResumesWhereItStopped
  DeliveredInOrder
  StoredIsForwarded
  RequestsAreWellFormed
  NoCallIsLost
PROPERTIES
  CallEnds
  StreamSettles
