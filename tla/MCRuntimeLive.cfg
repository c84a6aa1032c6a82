CONSTANTS
  op = op  p1 = p1  p2 = p2  r1 = r1  None = None
  Tasks <- MCTasks
  Operations <- MCOperations
  Attempts <- MCAttempts
  Pins <- MCPins
  Runtimes <- OneRuntime
  Keys <- MCKeys
  Requests = {}
  Identities <- IdempotentFirstIds
  ConfigChoices <- IdempotentFirst
  Deps <- Chain
  Reconfigurable = {}
  HostIntents = {}
  MaxPerTask = 2
  MaxReconfigured = 0
  EventCapacity = 1
  MayLoseAnswers = FALSE
  HostRetriesFirst = TRUE
  MaxRevision = 20
SPECIFICATION FairSpec
INVARIANT ViewIsCurrent
PROPERTY EventuallySettles
CHECK_DEADLOCK FALSE
