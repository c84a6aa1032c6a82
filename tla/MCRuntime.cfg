CONSTANTS
  op = op  p1 = p1  p2 = p2  r1 = r1  None = None
  Tasks <- MCTasks
  Operations <- MCOperations
  Attempts <- MCAttempts
  Pins <- MCPins
  Runtimes <- OneRuntime
  Keys <- MCKeys
  Requests = {}
  Identities <- EffectLastIds
  ConfigChoices <- EffectLast
  Deps <- Chain
  Reconfigurable = {1}
  HostIntents <- HostPrepares
  MaxPerTask = 2
  MaxReconfigured = 1
  EventCapacity = 1
  MayLoseAnswers = TRUE
  HostRetriesFirst = TRUE
  MaxRevision = 8
SPECIFICATION Spec
SYMMETRY PinSymmetry
INVARIANTS ObservationsAreDurable NothingLost DrainedInOrder  OneAttemptUntilDispatch
PROPERTY ImplementsContract
CHECK_DEADLOCK FALSE
