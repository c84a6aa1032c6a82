CONSTANTS
  Clients = {c1}
  Kinds = {"Wake", "DispatchEffect", "Recover", "CancelTask", "DrainExecutionEvents", "Shutdown"}
  Capacity = 2
  MaxItems = 4
  None = None
SPECIFICATION FairSpec
INVARIANTS LosslessOrder ExitIsComplete
PROPERTY EveryCommandAnswered
