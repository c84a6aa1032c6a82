CONSTANTS
  Clients = {c1, c2}
  Kinds = {"Wake", "DrainExecutionEvents", "Shutdown"}
  Capacity = 1
  MaxItems = 2
  None = None
SPECIFICATION Spec
INVARIANTS NoLostWakeup TruthfulAnswers EveryItemOnce
SYMMETRY ClientSymmetry
