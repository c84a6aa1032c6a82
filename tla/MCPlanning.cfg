CONSTANTS
  None = None
  IdOf <- MCIdOf
  Inputs <- MCInputs
  Restarts <- MCRestarts
SPECIFICATION Spec
INVARIANTS SearchIsExact LoadIsExact OrderIsTopological PlanSuffices RestoreIffSame
PROPERTY AlwaysAnswered
CHECK_DEADLOCK FALSE
