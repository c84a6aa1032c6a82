CONSTANTS
  c1 = c1  c2 = c2  p1 = p1  p2 = p2  p3 = p3  None = None
  Compositions = {c1, c2}
  ModulesOf <- MCModules
  DependsOn <- MCDependsOn
  PluginsOf <- MCPlugins
  ActivateHooks = {1}
  DisposeHooks = {1, 2}
  MaxInterrupts = 2
SPECIFICATION FairSpec
INVARIANTS OnceAndDependentsFirst ReportIsExact NothingLeftBehind ExitKeepsAuthority
PROPERTY EventuallyReleased
CHECK_DEADLOCK FALSE
