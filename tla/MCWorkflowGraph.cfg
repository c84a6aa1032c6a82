CONSTANTS
  a = a  b = b  c = c  p1 = p1  p2 = p2
  NoView = NoView
  Tasks <- MCTasks
  Planners <- MCPlanners
  Batches <- MCBatches
  MaxRevision = 3
SPECIFICATION Spec
SYMMETRY Symmetry
INVARIANTS TypeOK ReplayReproducesGraph ReadyUnlessDone
PROPERTY CommitsOnSeenTopology
CHECK_DEADLOCK FALSE
