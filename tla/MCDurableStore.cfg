CONSTANTS
  t1 = t1  t2 = t2  op = op  a1 = a1  a2 = a2  i1 = i1  p1 = p1  c1 = c1  c2 = c2
  None = None
  Tasks <- MCTasks
  Operations <- MCOperations
  Attempts <- MCAttempts
  Identities <- MCIdentities
  Pins <- MCPins
  Clients <- MCClients
  Requests <- MCRequests
  Keys <- MCKeys
  MaxRevision = 7
SPECIFICATION Spec
SYMMETRY Symmetry
INVARIANTS LineageHolds LedgerRebuildsRun
PROPERTIES FactsAreFinal NoDispatchAfterCancellation
CHECK_DEADLOCK FALSE
