SPECIFICATION Spec
CONSTANTS
  c1 = c1
  c2 = c2
  c3 = c3
  p1 = p1
  p2 = p2
  a1 = a1
  a2 = a2
  t1 = t1
  None = None
  Calls <- MCCalls
  Processes <- MCProcesses
  Clients <- MCClients
  Tokens <- MCTokens
  Deployments <- MCDeployments
  Requests <- MCRequests
  Window = 2
  DefaultLimit = 2
  CreateLimit = 1
  MaxDepth = 10
  MaxComplexity = 100
SYMMETRY Symmetry
INVARIANTS
  TypeOK
  FleetLimit
  HandledWasAllowed
PROPERTY
  RefusedHadReason
