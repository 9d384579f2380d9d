CONSTANTS
  r1 = r1
  r2 = r2
  c1 = c1
  c2 = c2
  Runs <- MCRuns
  Clients <- MCClients
  Concurrent = 2
  MaxRecent = 2
  MaxRestarts = 1
  Workloads <- MCWorkloads
SPECIFICATION Spec
CHECK_DEADLOCK FALSE
INVARIANTS  OutputIsComplete
PROPERTIES DetachIsOwn AttachEnds
