SPECIFICATION FairSpec
CONSTANTS
  r1 = r1
  r2 = r2
  c1 = c1
  c2 = c2
  Owner = owner
  Old = old
  Requests <- MCRequests
  Consoles <- MCConsoles
  Pools <- MCPools
  TTL = 2
  Skew = 1
  MaxTime = 2
  LateRuns = 1
INVARIANTS
  OneAdministrator
  LateRequestsDoNothing
  AuditIsTrue
PROPERTIES
  LogoutWorks
  ImplementsAccess
  EveryoneIsAnswered
CHECK_DEADLOCK FALSE
