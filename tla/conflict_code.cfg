SPECIFICATION Spec
CONSTANTS
  r1 = r1
  r2 = r2
  r3 = r3
  t1 = t1
  t2 = t2
  t3 = t3
  Requests <- MCTwoRequests
  Targets <- MCTwoTargets
  MaxBatch = 2
INVARIANTS
  ConflictCodeIsStable
CHECK_DEADLOCK FALSE
