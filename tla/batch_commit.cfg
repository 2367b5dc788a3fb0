SPECIFICATION FairSpec
CONSTANTS
  r1 = r1
  r2 = r2
  r3 = r3
  t1 = t1
  t2 = t2
  t3 = t3
  Requests <- MCRequests
  Targets <- MCTargets
  MaxBatch = 2
INVARIANTS
  SomeoneIsAdmitted
  SingleIsNeverAborted
PROPERTIES
  ImplementsAdmission
  EveryRequestAnswered
CHECK_DEADLOCK FALSE
