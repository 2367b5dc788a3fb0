SPECIFICATION FairSpec
CONSTANTS
  r1 = r1
  r2 = r2
  w1 = w1
  w2 = w2
  dir = dir
  db = db
  u1 = u1
  u2 = u2
  u3 = u3
  Requests <- MCOneRequest
  Targets <- MCTargets
  DbTargets <- MCDbTargets
  Workers <- MCWorkers
  MaxBatch = 2
  Units <- MCOneUnit
  LocatorOf <- MCOwnIdentity
  StartProgress = 1
  ProgressCap = 2
  FullProgress = 3
  MaxCrashes = 1
  MaxFaults = 2
  UnknownCommits = FALSE
  LateRaises = FALSE
PROPERTIES
  ImplementsContract
  JobsEnd
  SecretsGo
  JobsMoveForward
  BatchesMoveForward
CHECK_DEADLOCK FALSE
