SPECIFICATION Spec
CONSTANTS
  r1 = r1
  r2 = r2
  w1 = w1
  w2 = w2
  dir = dir
  db = db
  u1 = u1
  u2 = u2
  u3 = u3
  Requests <- MCRequests
  Targets <- MCTargets
  DbTargets <- MCDbTargets
  Workers <- MCWorkers
  MaxBatch = 1
  Units <- MCThreeUnits
  LocatorOf <- MCSameIdentity
  StartProgress = 1
  ProgressCap = 2
  FullProgress = 3
  MaxCrashes = 1
  MaxFaults = 2
  UnknownCommits = TRUE
  LateRaises = FALSE
SYMMETRY MCSymmetry
INVARIANTS
  TypeOK
  NoStrandedJob
  WritesRespectChecks
  InventoryMatchesTotals
  ExclusiveScan
PROPERTIES
  FailedIsFinal
CHECK_DEADLOCK FALSE
