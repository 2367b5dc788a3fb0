SPECIFICATION FairSpec
CONSTANTS
  Paths <- MCPaths
  Hidden <- MCHidden
  Unsupported <- MCUnsupported
  Kinds <- MCKinds
  Chunks = 2
  MaxChanges = 2
INVARIANTS
  EachPathOnce
  StableMeansOneVersion
  NothingOverlooked
  WalksByName
  InOrder
PROPERTIES
  OnlyDamageStopsTheWalk
CHECK_DEADLOCK FALSE
