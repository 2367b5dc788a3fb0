SPECIFICATION Spec
CONSTANTS
  WINDOW_SIZE = 6
  OVERLAP_SIZE = 3
  Groups = 2
  GroupLength = 1
  Char = {"0", "1", " "}
  Detect <- Candidates
  MaxChunk = 4
  MaxChunks = 3
  MaxText = 9
INVARIANTS
  CountedOnce
CHECK_DEADLOCK FALSE
