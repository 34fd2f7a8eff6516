CONSTANTS
  a = a
  b = b
  None = None
  Sessions = {a, b}
  MaxId = 1
  Commands <- Nests
  MaxTyped = 2
  Overlap = FALSE
SPECIFICATION FairSpec
ACTION_CONSTRAINT Few
INVARIANT MarkedIsOwned
PROPERTIES LoginEnds 
CHECK_DEADLOCK FALSE
