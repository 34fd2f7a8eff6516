CONSTANTS
  a = a
  b = b
  None = None
  Sessions = {a, b}
  MaxId = 2
  Lines <- Mixed
  MaxTyped = 2
  MaxStarts = 2
SPECIFICATION FairSpec
INVARIANTS PipesArePresent
PROPERTY LinesAreServed
CHECK_DEADLOCK FALSE
