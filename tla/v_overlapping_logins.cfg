CONSTANTS
  a = a
  b = b
  None = None
  Sessions = {a, b}
  MaxId = 2
  Commands <- NobodyTypes
  MaxTyped = 0
  Overlap = TRUE
SPECIFICATION Spec
INVARIANT IdsDistinct
CHECK_DEADLOCK FALSE
