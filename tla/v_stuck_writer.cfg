CONSTANTS
  a = a
  b = b
  None = None
  Sessions = {a, b}
  MaxId = 2
  Commands <- PipeTells
  MaxTyped = 1
  Overlap = FALSE
SPECIFICATION FairSpec
PROPERTY WriterGetsThrough
CHECK_DEADLOCK FALSE
