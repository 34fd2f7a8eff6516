CONSTANTS
  a = a
  b = b
  None = None
  Sessions = {a, b}
  MaxId = 2
  Commands <- Mixed
  MaxTyped = 2
  Overlap = FALSE
SPECIFICATION Spec
SYMMETRY Symmetry
CONSTRAINT TwoLines
INVARIANTS TypeOK  FilesNamed ShownInOrder 
CHECK_DEADLOCK FALSE
