CONSTANTS
  a = a
  b = b
  c = c
  None = None
  Sessions = {a, b, c}
  MaxId = 2
  Commands <- Login
  MaxTyped = 0
  Overlap = FALSE
SPECIFICATION Spec
SYMMETRY Symmetry
CONSTRAINT OneLeaves
INVARIANTS IdsDistinct MarkedIffOwned PidOfHolder SerialInv
PROPERTY RegistrySpec
CHECK_DEADLOCK FALSE
