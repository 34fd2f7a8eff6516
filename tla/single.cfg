CONSTANTS
  a = a
  b = b
  c = c
  None = None
  Sessions = {a, b, c}
  MaxId = 2
  Lines <- Pipes
  MaxTyped = 1
  MaxStarts = 2
SPECIFICATION Spec
SYMMETRY Symmetry
INVARIANTS TypeOK  PipesArePresent NeverReadsIdle
PROPERTY RegistrySpec
CHECK_DEADLOCK FALSE
