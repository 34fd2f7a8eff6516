CONSTANTS
  a = a
  b = b
  c = c
  None = None
  Sessions = {a, b, c}
  MaxId = 2
  Lines <- FourLines
  Statuses = {1}
  Left <- OwnPipe
  MaxActs = 2
SPECIFICATION Spec
INVARIANTS TypeOK NoneOverwritten NoLostWakeup
PROPERTY RegistrySpec
SYMMETRY Symmetry
CHECK_DEADLOCK FALSE
