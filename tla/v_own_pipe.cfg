CONSTANTS
  a = a
  b = b
  None = None
  Sessions = {a, b}
  MaxId = 1
  Lines <- Pipes
  MaxTyped = 1
  MaxStarts = 1
SPECIFICATION Spec
INVARIANT FilesOfUsers
CHECK_DEADLOCK FALSE
