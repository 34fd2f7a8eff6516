CONSTANTS
  a = a
  b = b
  None = None
  Sessions = {a, b}
  Scripts <- SomeScripts
  MaxFakes = 1
SPECIFICATION Spec
INVARIANTS TypeOK ConnectionEnds
PROPERTIES  HangupEndsShell
CHECK_DEADLOCK FALSE
