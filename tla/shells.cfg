CONSTANTS
  None = None
  MaxN = 2
  MaxFd = 8
  RasFds = 5
  MaxPrograms = 6
  MaxOverdue = 2
  MaxLen = 3
  PipesIntoDue = FALSE
  Shells = {"ras", "rwg", "abbie"}
  Lines <- LegalLines
SPECIFICATION Spec
INVARIANTS TypeOK SeesEnd NoLeak
 
CHECK_DEADLOCK FALSE
