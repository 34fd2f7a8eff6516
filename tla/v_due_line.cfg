CONSTANTS
  None = None
  MaxN = 2
  MaxFd = 8
  RasFds = 5
  MaxPrograms = 3
  MaxOverdue = 2
  MaxLen = 2
  PipesIntoDue = TRUE
  Shells = {"rwg"}
  Lines <- LegalLines
SPECIFICATION Spec
INVARIANT BarFeedsNext
CHECK_DEADLOCK FALSE
