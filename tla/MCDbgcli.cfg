SPECIFICATION FairSpec
CONSTANTS
  Fallible <- MCFallible
  Lines <- MCLines
  WithLabels = TRUE
  MaxRuns = 2
  MaxLines = 2
INVARIANTS
  NoDanglingAccess
  LeavesNothing
  RepeatMeansTheSame
PROPERTIES
  ComesToAnEnd
CHECK_DEADLOCK FALSE
