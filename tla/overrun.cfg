SPECIFICATION LeaseSpec
CONSTANTS
  MaxSubmissions = 2
  MaxCancels = 0
  MaxLeaves = 0
  Kinds = {"answer"}
INVARIANTS
  OneTurnAtATime
CHECK_DEADLOCK FALSE
