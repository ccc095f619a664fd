SPECIFICATION LiveSpec
CONSTANTS
  MaxSubmissions = 2
  MaxCancels = 0
  MaxLeaves = 1
  Kinds = {"answer", "compact"}
PROPERTIES
  FreeInTheEnd
  EventuallyClosed
CHECK_DEADLOCK FALSE
