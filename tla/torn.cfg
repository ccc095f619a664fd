SPECIFICATION Spec
CONSTANTS
  Saves = 3
  Torn = TRUE
  StuckMid = FALSE
INVARIANTS
  LoadAllowed
