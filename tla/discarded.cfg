SPECIFICATION Spec
CONSTANTS
  Turns = {1, 2}
  Workers = 2
  MaxAsks = 1
  Jobs = {"look", "change", "propose"}
  GateLimit = 1
  ToolSteps = 1
  CallLimit = 3
  Setups <- Terminals
INVARIANTS
  DiscardedStays
CHECK_DEADLOCK FALSE
