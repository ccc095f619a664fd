SPECIFICATION Spec
CONSTANTS
  Sess = {1}
  Events = {1, 2}
  SessLimit = 2
  ScheduledLimit = 0
  QueueLimit = 1
  OutLimit = 2
  DeferLimit = 1
  Permitted = {1, 2}
  Redeliver = FALSE
  Streams = TRUE
  MaxFails = 1
  MaxCancels = 0
  MaxCrashes = 1
  MaxClientOps = 0
  MaxReserves = 0
  Chat <- SameChat
INVARIANTS
  PostedOnce
CHECK_DEADLOCK FALSE
