SPECIFICATION Spec
CONSTANTS
  Sess = {1}
  Events = {1, 2}
  SessLimit = 2
  ScheduledLimit = 0
  QueueLimit = 1
  OutLimit = 2
  DeferLimit = 1
  Permitted = {1, 2}
  Redeliver = FALSE
  Streams = TRUE
  MaxFails = 1
  MaxCancels = 1
  MaxCrashes = 0
  MaxClientOps = 1
  MaxReserves = 1
  Chat <- SameChat
PROPERTIES
  CancelIsFinal
CHECK_DEADLOCK FALSE
