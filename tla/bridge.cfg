SPECIFICATION BridgeSpec
CONSTANTS
  Sess = {1}
  Events = {1, 2}
  SessLimit = 2
  ScheduledLimit = 0
  QueueLimit = 2
  OutLimit = 2
  DeferLimit = 1
  Permitted = {1, 2}
  Redeliver = TRUE
  Streams = TRUE
  MaxFails = 1
  MaxCancels = 0
  MaxCrashes = 2
  MaxClientOps = 0
  MaxReserves = 0
  Chat <- SameChat
  Procs = {"daemon"}
  Keys = {1, 2, 3, 4}
  Global = {1, 2}
  Limit = 3
  IndexLimit = 2
  Times = {1, 3}
  MaxCalls = 4
  MaxMisses = 1
INVARIANTS
  TypeOK
  HandledOnce
  PostedOncePerStop
  NoEventLost
  KeptAtLimits
  
  NewestKept
PROPERTIES
  UnsafeNeverReplayed
  CancelMeansStopped
  OutboxPromise
  LeasesLostTwoWays
CHECK_DEADLOCK FALSE
