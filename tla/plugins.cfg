SPECIFICATION PluginsSpec
CONSTANTS
  Turns = {1, 2}
  Workers = 2
  MaxAsks = 1
  Jobs = {"look", "change", "propose"}
  GateLimit = 1
  ToolSteps = 1
  CallLimit = 3
  Setups <- SomeSetups
  Commands = {"first", "second"}
  Forms = {FALSE}
  Automatic = TRUE
  MaxBuild = 3
  MaxOps = 2
  MaxFaults = 1
  MaxPosts = 4
  InboxLimit = 2
  SocketLimit = 1
  Inbound = {1, 2, 3}
  ReceiveLimit = 2
  MaxFailures = 3
  Messages = {1, 2, 3, 4}
  QueueLimit = 2
  IdLimit = 3
  BatchSize = 2
  MaxRepeats = 2
  MaxDispatches = 3
  PendingLimit = 2
  Troubles <- SomeTroubles
INVARIANTS
  WaitsForSomething
  ApprovedOnly
  MarkedFirst
  RequeuedHasNoEffect
  OwnWorkOnly
  InstalledAsLocked
  NothingSkipped
  InOrder
  MessagesKept
PROPERTIES
  CancelledStops
  NeverOlder
CHECK_DEADLOCK FALSE
