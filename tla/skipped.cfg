SPECIFICATION DiscordSpec
CONSTANTS
  MaxDispatches = 3
  PendingLimit = 2
  Troubles <- Overtaken
INVARIANTS
  NothingSkipped
CHECK_DEADLOCK FALSE
