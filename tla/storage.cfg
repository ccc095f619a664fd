SPECIFICATION StoresSpec
CONSTANTS
  Saves = 4
  Torn = FALSE
  StuckMid = FALSE
  LeftoverSaves = 3
  Events = {e1, e2}
  MaxSubmissions = 2
  MaxCancels = 1
  MaxLeaves = 1
  Kinds = {"answer", "command", "compact"}
  Tasks = {t1}
  Policies <- SomePolicies
  MaxRuns = 3
  MaxTime = 1
  MaxFaults = 1
  MaxRequests = 1
  Concurrency = 2
  Period = 1
  Backoff = 1
  ReplayLimit = 1
INVARIANTS
  SchedulesTypeOK
  LoadAllowed
  SuccessKeptOverLeftovers
  AlwaysReadable
  EventKept
  AnswerKept
  OwnersMessageLast
  NothingElseSkipped
  CancelWaits
  OutcomeRecordedOnce
  ReportNotLost
  ReportedOnce
  OccurrenceRunsOnce
PROPERTIES
  Atomic
  HeldNotRun
SYMMETRY Alike
