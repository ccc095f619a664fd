SPECIFICATION SchedulesSpec
CONSTANTS
  Tasks = {t1}
  Policies <- SomePolicies
  MaxRuns = 3
  MaxTime = 2
  MaxFaults = 2
  MaxRequests = 1
  Concurrency = 2
  Period = 1
  Backoff = 1
  ReplayLimit = 1
PROPERTIES
  LiveRunsKept
