SPECIFICATION FairSpec
CONSTANTS
  Requests = {r1, r2}
  Workers = {w1}
  Timer = timer
  CompletionWorkers = {c1}
  None = None
  MaxConcurrency = 1
  MaxQueueSize = 1
  MaxQueueWait = 1
  MaxSyncJobs = 1
  MaxSyncVehicles = 1
  MaxClock = 1
  RequestSizes <- SmallSizes
PROPERTIES
  EveryAcceptedAnswered
  DestructorReturns
  ImplementsService
