SPECIFICATION Spec
CONSTANTS
  Requests = {r1, r2, r3}
  Workers = {w1}
  Timer = timer
  CompletionWorkers = {c1, c2}
  None = None
  MaxConcurrency = 1
  MaxQueueSize = 1
  MaxQueueWait = 1
  MaxSyncJobs = 1
  MaxSyncVehicles = 1
  MaxClock = 1
  RequestSizes <- SizesAtLimits
SYMMETRY Symmetry
INVARIANTS
  WithinLimits
  ExactlyOnce
  HonestReply
  StampedBeforeReply
  CleanShutdown
PROPERTIES
  ShutdownStartsNothing
