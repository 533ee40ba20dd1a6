SPECIFICATION FairSpec
CONSTANTS
  JobIds = {j1}
  Runtimes = {p1, p2}
  Workers <- WorkerIds
  WorkerCount = 2
  Mortal = {p1}
  MaxQueueSize = 1
  MaxAttempts = 2
  MaxFaults = 0
  None = None
PROPERTIES
  EveryJobFinishes
  RuntimesStop
CHECK_DEADLOCK FALSE
