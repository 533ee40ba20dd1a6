SPECIFICATION Spec
CONSTANTS
  JobIds = {j1, j2}
  Runtimes = {p1}
  Workers <- WorkerIds
  WorkerCount = 1
  Mortal = {}
  MaxQueueSize = 1
  MaxAttempts = 1
  MaxFaults = 0
  None = None
PROPERTIES
  AdmissionAtomic
CHECK_DEADLOCK FALSE
