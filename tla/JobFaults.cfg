SPECIFICATION Spec
CONSTANTS
  JobIds = {j1}
  Runtimes = {p1, p2}
  Workers <- WorkerIds
  WorkerCount = 1
  Mortal = {p1, p2}
  MaxQueueSize = 1
  MaxAttempts = 3
  MaxFaults = 2
  None = None
INVARIANTS
  AttemptsBounded
  ResultOfLastAttempt
PROPERTIES
  ImplementsLifecycle
CHECK_DEADLOCK FALSE
