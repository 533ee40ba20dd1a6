SPECIFICATION Spec
CONSTANTS
  JobIds = {j1, j2}
  Runtimes = {p1, p2}
  Workers <- WorkerIds
  WorkerCount = 1
  Mortal = {p1, p2}
  MaxQueueSize = 1
  MaxAttempts = 2
  MaxFaults = 0
  None = None
SYMMETRY Symmetry
INVARIANTS
  OneWorkerPerAttempt
  CompletionCountedOnce
  ShutdownLeavesNoOrphan
PROPERTIES
  AnswerIsFinal
CHECK_DEADLOCK FALSE
