SPECIFICATION PartsSpec
CONSTANTS
  Runs = {r1, r2}
  Server = server
  PipeSize = 2
  MaxOutput = 1
  MaxWritten = 2
  None = None
INVARIANTS
  ChildReaped
  SuccessIsWhole
  TimeoutHonest
PROPERTIES
  RunReturns
  RequestsServed
  HealthServed
CHECK_DEADLOCK FALSE
