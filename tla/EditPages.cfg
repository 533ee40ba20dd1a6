SPECIFICATION MCSpec
CONSTANTS
  MaxVersion = 1
  MaxVisits = 2
  Runs = {"r1", "r2"}
  NoRun = "none"
  MaxPolls = 1
  Places = {"a", "b"}
  PageSizes = {1, 2}
  DefaultSize = 1
  LastTime = 1
  MaxQuantity = 1
  MaxRows = 2
  MaxId = 2
  Details = {"name"}
  Clearable = {"name"}
  HourTexts = {12, 13}
  MinuteTexts = {30, 75}
  MaxVehicles = 1
  Files <- MCFiles
  Fields <- MCFields
  Reads = {1, 2}
  None = None
  NoOverride = NoOverride
  FileKinds = {"session", "large", "table", "rows", "text"}
  MaxUploads = 2
  Texts = {"main st"}
  Interval = 2
  Slots = {1, 2}
  MaxOptions = 1
  MaxMounts = 2
  MaxTime = 5
INVARIANTS
  ConsentPerRun
  AddressesAreSound
  ImportedUnderItsColumns
PROPERTIES
  RoutesMatchLists
  OptimizingEnds
  DeparturesKept
  DraftKept
  SpacedWhenAlone
CHECK_DEADLOCK FALSE
