SPECIFICATION Spec
CONSTANTS
  Texts = {"main st"}
  Interval = 2
  Slots = {1, 2}
  MaxOptions = 1
  MaxMounts = 2
  MaxTime = 6
PROPERTIES
  BudgetShared
CHECK_DEADLOCK FALSE
