SPECIFICATION Spec
CONSTANTS
  Keys = {a}
  Loads = {l1}
  NDotenv = 1
  NFiles = 1
  NCustom = 0
  Priorities <- OnlyDefault
  MaxDefining = 2
  MaxLoads = 1
  MaxEdits = 0
INVARIANTS
  LastListedWins
CHECK_DEADLOCK FALSE
