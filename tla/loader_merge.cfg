SPECIFICATION MCSpec
CONSTANTS
  Keys = {a}
  Loads = {l1, l2}
  NDotenv = 2
  NFiles = 2
  NCustom = 1
  Priorities <- Orders
  MaxDefining = 2
  MaxLoads = 2
  MaxEdits = 1
SYMMETRY Symmetry
INVARIANTS
  TypeOK
  Precedence
  DotenvFillsGaps
  MetricsAgree
PROPERTIES
  EnvNotClobbered
CHECK_DEADLOCK FALSE
