SPECIFICATION Spec
CONSTANTS
  MaxFiles = 2
  Handlers = {h1}
  Reloads = {r1}
  Closers = {client}
  Loop = loop
  MaxVersion = 2
  MaxSaves = 4
  MaxStarts = 1
INVARIANTS
  TypeOK
  FreshOrPending
  FailedStartWatchesNothing
  CancelledLoopWatchesNothing
PROPERTIES
  RefinesConfigView
CHECK_DEADLOCK FALSE
