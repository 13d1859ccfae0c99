SPECIFICATION Spec
CONSTANTS
  MaxFiles = 1
  Handlers = {}
  Reloads = {r1}
  Closers = {client}
  Loop = loop
  MaxVersion = 1
  MaxSaves = 1
  MaxStarts = 1
INVARIANTS
  NothingWatchedAfterClose
CHECK_DEADLOCK FALSE
