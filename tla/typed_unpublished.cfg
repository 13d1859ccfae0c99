SPECIFICATION TypedSpec
CONSTANTS
  MaxFiles = 1
  Handlers = {h1}
  Reloads = {r1}
  Closers = {}
  Loop = loop
  MaxVersion = 1
  MaxSaves = 1
  MaxStarts = 1
INVARIANTS
  TypedPublishesEveryReload
CHECK_DEADLOCK FALSE
