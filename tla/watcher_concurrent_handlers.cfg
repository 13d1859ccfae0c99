SPECIFICATION Spec
CONSTANTS
  MaxFiles = 1
  Handlers = {h1}
  Reloads = {r1, r2}
  Closers = {client}
  Loop = loop
  MaxVersion = 2
  MaxSaves = 2
  MaxStarts = 1
INVARIANTS
  HandlersTakeTurns
CHECK_DEADLOCK FALSE
