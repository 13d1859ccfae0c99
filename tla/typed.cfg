SPECIFICATION TypedSpec
CONSTANTS
  MaxFiles = 1
  Handlers = {h1, h2}
  Reloads = {r1}
  Closers = {client}
  Loop = loop
  MaxVersion = 2
  MaxSaves = 2
  MaxStarts = 2
INVARIANTS
  TypedSnapshotValid
  TypedHandlerSees
  TypedCatchesUp
  HandlerSeesItsConfig
  HandlersUpToDate
PROPERTIES
  TypedRefinesConfigView
  NoReloadAfterReturn
CHECK_DEADLOCK FALSE
