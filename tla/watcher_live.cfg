SPECIFICATION MCFairSpec
CONSTANTS
  MaxFiles = 2
  Handlers = {}
  Reloads = {r1}
  App = app
  Closers = {app}
  Loop = loop
  MaxVersion = 2
  MaxSaves = 2
  MaxStarts = 1
PROPERTIES
  StartReturns
  CloseReturns
  EventuallyFresh
  FxStops
  FxStopsCleanly
  NextReloadHeals
CHECK_DEADLOCK FALSE
