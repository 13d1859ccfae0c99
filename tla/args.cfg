SPECIFICATION Spec
CONSTANTS
  port = port
  serverPort = serverPort
  debug = debug
  empty = empty
  pPort = pPort
  pDebug = pDebug
  NoPath = NoPath
  MaxTokens = 3
  Names = {port, serverPort, debug, empty}
  Paths = {pPort, pDebug}
  PathOf <- PathOfNames
  Inputs <- CommandLines
INVARIANTS
  TypeOK
  EveryFlagFound
  ArgsPrecedence
  FailsIffAmbiguous
CHECK_DEADLOCK FALSE
