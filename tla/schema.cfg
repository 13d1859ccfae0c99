CONSTANTS
  Outer = Outer
  Inner = Inner
  Root = Outer
  Types <- MCTypes
  Letters = {"x"}
  Segments <- MCSegments
  Pieces <- MCPieces
  Inputs <- MCInputs
  Written <- MCWritten
  Normalized <- MCNormalized
  Cases <- MCCases
SPECIFICATION FlagsSpec
INVARIANTS
  OnlyFaultsRejected
  BindingsAreLeaves
  FlagsTypeOK
  BindAllOrNothing
  FlagsReachTheirFields
  ValueFollowsOps
  RoundTrips
CHECK_DEADLOCK FALSE
