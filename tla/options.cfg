SPECIFICATION LoadSpec
CONSTANTS
  l1 = l1
  l2 = l2
  none = none
  files = files
  levels = levels
  entries = entries
  Loaders = {l1, l2}
  LoadsFrom = {l1}
  Arrays <- MCArrays
  Elems <- MCElems
  Fields = {"validateLevel", "logger"}
  Values = {"struct", "other"}
  Blank = none
  Extensions = {".yaml", ".txt"}
  DotenvFiles <- MCDotenvFiles
  Sources <- MCSources
  MaxWrites = 1
  Inputs <- MCInputs
  Paths = {"", "p"}
  Root = ""
  ExtOf <- MCExtOf
  FileSource = "file"
  Struct = "struct"
  Trees <- MCTrees
INVARIANTS
  LoadTypeOK
  BuiltAsGiven
  FxOrderDoesNotMatter
  LoadReturnsValidOrError
  ReadersAgree
PROPERTIES
  LoadersKeepTheirOptions
CHECK_DEADLOCK FALSE
