SPECIFICATION Spec
CONSTANTS
  PG_SZ = 4096
  MAX_STR_SZ = 128
  metadataBuffer = 100
  Columns <- AnyColumns
  Text <- Texts
  Name <- Names
  Filled <- FilledWith
  CStr <- Strings
  short = short
  long = long
  students = students
  withZero = withZero
  Noise = Noise
  Gone = Gone
  MaxCells = 5
  MaxTuples = 2
  MaxBits = 3
INVARIANTS
  TypeOK
  NodesFit
  PagesFit
PROPERTIES
  RoundTrip
