\* model files as the root model and as a child, in both modes: some that are
\* read, others that are written first
CONSTANTS
  Files <- MCFiles
  RootModes = {TRUE, FALSE}
  StrictModes = {TRUE, FALSE}
  Models <- MCModels
  NoModel = NoModel
SPECIFICATION EncoderSpec
INVARIANTS
  DecodersAreOpen
  ContentIsTheTree
  NilMeansParsed
  CapturedWhole
  ErrorsLocate
  TextIsEscaped
  
CHECK_DEADLOCK FALSE
