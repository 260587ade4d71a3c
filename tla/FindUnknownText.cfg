\* a text inside an element of an unknown namespace
CONSTANTS
  Files <- MCUnknownText
  RootModes = {TRUE}
  StrictModes = {TRUE}
  Models <- MCNoModels
  NoModel = NoModel
SPECIFICATION EncoderSpec
INVARIANT UnknownTextKept
CHECK_DEADLOCK FALSE
