\* DecodeContext with up to three children, sound or not, and a caller that
\* may cancel, and with two calls of one Decoder
CONSTANTS
  Names <- MCNames
  Targets <- MCNames
  PackageRoot = "/"
  Resolve <- MCResolve
  FoldCase <- MCFoldCase
  Packages <- MCAll
  NoPart = NoPart
  MaxCalls <- MCMaxCalls
  CheckEvery = 2
  StrictModes = {TRUE, FALSE}
SPECIFICATION Spec
INVARIANTS
  ErrsTellFailure
  NilMeansDecoded
  RootAfterChildren
  CancelHasCause
  PromptCancel
PROPERTIES
  RefinesContract
  ModelStableAfterReturn
CHECK_DEADLOCK FALSE
