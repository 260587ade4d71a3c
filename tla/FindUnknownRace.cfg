\* two children append to model.Any
CONSTANTS
  Names <- MCNames
  Targets <- MCNames
  PackageRoot = "/"
  Resolve <- MCResolve
  FoldCase <- MCFoldCase
  Packages <- MCUnknown
  NoPart = NoPart
  MaxCalls <- MCMaxCalls
  CheckEvery = 2
  StrictModes = {TRUE, FALSE}
SPECIFICATION Spec
INVARIANT UnknownElementsDecoded
CHECK_DEADLOCK FALSE
