\* one Decoder used for two calls of Decode: the second fills its model twice
CONSTANTS
  Names <- MCNames
  Targets <- MCNames
  PackageRoot = "/"
  Resolve <- MCResolve
  FoldCase <- MCFoldCase
  Packages <- MCReused
  NoPart = NoPart
  MaxCalls <- MCMaxCalls
  CheckEvery = 2
  StrictModes = {TRUE, FALSE}
SPECIFICATION Spec
INVARIANT ChildContentDecoded
CHECK_DEADLOCK FALSE
