\* reading, writing and reading again small packages, some of them by two
\* calls of Decode with one Decoder
CONSTANTS
  Names <- MCNames
  Targets <- MCTargets
  PackageRoot = "/"
  Resolve <- MCResolve
  FoldCase <- MCFoldCase
  Packages <- MCPackages
  Contents <- MCContents
  NoPart = NoPart
  MaxCalls <- MCMaxCalls
SPECIFICATION WriterSpec
INVARIANTS
  ChildrenHaveEntries
  KeptRelationshipsAreAttached
  AttachmentsReachable
  ChildRelationshipsExact
  NilMeansWritten
  SameModel
CHECK_DEADLOCK FALSE
