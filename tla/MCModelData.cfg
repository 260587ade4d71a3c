\* one list, lattice, model, mesh or series of imports at a time
CONSTANTS
  UInt32 = {0, 1, 2}
  MaxLen = 2
  Radii <- MCRadii
  Rounded <- MCRounded
  CapModes = {"sphere", "butt"}
  CapModeSphere = "sphere"
  MaxBeams = 2
  PartOrder <- MCPartOrder
  Packages <- MCPackages
  NaN = NaN
  Meshes <- MCMeshes
  RootPart = "root"
  Layouts <- MCLayouts
  Files <- MCFiles
  Cell <- MCCell
  InitialIDs <- MCInitialIDs
  checkEveryFaces = 1
  MaxImports = 2
SPECIFICATION MCSpec
INVARIANTS
  ReadAsMeant
  RegularBeamsReadAsMeant
  AcceptedIndicesResolve
  AcceptedStacksAscend
  NilMeansClosed
  OneErrorPerObject
PROPERTIES
  CoherencyReturns
  ImportedWholeOrNot
  IDsAreFresh
CHECK_DEADLOCK FALSE
