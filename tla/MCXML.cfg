\* documents of at most three nested elements, well-formed or not, some of
\* them printed again as they are read
CONSTANTS
  NsPrefixes <- MCPrefixes
  URIs <- MCURIs
  Locals <- MCLocals
  Declarations <- MCDeclarations
  MaxDepth = 3
  CoreNamespace = "core"
  Extensions <- MCExtensions
  Attributes <- MCAttributes
  CellNames <- MCCellNames
  MaxItems = 4
SPECIFICATION MCSpec
INVARIANTS
  ScopesAreLexical
  NamesSurvive
  CellsPartitioned
PROPERTIES
  SameSpellingCloses
  EmptyElementsClose
  RefinesElementStream
  RefinesUndoStack
CHECK_DEADLOCK FALSE
