SPECIFICATION SliceSpec
CONSTANTS
  RootPath <- MCRootPath
  Childs <- MCChilds
  IDs <- MCIDs
  MaxItems = 2
  Models <- MCModels
CHECK_DEADLOCK FALSE
INVARIANTS EveryItemCounts  TransformsExact
PROPERTY AcyclicBoxesReturn
