SPECIFICATION Spec
CONSTANTS
  RootPath <- MCRootPath
  Childs <- MCChilds
  IDs <- MCIDs
  MaxItems = 2
  Models <- MCModels
CHECK_DEADLOCK FALSE
INVARIANT ValidModelsHaveABox
