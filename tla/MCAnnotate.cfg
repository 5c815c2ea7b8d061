CONSTANTS
  Plans <- MCPlans
  MaxLayers = 3
  MaxParams = 4
  MaxItems = 3
SPECIFICATION Spec
INVARIANTS
  TypeOK
  LaterLayersWin
  RolesFollowParameters
  DefinitionsRecognised
  DocstringsAreNoValues
CHECK_DEADLOCK FALSE
