CONSTANTS
  Plans <- MCPlans
  MaxLayers = 1
  MaxParams = 4
  MaxItems = 1
SPECIFICATION Spec
INVARIANTS
  RolesFollowEveryParameter
CHECK_DEADLOCK FALSE
