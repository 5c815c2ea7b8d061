CONSTANTS
  Projects <- MCProjects
  MaxFiles = 3
  MaxLines = 4
  MaxElements = 3
SPECIFICATION Spec
INVARIANTS
  VotesOrderFree
  LocalsInForce
  NearestScopeWins
CHECK_DEADLOCK FALSE
