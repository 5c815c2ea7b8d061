CONSTANTS
  Forests <- MCForests
  MaxData = 3
  MaxTree = 4
  MaxChain = 5
SPECIFICATION FairSpec
INVARIANTS
  TypeOK
  VisitsInOrder
  RegionsRight
  PruningKeepsCode
  YieldsInOrder
PROPERTIES
  Ends
CHECK_DEADLOCK FALSE
