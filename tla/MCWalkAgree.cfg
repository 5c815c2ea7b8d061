CONSTANTS
  Forests <- MCForests
  MaxData = 3
  MaxTree = 4
  MaxChain = 5
SPECIFICATION FairSpec
INVARIANTS
  IteratorAgrees
CHECK_DEADLOCK FALSE
