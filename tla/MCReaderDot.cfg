CONSTANTS
  Cases <- MCCases
  MAX_DEPTH = 2
SPECIFICATION FairSpec
INVARIANTS
  DotIffTail
CHECK_DEADLOCK FALSE
