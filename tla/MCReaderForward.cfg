CONSTANTS
  Cases <- MCCases
  MAX_DEPTH = 2
SPECIFICATION FairSpec
INVARIANTS
  SpansForward
CHECK_DEADLOCK FALSE
