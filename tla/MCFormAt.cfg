CONSTANTS
  Cases <- MCCases
  MAX_DEPTH = 2
SPECIFICATION FairFormSpec
INVARIANTS
  ChainFollowsParse
  ChainComplete
PROPERTIES
  ChainEnds
CHECK_DEADLOCK FALSE
