CONSTANTS
  Cases <- MCCases
  MAX_DEPTH = 2
SPECIFICATION FairSpec
INVARIANTS
  TypeOK
  NoneMeansStop
  CallsConsume
  DepthCounted
  SkipNesting
  SpansNest
  DiagnosticFree
  DotsSeparate
PROPERTIES
  NoDatumLost
  RefinesTopForms
  Terminates
CHECK_DEADLOCK FALSE
