CONSTANTS
  Sources <- MCSources
  MaxLen = 6
  Word = 16
SPECIFICATION Spec
INVARIANTS
  RangesTile
  OffsetsLocated
  RoundTrips
  ColumnsClamp
CHECK_DEADLOCK FALSE
