CONSTANTS
  Cases <- MCCases
SPECIFICATION FairSpec
INVARIANTS
  TypeOK
  Tiles
  QuotedEndsRight
  ResumesAtLineStart
  BlockCommentsNest
  DelimitersSeen
  NamesAreWhole
PROPERTIES
  Ends
CHECK_DEADLOCK FALSE
