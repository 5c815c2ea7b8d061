CONSTANTS
  Sources <- MCSources
  MaxLen = 6
  Word = 16
SPECIFICATION Spec
INVARIANTS
  EveryColumnClamps
CHECK_DEADLOCK FALSE
