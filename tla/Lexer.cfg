CONSTANTS
    Sources <- MCSources
    MaxInt = 99
SPECIFICATION Spec
CHECK_DEADLOCK FALSE
INVARIANTS
  TokensRight
PROPERTIES
  LexingEnds
