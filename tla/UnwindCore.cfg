SPECIFICATION Spec
CONSTANTS
  NoErr = NoErr
  Programs <- CoreAndDeep
INVARIANTS
  RunsAsPromised
  HarmlessIsHarmless
CHECK_DEADLOCK FALSE
