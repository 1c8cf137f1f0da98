CONSTANTS
  AutoBootSeconds = 1
  NumOptions = 2
  Keys <- MCKeys
  NoKey = NoKey
  Rows = 25

SPECIFICATION Spec

INVARIANT NoPanic

CHECK_DEADLOCK FALSE
