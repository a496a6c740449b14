SPECIFICATION Spec
CONSTANTS
  MaxTurns = 6
  KeepRecent = 3
  MayFail = TRUE
INVARIANTS
  NothingForgotten
  OwnTurnExpanded
CHECK_DEADLOCK FALSE
