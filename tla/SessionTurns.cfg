SPECIFICATION FairKernelSpec
CONSTANTS
  Tasks = {t1, t2}
  Sessions = {s1}
  NoSession = NoSession
  MaxRounds = 1
  MaxEvents = 5
  MaxTools = 1
  EventKinds <- TurnKinds
  MayFail = TRUE
  MayDelete = TRUE
  MayCrash = TRUE
INVARIANTS
  OneTaskPerSession
  RowsInOrder
PROPERTIES
  SessionReleased
  EndHeard
CHECK_DEADLOCK FALSE
