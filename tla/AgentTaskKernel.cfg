SPECIFICATION FairSpec
CONSTANTS
  Tasks = {t1}
  NoTask = NoTask
  Callers = {c1, c2}
  MaxRounds = 2
  MaxRetries = 1
  MaxTools = 1
  EarlyCancel = FALSE
  AllowResume = TRUE
INVARIANTS
  CancelDelivered
PROPERTIES
  CancelEndsRunner
CHECK_DEADLOCK FALSE
