SPECIFICATION Spec
CONSTANTS
  Tasks = {t1}
  NoTask = NoTask
  Callers = {c1}
  MaxRounds = 2
  MaxRetries = 1
  MaxTools = 1
  EarlyCancel = FALSE
  AllowResume = FALSE
INVARIANT
  NoSilentEnd
CHECK_DEADLOCK FALSE
