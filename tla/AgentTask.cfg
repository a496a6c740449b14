SPECIFICATION LiveSpec
CONSTANTS
  Tasks = {t1}
  NoTask = NoTask
  Callers = {c1, c2}
  MaxRounds = 2
  MaxRetries = 1
  MaxTools = 2
  EarlyCancel = TRUE
  AllowResume = FALSE
INVARIANTS
  TerminalEventMatchesState
  SilentEndOnlyIfAborted
  NoControlLeft
PROPERTIES
  StreamSpec
  RunnerEnds
CHECK_DEADLOCK FALSE
