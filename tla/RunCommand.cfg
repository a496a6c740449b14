\* Commands that may hang, with a timeout and an abort.
SPECIFICATION TimedSpec
CONSTANTS
    Widths = {0, 1, 4}
    MaxWrites = 2
    PipeSize = 1
    OutputBytes = 4
    MayTimeOut = TRUE
    MayAbort = TRUE
INVARIANTS
  NoShellLeft
  AnswerIsTrue
  NeverStuck
PROPERTIES
  CallEnds
CHECK_DEADLOCK FALSE
