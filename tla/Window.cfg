\* A user who waits for what a click has set off.
SPECIFICATION MCSpec
CONSTANTS
    Sessions = {s1, s2}
    Nobody = Nobody
    MaxPrompts = 2
    MaxDeltas = 1
    MaxRounds = 1
    MaxRetries = 1
    MaxFolds = 2
    Patient = TRUE
    PageTurns = 3
    MaxTurns = 10
    MaxCalls = 2
CONSTRAINT InScene
SYMMETRY Symmetry
INVARIANTS
  AnswerShown
  PromptShown
  RunningMatchesKernel
  ViewIsSelected
  DividerIsTrue
  StopGoesOn
  OneStretch
  NothingOutOfReach
CHECK_DEADLOCK FALSE
