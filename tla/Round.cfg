\* Up to two calls, any of which may be malformed, in up to two attempts; turns
\* of up to six rows, any of which may be lost; answers of two rounds, with a
\* retry in each, as they are shown and shown again.
SPECIFICATION MCSpec
CONSTANTS
  Ids = {a, b, c}
  MaxRows = 6
  MayFail = TRUE
  MaxCalls = 2
  MaxAttempts = 2
  MaxReasons = 2
  Args = {x, y}
  MaxTexts = 2
  MaxRounds = 2
  MaxRetries = 1
SYMMETRY Symmetry
INVARIANTS
  AcceptedByProvider
  TurnIsTold
  CallsAreRun
  ReadBackTheSame
  ShownAgain
CHECK_DEADLOCK FALSE
