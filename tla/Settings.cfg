\* Two commands at a time, and a process that may die in any.
SPECIFICATION Spec
CONSTANTS
    Default = Default
    Custom = {p}
    Calls = {c1, c2}
    MaxCommands = 3
    MaxRestarts = 1
INVARIANTS
  OwnProvider
  SavedIsInForce
CHECK_DEADLOCK FALSE
