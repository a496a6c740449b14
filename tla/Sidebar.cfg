\* A user who waits for each answer, while two titles are generated.
SPECIFICATION FairSpec
CONSTANTS
    Workspaces = {w1, w2}
    Sessions = {s1, s2}
    None = None
    Calls = {c1, c2}
    Titles = {t1, t2}
    MaxCalls = 2
    Kinds = {"open", "hide", "create", "delete", "clear", "model"}
    Patient = TRUE
INVARIANTS
  ListedIsStored
PROPERTIES
  NamedOnce
  TitlingEnds
CHECK_DEADLOCK FALSE
