\* Bodies of up to three frames of every kind, with both line ends, that end
\* anywhere and are cut anywhere.
SPECIFICATION Spec
CONSTANTS
    Payloads = {"delta", "usage", "bad", "comment", "done", "garbage"}
    MaxFrames = 3
INVARIANTS
  ChunksInOrder
  EndIsTrue
CHECK_DEADLOCK FALSE
