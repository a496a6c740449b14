-------------------------- MODULE MCSessionKernel ---------------------------
(* Instances of SessionKernel for TLC. *)
EXTENDS SessionKernel

\* What the bridge treats alike is represented by one kind.
BridgeKinds == {"TaskStarted", "ModelRequestStarted", "ModelRequestRetrying",
                "ToolCallStarted", "ToolCallFinished", "ModelRoundFinished"} \cup Terminal

\* Only the kinds that write to storage, and one of those that end a task: the
\* bridge treats the others alike, but for the log.
TurnKinds == BridgeKinds \ {"ModelRequestRetrying", "Finished", "Canceled"}
=============================================================================
