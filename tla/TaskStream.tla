----------------------------- MODULE TaskStream -----------------------------
(***************************************************************************)
(* What agent-core promises about the events of a task                     *)
(* (crates/agent-core/src/event.rs): a grammar.  `last` is the newest       *)
(* event of each task's stream and `ends` counts its terminal events.       *)
(* AgentTask implements this specification; SessionKernel is driven by it.  *)
(*                                                                         *)
(* The round of an event is the round its task is in, also for the events   *)
(* that carry no round_id.  StateChanged events are left out: each is       *)
(* published next to the event that caused it, and the kernel only          *)
(* forwards it.                                                             *)
(***************************************************************************)
EXTENDS Naturals

CONSTANTS
  Tasks,      \* task identifiers
  MaxRounds   \* model rounds of one task (64 in runner.rs)

ASSUME StreamAssumption == MaxRounds \in Nat \ {0}

VARIABLES
  last,       \* task -> its newest event
  ends        \* task -> number of terminal events published

streamVars == <<last, ends>>

-----------------------------------------------------------------------------
Terminal == {"Finished", "Failed", "Canceled"}

\* Events of the round in progress: a model request has been opened and its
\* outcome has not been announced.
InRound == {"ModelRequestStarted", "AssistantMessageDelta",
            "ToolCallStarted", "ToolCallFinished"}

Compaction == {"ContextCompactionStarted", "ContextCompactionFinished",
               "ContextCompactionCanceled"}

Kinds == {"None", "TaskStarted", "ModelRequestRetrying", "ModelRoundFinished"}
           \cup InRound \cup Compaction \cup Terminal

Event == [kind : Kinds, round : 0 .. MaxRounds]

NoEvent == [kind |-> "None", round |-> 0]

Ev(k, r) == [kind |-> k, round |-> r]

IsTerminal(e) == e.kind \in Terminal

-----------------------------------------------------------------------------
(* May event e be the next one of a stream whose newest event is l?        *)

\* The stream opens with TaskStarted, before any round.
Opens(l, e) == l = NoEvent /\ e = Ev("TaskStarted", 0)

\* A compaction runs before the first round, or between two rounds; it is
\* announced before it is settled.
Compacts(l, e) ==
  /\ e.round = l.round
  /\ \/ /\ e.kind = "ContextCompactionStarted"
        /\ l.kind \in {"TaskStarted", "ModelRoundFinished", "ToolCallFinished",
                      "AssistantMessageDelta"}
     \/ /\ e.kind \in {"ContextCompactionFinished", "ContextCompactionCanceled"}
        /\ l.kind = "ContextCompactionStarted"

\* A round is opened after the previous one was announced as finished, or
\* after its tools ran and its stream ended without saying so; a retry
\* reopens the same round.
Requests(l, e) ==
  /\ e.kind = "ModelRequestStarted"
  /\ \/ /\ l.kind \in {"TaskStarted", "ContextCompactionFinished",
                       "ContextCompactionCanceled", "ModelRoundFinished",
                       "ToolCallFinished", "AssistantMessageDelta"}
        /\ e.round = l.round + 1
     \/ /\ l.kind = "ModelRequestRetrying"
        /\ e.round = l.round

\* Inside a round tool calls alternate start and finish, and the outcome of
\* the round is announced once, never with a tool call open.
Streams(l, e) ==
  /\ e.round = l.round
  /\ l.kind \in InRound
  /\ e.kind \in IF l.kind = "ToolCallStarted"
                  THEN {"ToolCallFinished"}
                  ELSE {"AssistantMessageDelta", "ToolCallStarted",
                        "ModelRequestRetrying", "ModelRoundFinished"}

\* A task finishes after a round without tool results.  It fails from any
\* point but an open tool call or an announced retry; it can be canceled
\* wherever it waits.
Closes(l, e) ==
  /\ e.round = l.round
  /\ \/ /\ e.kind = "Finished"
        /\ l.kind \in {"ModelRequestStarted", "AssistantMessageDelta",
                       "ModelRoundFinished"}
     \/ /\ e.kind = "Failed"
        /\ l.kind \notin Terminal \cup {"None", "ToolCallStarted",
                                        "ModelRequestRetrying"}
     \/ /\ e.kind = "Canceled"
        /\ l.kind \notin Terminal \cup {"None", "ModelRequestRetrying"}

MayFollow(l, e) ==
  Opens(l, e) \/ Compacts(l, e) \/ Requests(l, e) \/ Streams(l, e) \/ Closes(l, e)

-----------------------------------------------------------------------------
Init ==
  /\ last = [t \in Tasks |-> NoEvent]
  /\ ends = [t \in Tasks |-> 0]

Emit(t, e) ==
  /\ MayFollow(last[t], e)
  /\ last' = [last EXCEPT ![t] = e]
  /\ ends' = [ends EXCEPT ![t] = IF IsTerminal(e) THEN @ + 1 ELSE @]

Next == \E t \in Tasks, e \in Event : Emit(t, e)

Spec == Init /\ [][Next]_streamVars

-----------------------------------------------------------------------------
TypeOK ==
  /\ last \in [Tasks -> Event]
  /\ ends \in [Tasks -> Nat]

\* A terminal event ends the stream (is_terminal, event.rs:217): it is
\* published at most once and it stays the newest event.
OneTerminalEvent ==
  \A t \in Tasks : ends[t] = IF IsTerminal(last[t]) THEN 1 ELSE 0
=============================================================================
