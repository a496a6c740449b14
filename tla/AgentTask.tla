----------------------------- MODULE AgentTask ------------------------------
(***************************************************************************)
(* The agent runtime of crates/agent-core: the task table, the abort        *)
(* handles, one runner per task, the guard dropped with the runner, and     *)
(* concurrent callers of cancel_task and resume_task.                       *)
(*                                                                         *)
(* The grain is one access to shared memory (the `tasks` or                 *)
(* `task_controls` lock) per step.  Events published next to an access      *)
(* belong to its step: the channel is unbounded and only the runner, the    *)
(* starter before the runner exists and the guard after it send on it.      *)
(* A runner can be dropped only where it awaits (AwaitPoints): an abort     *)
(* takes effect when a poll of the spawned future returns Pending.          *)
(***************************************************************************)
EXTENDS Naturals, FiniteSets

CONSTANTS
  Tasks,        \* task identifiers
  NoTask,       \* what a caller that is not inside cancel_task holds
  Callers,      \* concurrent callers of cancel_task
  MaxRounds,    \* model rounds of a task (64, runner.rs:172)
  MaxRetries,   \* MAX_MODEL_REQUEST_RETRIES (5, runner.rs:19)
  MaxTools,     \* bound: tool calls of one model round attempt
  EarlyCancel,  \* may a caller cancel as soon as TaskStarted is published
                \* (any user of agent-core), or only once start returned
                \* (the kernel: the id reaches the UI after start)?
  AllowResume   \* is resume_task called (agent-core API, not the kernel)?

ASSUME AgentAssumption ==
  /\ NoTask \notin Tasks
  /\ MaxRounds \in Nat \ {0}
  /\ MaxRetries \in Nat
  /\ MaxTools \in Nat
  /\ EarlyCancel \in BOOLEAN
  /\ AllowResume \in BOOLEAN

VARIABLES
  state,        \* Agent.tasks: task -> AgentState
  control,      \* Agent.task_controls: tasks whose abort handle is stored
  abort,        \* tasks whose spawned future has been told to abort
  start,        \* where the call that starts the task is
  run,          \* the runner's position and the locals of run_inner
  call,         \* caller -> the task it still has to abort, or NoTask
  last, ends    \* the event stream (TaskStream)

vars == <<state, control, abort, start, run, call, last, ends>>

-----------------------------------------------------------------------------
Final == {"Completed", "Canceled", "Failed"}
AgentState == {"Queued", "Thinking", "RunningTool"} \cup Final

StartSteps == {"new", "announced", "spawned", "registered", "returned"}

AwaitPoints == {"precheck", "prepare", "profile", "fold", "stream", "tool"}
Running == AwaitPoints \cup {"head", "request", "toolStart", "retry",
                             "roundEnd", "complete", "fail"}
RunnerSteps == Running \cup {"none", "exit", "guard", "gone"}

Locals == [pc       : RunnerSteps,
           round    : 0 .. MaxRounds,
           retries  : 0 .. MaxRetries,
           results  : 0 .. MaxTools,   \* tool results of this attempt
           todo     : 0 .. MaxTools,   \* tool calls still to run
           hot      : BOOLEAN,         \* latest_input_tokens >= threshold
           folded   : BOOLEAN]         \* in_loop_compacted

\* A runner at p whose loop has no locals, at round r.
At(p, r) == [pc |-> p, round |-> r, retries |-> 0, results |-> 0, todo |-> 0,
             hot |-> FALSE, folded |-> FALSE]

Stream == INSTANCE TaskStream

-----------------------------------------------------------------------------
(* Helpers: moving a runner, and publishing.                                *)

Goto(t, p) == run' = [run EXCEPT ![t].pc = p]

\* run_inner returns or is dropped: its locals go, the guard runs next.
Exit(t) == run' = [run EXCEPT ![t] = At("exit", @.round)]

Silent == UNCHANGED <<last, ends>>

\* publish of the events a step sends, the last of which is a k event.
Publish(t, k) ==
  /\ last' = [last EXCEPT ![t] = Stream!Ev(k, run[t].round)]
  /\ ends' = [ends EXCEPT ![t] = IF k \in Stream!Terminal THEN @ + 1 ELSE @]

SetState(t, s) == state' = [state EXCEPT ![t] = s]

\* The runner's steps leave the handles and the other threads alone.
RunnerOnly == UNCHANGED <<control, abort, start, call>>

-----------------------------------------------------------------------------
(* start_task_with_messages_tools_tool_context_and_context_preparer.       *)
(* An empty prompt is rejected before anything changes.                    *)

\* Queued is overwritten by Thinking before anyone knows the task's id.
StartTask(t) ==
  /\ start[t] = "new"
  /\ SetState(t, "Thinking")
  /\ Publish(t, "TaskStarted")
  /\ start' = [start EXCEPT ![t] = "announced"]
  /\ UNCHANGED <<control, abort, run, call>>

SpawnRunner(t) ==
  /\ start[t] = "announced"
  /\ start' = [start EXCEPT ![t] = "spawned"]
  /\ run' = [run EXCEPT ![t] = At("precheck", 0)]
  /\ Silent
  /\ UNCHANGED <<state, control, abort, call>>

RegisterControl(t) ==
  /\ start[t] = "spawned"
  /\ control' = control \cup {t}
  /\ start' = [start EXCEPT ![t] = "registered"]
  /\ Silent
  /\ UNCHANGED <<state, abort, run, call>>

\* Mutant: the handle of a task that has ended is kept.
FinishStartKeeps(t) ==
  /\ start[t] = "registered"
  /\ start' = [start EXCEPT ![t] = "returned"]
  /\ Silent
  /\ UNCHANGED <<state, control, abort, run, call>>

\* Mutant: the handle is removed whether the task has ended or not.
FinishStartRemoves(t) ==
  /\ start[t] = "registered"
  /\ control' = control \ {t}
  /\ start' = [start EXCEPT ![t] = "returned"]
  /\ Silent
  /\ UNCHANGED <<state, abort, run, call>>

\* The task may have ended before its handle was stored.
FinishStart(t) ==
  /\ start[t] = "registered"
  /\ control' = IF state[t] \in Final THEN control \ {t} ELSE control
  /\ start' = [start EXCEPT ![t] = "returned"]
  /\ Silent
  /\ UNCHANGED <<state, abort, run, call>>

-----------------------------------------------------------------------------
(* cancel_task takes two locks one after the other; resume_task takes one. *)

Known(t) == start[t] = "returned" \/ (EarlyCancel /\ start[t] # "new")

\* Mutant: a task that has ended is canceled all the same.
CancelMarkEnded(c, t) ==
  /\ call[c] = NoTask
  /\ Known(t)
  /\ state[t] # "Canceled"
  /\ SetState(t, "Canceled")
  /\ call' = [call EXCEPT ![c] = t]
  /\ Silent
  /\ UNCHANGED <<control, abort, start, run>>

\* A task in a final state is left alone.
CancelMark(c, t) ==
  /\ call[c] = NoTask
  /\ Known(t)
  /\ state[t] \notin Final
  /\ SetState(t, "Canceled")
  /\ call' = [call EXCEPT ![c] = t]
  /\ Silent
  /\ UNCHANGED <<control, abort, start, run>>

\* The handle is removed and used under one lock; it may be gone.
CancelAbort(c) ==
  /\ call[c] # NoTask
  /\ abort' = IF call[c] \in control THEN abort \cup {call[c]} ELSE abort
  /\ control' = control \ {call[c]}
  /\ call' = [call EXCEPT ![c] = NoTask]
  /\ Silent
  /\ UNCHANGED <<state, start, run>>

ResumeTask(t) ==
  /\ AllowResume
  /\ Known(t)
  /\ state[t] \in {"Canceled", "Failed"}
  /\ SetState(t, "Queued")
  /\ Silent
  /\ UNCHANGED <<control, abort, start, run, call>>

-----------------------------------------------------------------------------
(* The runner: what its awaits return (run_inner, run_model_round_attempt,  *)
(* run_tool_call).  Any await but a tool's may return an error.             *)

At_(t, p) == run[t].pc = p

PrecheckReturns(t) ==
  /\ At_(t, "precheck")
  /\ \/ Goto(t, "prepare") /\ Publish(t, "ContextCompactionStarted")
     \/ Goto(t, "profile") /\ Silent
     \/ Goto(t, "fail") /\ Silent
  /\ UNCHANGED state /\ RunnerOnly

\* A compaction ends with a summary, without one, or with an error.
CompactionReturns(t, next) ==
  /\ \/ Goto(t, next) /\ Publish(t, "ContextCompactionFinished")
     \/ Goto(t, next) /\ Publish(t, "ContextCompactionCanceled")
     \/ Goto(t, "fail") /\ Silent
  /\ UNCHANGED state /\ RunnerOnly

PrepareReturns(t) == At_(t, "prepare") /\ CompactionReturns(t, "profile")

FoldReturns(t) == At_(t, "fold") /\ CompactionReturns(t, "head")

ProfileReturns(t) ==
  /\ At_(t, "profile")
  /\ Goto(t, "head") \/ Goto(t, "fail")
  /\ Silent /\ UNCHANGED state /\ RunnerOnly

\* Every chunk is preceded by a look at the task's state; the end of the
\* stream is not.
ChunkCanceled(t) ==
  /\ At_(t, "stream") /\ state[t] = "Canceled"
  /\ Exit(t)
  /\ Silent /\ UNCHANGED state /\ RunnerOnly

ChunkDelta(t) ==
  /\ At_(t, "stream") /\ state[t] # "Canceled"
  /\ Publish(t, "AssistantMessageDelta")
  /\ UNCHANGED <<run, state>> /\ RunnerOnly

\* A choice whose finish_reason is tool_calls: run what has accumulated, or
\* fail on a tool call without id, name or JSON arguments.
ChunkToolCalls(t) ==
  /\ At_(t, "stream") /\ state[t] # "Canceled"
  /\ \/ \E n \in 1 .. MaxTools - run[t].results :
          run' = [run EXCEPT ![t].pc = "toolStart", ![t].todo = n]
     \/ Goto(t, "fail")
  /\ Silent /\ UNCHANGED state /\ RunnerOnly

ChunkError(t) ==
  /\ At_(t, "stream") /\ state[t] # "Canceled"
  /\ Goto(t, "retry")
  /\ Silent /\ UNCHANGED state /\ RunnerOnly

\* Mutant: the stream is read on after the end of the round.
ChunkFinishedReadsOn(t) ==
  /\ At_(t, "stream") /\ state[t] # "Canceled"
  /\ Publish(t, "ModelRoundFinished")
  /\ UNCHANGED <<run, state>> /\ RunnerOnly

ChunkFinished(t) ==
  /\ At_(t, "stream") /\ state[t] # "Canceled"
  /\ Goto(t, "roundEnd")
  /\ Publish(t, "ModelRoundFinished")
  /\ UNCHANGED state /\ RunnerOnly

StreamEnds(t) ==
  /\ At_(t, "stream")
  /\ Goto(t, "roundEnd")
  /\ Silent /\ UNCHANGED state /\ RunnerOnly

\* A tool that fails has a result too: the error is what the model is told.
ToolReturns(t) ==
  /\ At_(t, "tool")
  /\ SetState(t, "Thinking")
  /\ Publish(t, "ToolCallFinished")
  /\ run' = [run EXCEPT ![t].pc = IF run[t].todo > 1 THEN "toolStart" ELSE "stream",
                        ![t].todo = @ - 1,
                        ![t].results = @ + 1]
  /\ RunnerOnly

Await(t) ==
  \/ PrecheckReturns(t) \/ PrepareReturns(t) \/ ProfileReturns(t) \/ FoldReturns(t)
  \/ ChunkCanceled(t) \/ ChunkDelta(t) \/ ChunkToolCalls(t) \/ ChunkError(t)
  \/ ChunkFinished(t) \/ StreamEnds(t) \/ ToolReturns(t)

-----------------------------------------------------------------------------
(* The runner: what it does between awaits.                                *)

\* Mutant: in_loop_compacted is never set.
LoopHeadRefolds(t) ==
  /\ At_(t, "head")
  /\ IF run[t].hot
       THEN Goto(t, "fold") /\ Publish(t, "ContextCompactionStarted")
       ELSE /\ run' = [run EXCEPT ![t].pc = "request", ![t].round = @ + 1,
                                  ![t].retries = 0, ![t].results = 0]
            /\ Silent
  /\ UNCHANGED state /\ RunnerOnly

\* Compaction is tried once per task, before a round.
LoopHead(t) ==
  /\ At_(t, "head")
  /\ IF run[t].hot /\ ~run[t].folded
       THEN /\ run' = [run EXCEPT ![t].pc = "fold", ![t].folded = TRUE]
            /\ Publish(t, "ContextCompactionStarted")
       ELSE /\ run' = [run EXCEPT ![t].pc = "request", ![t].round = @ + 1,
                                  ![t].retries = 0, ![t].results = 0]
            /\ Silent
  /\ UNCHANGED state /\ RunnerOnly

\* stream_chat opens the stream or fails without awaiting.
SendRequest(t) ==
  /\ At_(t, "request")
  /\ Goto(t, "stream") \/ Goto(t, "retry")
  /\ Publish(t, "ModelRequestStarted")
  /\ UNCHANGED state /\ RunnerOnly

\* The attempt's partial text and tool results are discarded.
Retry(t) ==
  /\ At_(t, "retry")
  /\ IF run[t].retries < MaxRetries
       THEN /\ run' = [run EXCEPT ![t].pc = "request", ![t].retries = @ + 1,
                                  ![t].results = 0]
            /\ Publish(t, "ModelRequestRetrying")
       ELSE Goto(t, "fail") /\ Silent
  /\ UNCHANGED state /\ RunnerOnly

\* The state is overwritten, whatever it was.
StartTool(t) ==
  /\ At_(t, "toolStart")
  /\ SetState(t, "RunningTool")
  /\ Publish(t, "ToolCallStarted")
  /\ Goto(t, "tool")
  /\ RunnerOnly

\* The round's usage, if it has one, says whether the next one compacts.
EndRound(t) ==
  /\ At_(t, "roundEnd")
  /\ \/ state[t] = "Canceled" /\ Exit(t)
     \/ /\ state[t] # "Canceled"
        /\ \E h \in BOOLEAN :
             run' = [run EXCEPT ![t].hot = h,
                                ![t].pc = IF run[t].results = 0 THEN "complete"
                                          ELSE IF run[t].round < MaxRounds THEN "head"
                                          ELSE "fail"]
  /\ Silent /\ UNCHANGED state /\ RunnerOnly

Complete(t) ==
  /\ At_(t, "complete")
  /\ SetState(t, "Completed")
  /\ Publish(t, "Finished")
  /\ Exit(t)
  /\ RunnerOnly

Fail(t) ==
  /\ At_(t, "fail")
  /\ SetState(t, "Failed")
  /\ Publish(t, "Failed")
  /\ Exit(t)
  /\ RunnerOnly

\* Mutant: a tool call runs to its end on a thread of its own.
DropButTool(t) ==
  /\ t \in abort
  /\ run[t].pc \in AwaitPoints \ {"tool"}
  /\ Exit(t)
  /\ Silent /\ UNCHANGED state /\ RunnerOnly

\* An aborted runner is dropped at an await that is not ready.
Drop(t) ==
  /\ t \in abort
  /\ run[t].pc \in AwaitPoints
  /\ Exit(t)
  /\ Silent /\ UNCHANGED state /\ RunnerOnly

\* RunCompletionGuard::drop takes two locks one after the other.
GuardControl(t) ==
  /\ At_(t, "exit")
  /\ control' = control \ {t}
  /\ Goto(t, "guard")
  /\ Silent
  /\ UNCHANGED <<state, abort, start, call>>

\* Mutant: a runner that returns by itself disarms the guard.
GuardEventOfDropped(t) ==
  /\ At_(t, "guard")
  /\ IF state[t] = "Canceled" /\ t \in abort THEN Publish(t, "Canceled") ELSE Silent
  /\ Goto(t, "gone")
  /\ UNCHANGED state /\ RunnerOnly

GuardEvent(t) ==
  /\ At_(t, "guard")
  /\ IF state[t] = "Canceled" THEN Publish(t, "Canceled") ELSE Silent
  /\ Goto(t, "gone")
  /\ UNCHANGED state /\ RunnerOnly

Local(t) ==
  \/ LoopHead(t) \/ SendRequest(t) \/ Retry(t) \/ StartTool(t) \/ EndRound(t)
  \/ Complete(t) \/ Fail(t) \/ GuardControl(t) \/ GuardEvent(t)

-----------------------------------------------------------------------------
Init ==
  /\ state = [t \in Tasks |-> "Queued"]
  /\ control = {}
  /\ abort = {}
  /\ start = [t \in Tasks |-> "new"]
  /\ run = [t \in Tasks |-> At("none", 0)]
  /\ call = [c \in Callers |-> NoTask]
  /\ last = [t \in Tasks |-> Stream!NoEvent]
  /\ ends = [t \in Tasks |-> 0]

Starter(t) == SpawnRunner(t) \/ RegisterControl(t) \/ FinishStart(t)

Next ==
  \/ \E t \in Tasks : StartTask(t) \/ Starter(t) \/ ResumeTask(t)
  \/ \E c \in Callers : CancelAbort(c) \/ \E t \in Tasks : CancelMark(c, t)
  \/ \E t \in Tasks : Await(t) \/ Local(t) \/ Drop(t)

Spec == Init /\ [][Next]_vars

\* Threads that do not wait for anything run on: the starter, a caller
\* inside cancel_task, a runner between awaits, and the executor that drops
\* an aborted future.
Fairness ==
  /\ \A t \in Tasks : WF_vars(Starter(t)) /\ WF_vars(Local(t)) /\ WF_vars(Drop(t))
  /\ \A c \in Callers : WF_vars(CancelAbort(c))

\* Awaits may hang for ever.
FairSpec == Spec /\ Fairness

\* Awaits return: model requests and commands carry timeouts, streams end.
LiveSpec == FairSpec /\ \A t \in Tasks : WF_vars(Await(t))

-----------------------------------------------------------------------------
(* Properties.                                                             *)

\* Every variable keeps its type: rounds, retries and tool calls within their
\* limits, handles and aborts for tasks only (agent.rs:20-26, runner.rs:161-189).
TypeOK ==
  /\ state \in [Tasks -> AgentState]
  /\ control \in SUBSET Tasks
  /\ abort \in SUBSET Tasks
  /\ start \in [Tasks -> StartSteps]
  /\ run \in [Tasks -> Locals]
  /\ call \in [Callers -> Tasks \cup {NoTask}]
  /\ last \in [Tasks -> Stream!Event]
  /\ ends \in [Tasks -> Nat]

\* The events of every task follow the grammar of TaskStream whatever the
\* interleaving of runner, starter, guard and cancellers; in particular
\* nothing is published after a terminal event (event.rs:217-223).
StreamSpec == Stream!Spec

StateOf(kind) == CASE kind = "Finished" -> "Completed"
                   [] kind = "Failed"   -> "Failed"
                   [] kind = "Canceled" -> "Canceled"

\* The terminal event a subscriber has seen and the state the task table
\* holds say the same, also when a cancellation raced the end of the task
\* (runner.rs:87-96, 278-286 against agent.rs:234-256).
TerminalEventMatchesState ==
  \A t \in Tasks :
    Stream!IsTerminal(last[t]) => state[t] = StateOf(last[t].kind)

\* A runner that ended without any terminal event had been aborted: the
\* subscriber of a task nobody cancels always gets one (agent.rs:61-89).
SilentEndOnlyIfAborted ==
  \A t \in Tasks : run[t].pc = "gone" /\ ends[t] = 0 => t \in abort

\* No abort handle outlives its runner, although the runner may end before
\* the handle is stored (agent.rs:213-224 against agent.rs:63).
NoControlLeft ==
  \A t \in Tasks : run[t].pc = "gone" /\ start[t] = "returned" => t \notin control

\* Once no call to cancel_task is in progress, a canceled task whose runner
\* is still running has been told to abort: no canceller finds the handle
\* gone unless another one took it (agent.rs:248-253).
CancelDelivered ==
  \A t \in Tasks :
    /\ state[t] = "Canceled"
    /\ start[t] = "returned"
    /\ run[t].pc \in Running
    /\ \A c \in Callers : call[c] # t
    => t \in abort

\* What the guard's documentation says (agent.rs:52): a runner that is gone
\* has published a terminal event, the dropped one a cancellation.  The code
\* does not keep it: a cancellation can be overwritten (agent.rs:248).
NoSilentEnd ==
  \A t \in Tasks : run[t].pc = "gone" => ends[t] = 1

\* A started task's runner ends, its guard included, if awaits return.
RunnerEnds ==
  \A t \in Tasks : start[t] # "new" ~> run[t].pc = "gone"

\* A canceled task's runner ends even if the model stream or the tool it
\* waits for never answers (agent.rs:251-253).
CancelEndsRunner ==
  \A t \in Tasks : (\E c \in Callers : call[c] = t) ~> run[t].pc = "gone"
=============================================================================
