--------------------------- MODULE SessionKernel ----------------------------
(***************************************************************************)
(* The application kernel around agent-core: start_agent_task               *)
(* (app-kernel/src/kernel.rs), the set of running sessions and the          *)
(* persistence of turns (session_service.rs), and the bridge that consumes  *)
(* a task's events, writes them to storage and forwards them to the user    *)
(* interface (events.rs).                                                   *)
(*                                                                         *)
(* The runtime is TaskStream, which AgentTask implements: a task publishes  *)
(* what the grammar allows, and its sender is dropped after a terminal      *)
(* event or, once the task was canceled, without one.                       *)
(*                                                                         *)
(* The grain is one await per step: every storage call that can end a start *)
(* or that writes a row may find the session deleted, may fail, and may be  *)
(* the last thing before the process dies.  The calls whose result nobody   *)
(* uses, update_last_input_tokens and append_model_call_log (events.rs),    *)
(* are part of the step that forwards their event.                          *)
(***************************************************************************)
EXTENDS TaskStream, Sequences, SequencesExt, FiniteSets

CONSTANTS
  Sessions,     \* session identifiers
  NoSession,    \* the session of a task that was never requested
  EventKinds,   \* bound: kinds of events the tasks of this instance publish
  MaxEvents,    \* bound: events one task publishes
  MaxTools,     \* bound: tool calls of one task
  MayFail,      \* may storage calls fail?
  MayDelete,    \* may sessions be deleted?
  MayCrash      \* may the process die, once?

ASSUME KernelAssumption ==
  /\ NoSession \notin Sessions
  /\ EventKinds \subseteq Kinds \ {"None"}
  /\ MaxEvents \in Nat /\ MaxTools \in Nat
  /\ {MayFail, MayDelete, MayCrash} \subseteq BOOLEAN

VARIABLES
  stored,       \* sessions that exist in storage
  rows,         \* session -> its session_messages, in insertion order
  running,      \* SessionService.running_sessions
  step,         \* task -> where the start_agent_task call that creates it is
  owner,        \* task -> its session
  turn,         \* task -> its turn_sequence
  results,      \* task -> tool results of the round attempt in progress
  chan,         \* task -> events published and not yet received
  open,         \* tasks whose event sender is alive
  canceled,     \* tasks cancel_agent_task was called for
  bridge,       \* task -> the bridge's position
  pending,      \* task -> round of active_model_call, 0 if none
  logs,         \* task -> model call logs handed to storage
  ui,           \* task -> events forwarded to the user interface
  crashed       \* has the process died and started again?

agentVars == <<last, ends, results, open>>
startVars == <<step, owner, turn>>
bridgeVars == <<bridge, pending, logs, ui>>
vars == <<agentVars, startVars, bridgeVars, stored, rows, running, chan, canceled, crashed>>

-----------------------------------------------------------------------------
Steps == {"idle", "marked", "tools", "turn", "prompted", "assembled",
          "starting", "returned", "rejected", "lost"}

\* The bridge is persisting event ev of a round: `left` rows are not written.
BridgeStates == {"none", "receiving", "persisting", "settling", "finishing", "done"}

Message == [kind : Kinds, round : 0 .. MaxRounds, tools : 0 .. MaxTools]
NoMessage == [kind |-> "None", round |-> 0, tools |-> 0]

\* A message row: the i-th of its round, 0 for the assistant's; the prompt is
\* the row of round 0.
Row == [turn : Nat, round : 0 .. MaxRounds, i : 0 .. MaxTools, role : {"user", "assistant", "tool"}]

At(p, e, n) == [pc |-> p, event |-> e, left |-> n]
Idle == At("none", NoMessage, 0)

\* Can a storage call on session s fail?
Fails(s) == s \notin stored \/ MayFail

NextTurn(s) == IF rows[s] = <<>> THEN 1 ELSE 1 + Max({rows[s][k].turn : k \in DOMAIN rows[s]})

\* append_session_message inserts, then touches the session, then reads the
\* row back: it may fail before or after the row exists.
Insert(s, row) == rows' = [rows EXCEPT ![s] = Append(@, row)]
AppendSucceeds(s, row) == s \in stored /\ Insert(s, row)
AppendFails(s, row) ==
  /\ Fails(s)
  /\ UNCHANGED rows \/ (s \in stored /\ Insert(s, row))

-----------------------------------------------------------------------------
(* start_agent_task.  A failing step releases the session.                 *)

Goto(t, p) == step' = [step EXCEPT ![t] = p]

Reject(t) == Goto(t, "rejected") /\ running' = running \ {owner[t]}

\* Mutant: a session may be claimed twice.
ClaimSessionAgain(t, s) ==
  /\ step[t] = "idle"
  /\ owner' = [owner EXCEPT ![t] = s]
  /\ running' = running \cup {s}
  /\ Goto(t, "marked")
  /\ UNCHANGED <<agentVars, bridgeVars, stored, rows, turn, chan, canceled, crashed>>

\* The session is claimed for the task, or is running one already.
ClaimSession(t, s) ==
  /\ step[t] = "idle"
  /\ owner' = [owner EXCEPT ![t] = s]
  /\ running' = running \cup {s}
  /\ Goto(t, IF s \in running THEN "rejected" ELSE "marked")
  /\ UNCHANGED <<agentVars, bridgeVars, stored, rows, turn, chan, canceled, crashed>>

\* system_tools_for_session reads the session and its workspace.
BuildTools(t) ==
  /\ step[t] = "marked"
  /\ \/ owner[t] \in stored /\ Goto(t, "tools") /\ UNCHANGED running
     \/ Fails(owner[t]) /\ Reject(t)
  /\ UNCHANGED <<agentVars, bridgeVars, stored, rows, owner, turn, chan, canceled, crashed>>

\* append_user_prompt reads the next turn of the session, also of a deleted
\* one, and then writes the prompt.
ReadTurn(t) ==
  /\ step[t] = "tools"
  /\ \/ /\ turn' = [turn EXCEPT ![t] = NextTurn(owner[t])]
        /\ Goto(t, "turn") /\ UNCHANGED running
     \/ MayFail /\ Reject(t) /\ UNCHANGED turn
  /\ UNCHANGED <<agentVars, bridgeVars, stored, rows, owner, chan, canceled, crashed>>

\* Mutant: a prompt that cannot be stored leaves the session claimed.
WritePromptKeeps(t) ==
  LET prompt == [turn |-> turn[t], round |-> 0, i |-> 0, role |-> "user"]
  IN /\ step[t] = "turn"
     /\ \/ AppendSucceeds(owner[t], prompt) /\ Goto(t, "prompted")
        \/ AppendFails(owner[t], prompt) /\ Goto(t, "rejected")
     /\ UNCHANGED <<agentVars, bridgeVars, stored, running, owner, turn, chan,
                    canceled, crashed>>

WritePrompt(t) ==
  LET prompt == [turn |-> turn[t], round |-> 0, i |-> 0, role |-> "user"]
  IN /\ step[t] = "turn"
     /\ \/ AppendSucceeds(owner[t], prompt) /\ Goto(t, "prompted") /\ UNCHANGED running
        \/ AppendFails(owner[t], prompt) /\ Reject(t)
     /\ UNCHANGED <<agentVars, bridgeVars, stored, owner, turn, chan, canceled, crashed>>

AssembleContext(t) ==
  /\ step[t] = "prompted"
  /\ \/ owner[t] \in stored /\ Goto(t, "assembled") /\ UNCHANGED running
     \/ Fails(owner[t]) /\ Reject(t)
  /\ UNCHANGED <<agentVars, bridgeVars, stored, rows, owner, turn, chan, canceled, crashed>>

\* The agent publishes TaskStarted before it returns the task; its prompt has
\* been checked, so it does not refuse it.
StartAgent(t) ==
  /\ step[t] = "assembled"
  /\ Goto(t, "starting")
  /\ open' = open \cup {t}
  /\ Emit(t, Ev("TaskStarted", 0))
  /\ chan' = [chan EXCEPT ![t] = <<[kind |-> "TaskStarted", round |-> 0, tools |-> 0]>>]
  /\ UNCHANGED <<bridgeVars, stored, rows, running, owner, turn, results, canceled, crashed>>

\* The task's id is known to the caller from here on.
SpawnBridge(t) ==
  /\ step[t] = "starting"
  /\ Goto(t, "returned")
  /\ bridge' = [bridge EXCEPT ![t] = At("receiving", NoMessage, 0)]
  /\ UNCHANGED <<agentVars, stored, rows, running, owner, turn, chan, canceled,
                 crashed, pending, logs, ui>>

-----------------------------------------------------------------------------
(* The task, as TaskStream and the runtime's handling of cancellation       *)
(* describe it.                                                             *)

Published(t) ==
  Len(ui[t]) + Len(chan[t])
    + IF bridge[t].pc \in {"persisting", "settling"} THEN 1 ELSE 0

\* An attempt's results are discarded when the next one starts.
ResultsAfter(t, e) ==
  IF e.kind = "ModelRequestStarted" THEN 0
  ELSE IF e.kind = "ToolCallFinished" THEN results[t] + 1
  ELSE results[t]

\* A round with tool results is followed by another one, and is not the last.
RoundsGoOn(t, e) ==
  /\ e.kind = "Finished" => results[t] = 0
  /\ e.kind = "ModelRequestStarted" /\ e.round \notin {1, last[t].round} => results[t] > 0

\* Bounds: past MaxEvents events a task only does what brings it to an end.
WithinBounds(t, e) ==
  /\ e.kind \in EventKinds
  /\ \/ Published(t) < MaxEvents
     \/ e.kind \in Terminal \cup {"ToolCallFinished"}
     \/ last[t].kind = "ModelRequestRetrying"
  /\ e.kind = "ToolCallStarted" => results[t] < MaxTools

PublishEvent(t, e) ==
  /\ t \in open
  /\ WithinBounds(t, e)
  /\ RoundsGoOn(t, e)
  /\ e.kind = "Canceled" => t \in canceled
  /\ Emit(t, e)
  /\ results' = [results EXCEPT ![t] = ResultsAfter(t, e)]
  /\ chan' = [chan EXCEPT ![t] = Append(@,
       [kind |-> e.kind, round |-> e.round,
        tools |-> IF e.kind = "ModelRoundFinished" THEN results[t] ELSE 0])]
  /\ UNCHANGED <<startVars, bridgeVars, stored, rows, running, canceled, crashed, open>>

\* The runner and its guard are gone and the sender with them.
HangUp(t) ==
  /\ t \in open
  /\ IsTerminal(last[t]) \/ t \in canceled
  /\ open' = open \ {t}
  /\ UNCHANGED <<startVars, bridgeVars, stored, rows, running, last, ends, results,
                 chan, canceled, crashed>>

CancelTask(t) ==
  /\ step[t] = "returned"
  /\ canceled' = canceled \cup {t}
  /\ UNCHANGED <<agentVars, startVars, bridgeVars, stored, rows, running, chan, crashed>>

-----------------------------------------------------------------------------
(* The bridge.                                                             *)

Move(t, p, e, n) == bridge' = [bridge EXCEPT ![t] = At(p, e, n)]

Forward(t, e) == ui' = [ui EXCEPT ![t] = Append(@, e)]

Log(t, ok) == logs' = [logs EXCEPT ![t] = Append(@, [round |-> pending[t], ok |-> ok])]

BridgeOnly == UNCHANGED <<agentVars, startVars, stored, running, canceled, crashed>>

\* The next event, if the bridge waits for one and there is one.
Heard(t) == IF bridge[t].pc = "receiving" /\ chan[t] # <<>> THEN Message \cap {Head(chan[t])} ELSE {}

Receives(t) == chan' = [chan EXCEPT ![t] = Tail(@)]

\* Mutant: the terminal event is not forwarded.
HearTerminalQuietly(t) ==
  \E e \in Heard(t) :
    /\ Receives(t) /\ IsTerminal(e)
    /\ IF pending[t] # 0 THEN Log(t, e.kind = "Finished") ELSE UNCHANGED logs
    /\ pending' = [pending EXCEPT ![t] = 0]
    /\ Move(t, "finishing", NoMessage, 0)
    /\ BridgeOnly /\ UNCHANGED <<rows, ui>>

\* A call that is still open when the task ends succeeded if the task did.
HearTerminal(t) ==
  \E e \in Heard(t) :
    /\ Receives(t) /\ IsTerminal(e)
    /\ IF pending[t] # 0 THEN Log(t, e.kind = "Finished") ELSE UNCHANGED logs
    /\ pending' = [pending EXCEPT ![t] = 0]
    /\ Forward(t, e)
    /\ Move(t, "finishing", NoMessage, 0)
    /\ BridgeOnly /\ UNCHANGED rows

\* A call that is still open is forgotten.
HearRequest(t) ==
  \E e \in Heard(t) :
    /\ Receives(t) /\ e.kind = "ModelRequestStarted"
    /\ pending' = [pending EXCEPT ![t] = e.round]
    /\ Forward(t, e)
    /\ BridgeOnly /\ UNCHANGED <<rows, bridge, logs>>

\* Mutant: the call that failed stays open.
HearRetryKeeps(t) ==
  \E e \in Heard(t) :
    /\ Receives(t) /\ e.kind = "ModelRequestRetrying"
    /\ IF pending[t] = e.round THEN Log(t, FALSE) ELSE UNCHANGED logs
    /\ Forward(t, e)
    /\ BridgeOnly /\ UNCHANGED <<rows, bridge, pending>>

HearRetry(t) ==
  \E e \in Heard(t) :
    /\ Receives(t) /\ e.kind = "ModelRequestRetrying"
    /\ IF pending[t] = e.round
         THEN Log(t, FALSE) /\ pending' = [pending EXCEPT ![t] = 0]
         ELSE UNCHANGED <<logs, pending>>
    /\ Forward(t, e)
    /\ BridgeOnly /\ UNCHANGED <<rows, bridge>>

\* An assistant message with no text, reasoning or tool calls has no row.
HearRound(t) ==
  \E e \in Heard(t) :
    /\ Receives(t) /\ e.kind = "ModelRoundFinished"
    /\ \/ Move(t, "persisting", e, e.tools + 1)
       \/ e.tools = 0 /\ Move(t, "settling", e, 0)
    /\ BridgeOnly /\ UNCHANGED <<rows, pending, logs, ui>>

\* Mutant: results are stored with their round, and not forwarded.
HearOtherKeepsResults(t) ==
  \E e \in Heard(t) :
    /\ Receives(t)
    /\ e.kind \notin Terminal \cup {"ModelRequestStarted", "ModelRequestRetrying",
                                    "ModelRoundFinished"}
    /\ IF e.kind = "ToolCallFinished" THEN UNCHANGED ui ELSE Forward(t, e)
    /\ BridgeOnly /\ UNCHANGED <<rows, bridge, pending, logs>>

HearOther(t) ==
  \E e \in Heard(t) :
    /\ Receives(t)
    /\ e.kind \notin Terminal \cup {"ModelRequestStarted", "ModelRequestRetrying",
                                    "ModelRoundFinished"}
    /\ Forward(t, e)
    /\ BridgeOnly /\ UNCHANGED <<rows, bridge, pending, logs>>

\* Mutant: the last row is forgotten.
PersistRowStops(t) ==
  LET b == bridge[t]
      k == b.event.tools + 1 - b.left
      row == [turn |-> turn[t], round |-> b.event.round, i |-> k,
              role |-> IF k = 0 THEN "assistant" ELSE "tool"]
  IN /\ b.pc = "persisting"
     /\ \/ /\ AppendSucceeds(owner[t], row)
           /\ Move(t, IF b.left > 2 THEN "persisting" ELSE "settling", b.event, b.left - 1)
        \/ AppendFails(owner[t], row) /\ Move(t, "settling", b.event, 0)
     /\ BridgeOnly /\ UNCHANGED <<chan, pending, logs, ui>>

\* Mutant: a row that cannot be written is skipped.
PersistRowSkips(t) ==
  LET b == bridge[t]
      k == b.event.tools + 1 - b.left
      row == [turn |-> turn[t], round |-> b.event.round, i |-> k,
              role |-> IF k = 0 THEN "assistant" ELSE "tool"]
  IN /\ b.pc = "persisting"
     /\ AppendSucceeds(owner[t], row) \/ AppendFails(owner[t], row)
     /\ Move(t, IF b.left > 1 THEN "persisting" ELSE "settling", b.event, b.left - 1)
     /\ BridgeOnly /\ UNCHANGED <<chan, pending, logs, ui>>

\* persist_model_round_messages gives up at the first row it cannot write.
PersistRow(t) ==
  LET b == bridge[t]
      k == b.event.tools + 1 - b.left
      row == [turn |-> turn[t], round |-> b.event.round, i |-> k,
              role |-> IF k = 0 THEN "assistant" ELSE "tool"]
  IN /\ b.pc = "persisting"
     /\ \/ /\ AppendSucceeds(owner[t], row)
           /\ Move(t, IF b.left > 1 THEN "persisting" ELSE "settling", b.event, b.left - 1)
        \/ AppendFails(owner[t], row) /\ Move(t, "settling", b.event, 0)
     /\ BridgeOnly /\ UNCHANGED <<chan, pending, logs, ui>>

\* The round's usage and call are recorded, which may fail unnoticed, and the
\* event is forwarded.
SettleRound(t) ==
  LET e == bridge[t].event
  IN /\ bridge[t].pc = "settling"
     /\ IF pending[t] = e.round
          THEN Log(t, TRUE) /\ pending' = [pending EXCEPT ![t] = 0]
          ELSE UNCHANGED <<logs, pending>>
     /\ Forward(t, e)
     /\ Move(t, "receiving", NoMessage, 0)
     /\ BridgeOnly /\ UNCHANGED <<rows, chan>>

HearClosed(t) ==
  /\ bridge[t].pc = "receiving" /\ chan[t] = <<>> /\ t \notin open
  /\ Move(t, "finishing", NoMessage, 0)
  /\ BridgeOnly /\ UNCHANGED <<rows, chan, pending, logs, ui>>

ReleaseSession(t) ==
  /\ bridge[t].pc = "finishing"
  /\ running' = running \ {owner[t]}
  /\ Move(t, "done", NoMessage, 0)
  /\ UNCHANGED <<agentVars, startVars, stored, rows, chan, canceled, crashed,
                 pending, logs, ui>>

-----------------------------------------------------------------------------
\* The rows of a deleted session go with it (ON DELETE CASCADE); nothing
\* looks at running_sessions.
DeleteSession(s) ==
  /\ MayDelete /\ s \in stored
  /\ stored' = stored \ {s}
  /\ rows' = [rows EXCEPT ![s] = <<>>]
  /\ UNCHANGED <<agentVars, startVars, bridgeVars, running, chan, canceled, crashed>>

\* The process dies and is started again: storage is what is left.
Crash ==
  /\ MayCrash /\ ~crashed
  /\ crashed' = TRUE
  /\ running' = {} /\ open' = {}
  /\ step' = [t \in Tasks |-> IF step[t] = "idle" THEN "idle" ELSE "lost"]
  /\ bridge' = [t \in Tasks |-> Idle]
  /\ chan' = [t \in Tasks |-> <<>>]
  /\ UNCHANGED <<last, ends, results, owner, turn, pending, logs, ui, stored, rows, canceled>>

-----------------------------------------------------------------------------
KernelInit ==
  /\ Init
  /\ stored = Sessions
  /\ rows = [s \in Sessions |-> <<>>]
  /\ running = {} /\ open = {} /\ canceled = {}
  /\ step = [t \in Tasks |-> "idle"]
  /\ owner = [t \in Tasks |-> NoSession]
  /\ turn = [t \in Tasks |-> 0]
  /\ results = [t \in Tasks |-> 0]
  /\ chan = [t \in Tasks |-> <<>>]
  /\ bridge = [t \in Tasks |-> Idle]
  /\ pending = [t \in Tasks |-> 0]
  /\ logs = [t \in Tasks |-> <<>>]
  /\ ui = [t \in Tasks |-> <<>>]
  /\ crashed = FALSE

StartStep(t) ==
  BuildTools(t) \/ ReadTurn(t) \/ WritePrompt(t) \/ AssembleContext(t)
    \/ StartAgent(t) \/ SpawnBridge(t)

AgentStep(t) == HangUp(t) \/ \E e \in Event : PublishEvent(t, e)

BridgeStep(t) ==
  HearTerminal(t) \/ HearRequest(t) \/ HearRetry(t) \/ HearRound(t) \/ HearOther(t)
    \/ PersistRow(t) \/ SettleRound(t) \/ HearClosed(t) \/ ReleaseSession(t)

KernelNext ==
  \/ \E t \in Tasks : StartStep(t) \/ AgentStep(t) \/ BridgeStep(t) \/ CancelTask(t)
  \/ \E t \in Tasks, s \in Sessions : ClaimSession(t, s)
  \/ \E s \in Sessions : DeleteSession(s)
  \/ Crash

KernelSpec == KernelInit /\ [][KernelNext]_vars

\* The start call and the bridge only await storage, whose calls return; the
\* task's runner ends (AgentTask!RunnerEnds), here by running out of events.
KernelFairness ==
  \A t \in Tasks : WF_vars(StartStep(t)) /\ WF_vars(BridgeStep(t)) /\ WF_vars(AgentStep(t))

FairKernelSpec == KernelSpec /\ KernelFairness
-----------------------------------------------------------------------------
(* Properties.                                                             *)

\* Every variable keeps its type (session_service.rs:33-37, events.rs:9-24).
KernelTypeOK ==
  /\ TypeOK
  /\ stored \subseteq Sessions /\ running \subseteq Sessions
  /\ rows \in [Sessions -> Seq(Row)]
  /\ open \subseteq Tasks /\ canceled \subseteq Tasks
  /\ step \in [Tasks -> Steps]
  /\ owner \in [Tasks -> Sessions \cup {NoSession}]
  /\ turn \in [Tasks -> Nat]
  /\ results \in [Tasks -> 0 .. MaxTools]
  /\ chan \in [Tasks -> Seq(Message)] /\ ui \in [Tasks -> Seq(Message)]
  /\ bridge \in [Tasks -> [pc : BridgeStates, event : Message, left : 0 .. MaxTools + 1]]
  /\ pending \in [Tasks -> 0 .. MaxRounds]
  /\ logs \in [Tasks -> Seq([round : 1 .. MaxRounds, ok : BOOLEAN])]
  /\ crashed \in BOOLEAN

\* A task works on its session from the claim until its bridge let go of it.
Active(t) ==
  /\ step[t] \in {"marked", "tools", "turn", "prompted", "assembled", "starting", "returned"}
  /\ bridge[t].pc # "done"

\* Two tasks never work on one session at a time, on whatever path a start
\* fails and however late the bridge is (session_service.rs:48-61).
OneTaskPerSession ==
  \A t, u \in Tasks : Active(t) /\ Active(u) /\ owner[t] = owner[u] => t = u

Before(a, b) ==
  \/ a.turn < b.turn
  \/ a.turn = b.turn /\ a.round < b.round
  \/ a.turn = b.turn /\ a.round = b.round /\ a.i < b.i

\* The rows of a session tell its story in order: a prompt has a turn of its
\* own, rounds follow it in order, and a tool row directly follows the row
\* before it in its round, so none is without its assistant row
\* (session_service.rs:71-163 across tasks, failures and crashes).
RowsInOrder ==
  \A s \in Sessions : \A k \in 2 .. Len(rows[s]) :
    LET a == rows[s][k - 1]  b == rows[s][k]
    IN /\ Before(a, b)
       /\ b.i > 0 => a.turn = b.turn /\ a.round = b.round /\ a.i = b.i - 1

UiLast == [t \in Tasks |-> IF ui[t] = <<>> THEN NoEvent
                                          ELSE Ev(Last(ui[t]).kind, Last(ui[t]).round)]
UiEnds == [t \in Tasks |-> Cardinality({k \in DOMAIN ui[t] : IsTerminal(ui[t][k])})]
Ui == INSTANCE TaskStream WITH last <- UiLast, ends <- UiEnds

\* What the user interface is sent keeps the grammar of the runtime's events:
\* it never sees an event that may not follow the one before, whatever storage
\* does meanwhile (events.rs:25-205).
UiStreamSpec == Ui!Spec

\* The bridge has taken an event and not forwarded it yet.
InHand(t) == bridge[t].pc \in {"persisting", "settling"}
Hand(t) == IF InHand(t) THEN <<bridge[t].event>> ELSE <<>>

\* What a task has published: forwarded, in the bridge's hand, in the channel.
Story(t) == ui[t] \o (Hand(t) \o chan[t])

\* Every event is forwarded, once and in the order it was published in: while
\* the process lives a task's story only grows, at its end and by what the task
\* publishes, and the bridge stops when all of it has been forwarded
\* (events.rs:25-205).
ForwardedAsPublished ==
  [][\A t \in Tasks : crashed' = crashed =>
       /\ \/ Story(t)' = Story(t)
          \/ /\ ui'[t] = ui[t] /\ Hand(t)' = Hand(t)
             /\ chan'[t] # <<>> /\ chan'[t] = Append(chan[t], Last(chan'[t]))
       /\ bridge[t].pc # "finishing" /\ bridge'[t].pc = "finishing" => ui'[t] = Story(t)']_vars

CallOutcome == Terminal \cup {"ModelRequestStarted", "ModelRequestRetrying", "ModelRoundFinished"}

\* The requests in a stream whose outcome was never announced, because the
\* next one was opened.
Unannounced(stream) ==
  {i \in DOMAIN stream :
     /\ stream[i].kind = "ModelRequestStarted"
     /\ \E j \in i + 1 .. Len(stream) :
          /\ stream[j].kind = "ModelRequestStarted"
          /\ \A k \in i + 1 .. j - 1 : stream[k].kind \notin CallOutcome}

Requested(stream) == {i \in DOMAIN stream : stream[i].kind = "ModelRequestStarted"}
RoundsFinished(stream) == {i \in DOMAIN stream : stream[i].kind = "ModelRoundFinished"}

\* Every model request the bridge has heard of is logged exactly once when
\* its outcome is known, and never before; announced rounds as successes
\* (events.rs:72-82, 125-136, 163-177).
CallsAccounted ==
  \A t \in Tasks :
    LET s == ui[t]
    IN /\ Len(logs[t]) + (IF pending[t] # 0 THEN 1 ELSE 0)
             = Cardinality(Requested(s)) - Cardinality(Unannounced(s))
       /\ bridge[t].pc \in {"receiving", "finishing", "done"} =>
            Cardinality({k \in DOMAIN logs[t] : logs[t][k].ok})
              = Cardinality(RoundsFinished(s))
                  + (IF s # <<>> /\ Last(s).kind = "Finished"
                        /\ \E i \in Requested(s) : \A k \in i + 1 .. Len(s) - 1 :
                             s[k].kind \notin CallOutcome
                       THEN 1 ELSE 0)

\* Tool results of round r of a stream that were not discarded by a retry.
Kept(s, r) ==
  {i \in DOMAIN s :
     /\ s[i].kind = "ToolCallFinished" /\ s[i].round = r
     /\ \A j \in i + 1 .. Len(s) : ~(s[j].kind = "ModelRequestRetrying" /\ s[j].round = r)}

ToolRows(t, r) ==
  {k \in DOMAIN rows[owner[t]] :
     LET row == rows[owner[t]][k]
     IN row.turn = turn[t] /\ row.round = r /\ row.role = "tool"}

\* If storage works, a round the user interface saw finished is in storage
\* with every tool result it kept (session_service.rs:97-163).
AnnouncedRoundsStored ==
  \A t \in Tasks : \A i \in RoundsFinished(ui[t]) :
    LET r == ui[t][i].round IN Cardinality(ToolRows(t, r)) = Cardinality(Kept(ui[t], r))

\* What the bridge says of tool results (events.rs:180): those of a completed
\* round are persisted.  A round is completed when the next one is requested.
\* The code does not keep it: a round may go on unannounced (runner.rs:504).
ToolResultsPersisted ==
  \A t \in Tasks : \A i \in Requested(ui[t]) :
    LET r == ui[t][i].round - 1
    IN Cardinality(Kept(ui[t], r)) = Cardinality(ToolRows(t, r))

\* A session that runs a task becomes free again, whatever storage does
\* (kernel.rs:154-252, events.rs:207).
SessionReleased ==
  \A s \in Sessions : s \in running ~> s \notin running

\* Who started a task hears how it ended, unless it was canceled or the
\* process died (events.rs:51-98).
EndHeard ==
  \A t \in Tasks :
    step[t] = "returned" ~> UiEnds[t] = 1 \/ t \in canceled \/ crashed
=============================================================================
