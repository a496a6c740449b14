----------------------------- MODULE Transcript -----------------------------
(***************************************************************************)
(* The window (src/App.jsx): what it keeps of each session, and how clicks,*)
(* answers of commands, and the kernel's events change it.                 *)
(*                                                                         *)
(* Commands and events travel on their own: the answer to a command may    *)
(* arrive before or behind any event, the events of one session arrive in  *)
(* order.  Every handler runs to its next await without interruption.      *)
(*                                                                         *)
(* A transcript is a sequence of messages.  Of an answer the window keeps  *)
(* the output of the rounds that have finished, and the deltas of the      *)
(* attempt that is streaming.  Prompts are numbered in the order they are  *)
(* sent, and the task the kernel starts for a prompt has its number; 0 is  *)
(* the missing task.                                                       *)
(*                                                                         *)
(* The kernel is SessionKernel's, reduced to what the window can see of it.*)
(***************************************************************************)
EXTENDS Integers, FiniteSets, Sequences, SequencesExt

CONSTANTS
    Sessions,
    Nobody,       \* no session is selected
    MaxPrompts,   \* bound on the prompts sent, over all sessions
    MaxDeltas,    \* bound on the deltas of one attempt
    MaxRounds,    \* bound on the model rounds of one task
    MaxRetries,   \* bound on the retries of one round
    MaxFolds,     \* bound on the compactions of one task
    Patient       \* TRUE if the user waits for what is on its way

ASSUME TranscriptAssumption ==
    /\ Nobody \notin Sessions
    /\ MaxPrompts \in Nat /\ MaxDeltas \in Nat /\ MaxRounds \in Nat
    /\ MaxRetries \in Nat /\ MaxFolds \in Nat
    /\ Patient \in BOOLEAN

VARIABLES
    selected,   \* activeSessionId: what the sidebar shows as open
    active,     \* activeSessionIdRef: what handlers take for the open session
    view,       \* messages: the transcript on the screen
    cache,      \* messagesBySessionRef
    running,    \* runningSessionIdsRef
    canceling,  \* cancelingSessionIdsRef
    taskOf,     \* taskIdsBySessionRef
    hidden,     \* hiddenCompactionTaskIdsRef
    sending,    \* submits that wait for update_session_model
    prompts,    \* the number of the latest prompt
    starts,     \* prompts whose start_agent_task is on its way
    answers,    \* answers of start_agent_task on their way
    cancels,    \* cancel_agent_task of a session: [call, task]
    loads,      \* list_session_messages of a session: [call, turns]
    deletes,    \* delete_session of a session: [call, open when clicked]
    deleted,    \* sessions the kernel does not have, or no longer
    turns,      \* rows in storage: the turns of a session and their rounds
    kernel,     \* the running task of a session
    queue,      \* agent:event, per session
    heard,      \* the task, rounds and deltas told to the window so far
    silent      \* history: what a session's latest task did when it ended silently

uiVars     == <<selected, active, view, cache, running, canceling, taskOf, hidden,
               sending, prompts>>
callVars   == <<starts, answers, cancels, loads, deletes>>
kernelVars == <<deleted, turns, kernel, queue, heard, silent>>
vars == <<uiVars, callVars, kernelVars>>

-----------------------------------------------------------------------------
(* Messages.                                                               *)

Message(role, turn) == [role |-> role, turn |-> turn, task |-> 0,
                        rounds |-> 0, got |-> 0, notice |-> FALSE]
UserMessage(n) == Message("user", n)
Placeholder(n) == Message("assistant", n)

IsEmptyMessage(m) == m.rounds = 0 /\ m.got = 0 /\ ~m.notice

IsAnswer(m) == m.role = "assistant"

(* mapMessageRecords: one user message and one answer per turn.            *)
Mapped(ts) == FlattenSeq([i \in 1..Len(ts) |->
    <<UserMessage(ts[i].turn)>> \o
    (IF ts[i].rounds = 0 THEN <<>>
     ELSE <<[Placeholder(ts[i].turn) EXCEPT !.rounds = ts[i].rounds]>>)])

\* Mutant: the answer's task is not compared.
WithAnswerOfAny(items, t) ==
    IF items # <<>> /\ IsAnswer(Last(items)) THEN items
    ELSE Append(items, [Placeholder(t) EXCEPT !.task = t])

(* updateAssistantMessage: the last message, if it is the task's answer,   *)
(* else a new one.                                                         *)
WithAnswer(items, t) ==
    IF items # <<>> /\ IsAnswer(Last(items)) /\ Last(items).task = t THEN items
    ELSE Append(items, [Placeholder(t) EXCEPT !.task = t])

ChangeLast(items, m) == Append(Front(items), m)

(* appendAssistantTextBlock                                                *)
DeltaShown(items, t) == LET its == WithAnswer(items, t) IN
    ChangeLast(its, [Last(its) EXCEPT !.got = @ + 1])

(* recordAssistantModelRetry: the whole message is emptied.                *)
RetryShown(items, t) == LET its == WithAnswer(items, t) IN
    ChangeLast(its, [Last(its) EXCEPT !.got = 0, !.rounds = 0, !.notice = TRUE])

(* recordAssistantRoundFinished                                            *)
RoundShown(items, t) == LET its == WithAnswer(items, t) IN
    ChangeLast(its, [Last(its) EXCEPT !.got = 0, !.rounds = @ + 1])

(* removeEmptyAssistantPlaceholder                                         *)
WithoutPlaceholder(items) ==
    IF items # <<>> /\ IsAnswer(Last(items)) /\ IsEmptyMessage(Last(items))
    THEN Front(items) ELSE items

(* The divider of a compaction: its notice tells that it is done.          *)
Divider(t) == [Message("compaction", t) EXCEPT !.task = t]
IsDivider(m, t) == m.role = "compaction" /\ m.task = t
HasDivider(items, t) == \E i \in DOMAIN items : IsDivider(items[i], t)

(* upsertCompactionDivider: it stands in front of the placeholder.         *)
DividerShown(items, t, done) ==
    LET divider == [Divider(t) EXCEPT !.notice = done] IN
    IF HasDivider(items, t)
    THEN [i \in DOMAIN items |-> IF IsDivider(items[i], t) THEN divider ELSE items[i]]
    ELSE IF items # <<>> /\ IsAnswer(Last(items)) /\ Last(items).task \in {0, t}
            /\ IsEmptyMessage(Last(items))
    THEN Front(items) \o <<divider, [Last(items) EXCEPT !.task = t]>>
    ELSE Append(items, divider)

(* hideCompactionDivider: one that is done stays.                          *)
IsDone(items, t) == Divider(t) \notin Range(items) /\ HasDivider(items, t)

Without(items, t) == FlattenSeq([i \in DOMAIN items |->
    IF IsDivider(items[i], t) THEN <<>> ELSE <<items[i]>>])

\* Mutant: the divider of a compaction that failed stays.
DividerHiddenNot(items, t) == items

DividerHidden(items, t) ==
    IF IsDone(items, t) THEN items ELSE Without(items, t)

HiddenAfterHide(items, t) == IF IsDone(items, t) THEN hidden ELSE hidden \cup {t}

(* The answer of start_agent_task names the task of the last answer.       *)
Tagged(items, t) ==
    IF items # <<>> /\ IsAnswer(Last(items))
    THEN ChangeLast(items, [Last(items) EXCEPT !.task = t]) ELSE items

\* Mutant: every update is put on the screen.
ShowAlways(s, items) ==
    /\ cache' = [cache EXCEPT ![s] = items]
    /\ view' = items

(* updateMessagesForSession, replaceMessagesForSession: the cache of the   *)
(* session, and the screen if it is the open one.                          *)
Show(s, items) ==
    /\ cache' = [cache EXCEPT ![s] = items]
    /\ view' = IF active = s THEN items ELSE view

NoCall == [call |-> "none", turns |-> <<>>]
Idle == [task |-> 0, round |-> 0, deltas |-> 0, retries |-> 0,
         folding |-> FALSE, folds |-> 0]
NoCancel == [call |-> "none", task |-> 0]
NoDelete == [call |-> "none", open |-> FALSE]

-----------------------------------------------------------------------------
Init ==
    /\ selected \in Sessions /\ active = selected
    /\ view = <<>>
    /\ cache = [s \in Sessions |-> <<>>]
    /\ running = {} /\ canceling = {} /\ hidden = {}
    /\ taskOf = [s \in Sessions |-> 0]
    /\ sending = [s \in Sessions |-> 0]
    /\ prompts = 0
    /\ starts = {} /\ answers = {}
    /\ cancels = [s \in Sessions |-> NoCancel]
    /\ loads = [s \in Sessions |-> NoCall]
    /\ deletes = [s \in Sessions |-> NoDelete]
    /\ deleted \in SUBSET (Sessions \ {selected})   \* identifiers without a session
    /\ turns = [s \in Sessions |-> <<>>]
    /\ kernel = [s \in Sessions |-> Idle]
    /\ queue = [s \in Sessions |-> <<>>]
    /\ heard = [s \in Sessions |-> Idle]
    /\ silent = [s \in Sessions |-> Idle]

(* A patient user waits for what a click has set off before the next one   *)
(* that concerns the same session.                                         *)
MaySend(s) == Patient =>
    /\ sending[s] = 0 /\ loads[s].call = "none"
    /\ \A n \in 1..prompts : <<s, n>> \notin starts
    /\ \A a \in answers : a.session # s
    /\ \A o \in Sessions : deletes[o].call = "none"
MaySwitch == Patient => \A o \in Sessions : sending[o] = 0 /\ deletes[o].call = "none"

\* Mutant: storage is asked for running sessions, too.
ShowOpenedStored(s) ==
    loads' = [loads EXCEPT ![s] = [call |-> "asked", turns |-> <<>>]] /\ UNCHANGED view

(* The transcript of a session that is opened: the cache while a task runs,*)
(* otherwise storage is asked.                                             *)
ShowOpened(s) ==
    IF s \in running
    THEN view' = cache[s] /\ UNCHANGED loads
    ELSE loads' = [loads EXCEPT ![s] = [call |-> "asked", turns |-> <<>>]] /\ UNCHANGED view

(* openSession                                                             *)
OpenSession(s) ==
    /\ s \notin deleted /\ loads[s].call = "none" /\ MaySwitch
    /\ selected' = s /\ active' = s
    /\ ShowOpened(s)
    /\ UNCHANGED <<cache, running, canceling, taskOf, hidden, sending, prompts,
                   starts, answers, cancels, deletes, kernelVars>>

(* Storage answers list_session_messages.                                  *)
ReadTurns(s) ==
    /\ loads[s].call = "asked"
    /\ loads' = [loads EXCEPT ![s] = [call |-> "read", turns |-> turns[s]]]
    /\ UNCHANGED <<uiVars, starts, answers, cancels, deletes, kernelVars>>

(* loadSessionMessages behind its await: dropped unless still open.        *)
TurnsLoaded(s) ==
    /\ loads[s].call = "read"
    /\ loads' = [loads EXCEPT ![s] = NoCall]
    /\ IF active = s THEN Show(s, Mapped(loads[s].turns)) ELSE UNCHANGED <<cache, view>>
    /\ UNCHANGED <<selected, active, running, canceling, taskOf, hidden, sending, prompts,
                   starts, answers, cancels, deletes, kernelVars>>

(* The call may fail; the screen is left as it was.                        *)
LoadFails(s) ==
    /\ loads[s].call = "asked"
    /\ loads' = [loads EXCEPT ![s] = NoCall]
    /\ UNCHANGED <<uiVars, starts, answers, cancels, deletes, kernelVars>>

-----------------------------------------------------------------------------
(* submitPrompt.  It looks at running once, before it may have to wait for *)
(* update_session_model.                                                   *)

Submit(s) ==
    /\ selected = s /\ s \notin running /\ MaySend(s)
    /\ prompts + sending[s] < MaxPrompts
    /\ sending' = [sending EXCEPT ![s] = @ + 1]
    /\ UNCHANGED <<selected, active, view, cache, running, canceling, taskOf, hidden, prompts,
                   callVars, kernelVars>>

SubmitFails(s) ==
    /\ sending[s] > 0
    /\ sending' = [sending EXCEPT ![s] = @ - 1]
    /\ UNCHANGED <<selected, active, view, cache, running, canceling, taskOf, hidden, prompts,
                   callVars, kernelVars>>

Send(s) ==
    /\ sending[s] > 0 /\ prompts < MaxPrompts
    /\ sending' = [sending EXCEPT ![s] = @ - 1]
    /\ prompts' = prompts + 1
    /\ LET items == cache[s] \o <<UserMessage(prompts'), Placeholder(prompts')>>
       IN  cache' = [cache EXCEPT ![s] = items] /\ view' = items
    /\ active' = s
    /\ running' = running \cup {s}
    /\ canceling' = canceling \ {s}
    /\ taskOf' = [taskOf EXCEPT ![s] = 0]
    /\ starts' = starts \cup {<<s, prompts'>>}
    /\ UNCHANGED <<selected, hidden, answers, cancels, loads, deletes, kernelVars>>

(* The kernel takes a start: it refuses a session that has a task or is    *)
(* gone, and any start may fail.                                           *)
KernelRefuses(s, n) ==
    /\ <<s, n>> \in starts
    /\ starts' = starts \ {<<s, n>>}
    /\ answers' = answers \cup {[session |-> s, task |-> n, ok |-> FALSE]}
    /\ UNCHANGED <<uiVars, cancels, loads, deletes, kernelVars>>

KernelStarts(s, n) ==
    /\ <<s, n>> \in starts /\ kernel[s].task = 0 /\ s \notin deleted
    /\ starts' = starts \ {<<s, n>>}
    /\ answers' = answers \cup {[session |-> s, task |-> n, ok |-> TRUE]}
    /\ kernel' = [kernel EXCEPT ![s] = [Idle EXCEPT !.task = n]]
    /\ turns' = [turns EXCEPT ![s] = Append(@, [turn |-> n, rounds |-> 0])]
    /\ queue' = [queue EXCEPT ![s] = Append(@, [kind |-> "task_started", task |-> n])]
    /\ silent' = [silent EXCEPT ![s] = Idle]
    /\ UNCHANGED <<uiVars, cancels, loads, deletes, deleted, heard>>

(* submitPrompt behind start_agent_task.                                   *)
StartAnswered(a) ==
    /\ a \in answers
    /\ answers' = answers \ {a}
    /\ LET s == a.session IN
       \/ /\ a.ok
          /\ taskOf' = [taskOf EXCEPT ![s] = a.task]
          /\ Show(s, Tagged(cache[s], a.task))
          /\ UNCHANGED <<running, canceling>>
       \/ /\ ~a.ok
          /\ taskOf' = [taskOf EXCEPT ![s] = 0]
          /\ running' = running \ {s} /\ canceling' = canceling \ {s}
          /\ Show(s, WithoutPlaceholder(cache[s]))
    /\ UNCHANGED <<selected, active, hidden, sending, prompts, starts, cancels, loads,
                   deletes, kernelVars>>

-----------------------------------------------------------------------------
(* The running task, as far as the window hears of it.                     *)

Tell(s, kind) == queue' = [queue EXCEPT ![s] = Append(@, [kind |-> kind, task |-> kernel[s].task])]

Streaming(s) == kernel[s].task # 0 /\ ~kernel[s].folding

KernelDelta(s) ==
    /\ Streaming(s) /\ kernel[s].deltas < MaxDeltas
    /\ kernel' = [kernel EXCEPT ![s].deltas = @ + 1]
    /\ Tell(s, "assistant_message_delta")
    /\ UNCHANGED <<uiVars, callVars, deleted, turns, heard, silent>>

KernelRetry(s) ==
    /\ Streaming(s) /\ kernel[s].retries < MaxRetries
    /\ kernel' = [kernel EXCEPT ![s].deltas = 0, ![s].retries = @ + 1]
    /\ Tell(s, "model_request_retrying")
    /\ UNCHANGED <<uiVars, callVars, deleted, turns, heard, silent>>

KernelRound(s) ==
    /\ Streaming(s) /\ kernel[s].round < MaxRounds
    /\ kernel' = [kernel EXCEPT ![s].deltas = 0, ![s].retries = 0, ![s].round = @ + 1]
    /\ turns' = IF s \in deleted THEN turns
                ELSE [turns EXCEPT ![s][Len(turns[s])].rounds = @ + 1]
    /\ Tell(s, "model_round_finished")
    /\ UNCHANGED <<uiVars, callVars, deleted, heard, silent>>

(* A compaction, before the first round or between two.                    *)
KernelFolds(s) ==
    /\ Streaming(s) /\ kernel[s].deltas = 0 /\ kernel[s].retries = 0 /\ kernel[s].folds < MaxFolds
    /\ kernel' = [kernel EXCEPT ![s].folding = TRUE, ![s].folds = @ + 1]
    /\ Tell(s, "context_compaction_started")
    /\ UNCHANGED <<uiVars, callVars, deleted, turns, heard, silent>>

KernelFolded(s) ==
    /\ kernel[s].folding
    /\ kernel' = [kernel EXCEPT ![s].folding = FALSE]
    /\ \E kind \in {"context_compaction_finished", "context_compaction_canceled"} : Tell(s, kind)
    /\ UNCHANGED <<uiVars, callVars, deleted, turns, heard, silent>>

KernelEnds(s) ==
    /\ kernel[s].task # 0
    /\ kernel' = [kernel EXCEPT ![s] = Idle]
    /\ \E kind \in {"finished", "failed"} : (Streaming(s) \/ kind = "failed") /\ Tell(s, kind)
    /\ UNCHANGED <<uiVars, callVars, deleted, turns, heard, silent>>

(* A canceled task is aborted, and its guard tells of it if it finds the   *)
(* mark.  A runner that has overwritten the mark ends without an event, and*)
(* the bridge sets the session free and forwards nothing, or, if its handle*)
(* had not been stored, it goes on.                                        *)
TaskCanceled(s) ==
    \/ kernel' = [kernel EXCEPT ![s] = Idle] /\ Tell(s, "canceled") /\ UNCHANGED silent
    \/ /\ kernel' = [kernel EXCEPT ![s] = Idle]
       /\ silent' = [silent EXCEPT ![s] = kernel[s]] /\ UNCHANGED queue
    \/ UNCHANGED <<kernel, queue, silent>>

(* cancel_agent_task: canceling a task that has ended changes nothing; the *)
(* call itself may fail.                                                   *)
KernelCancels(s) ==
    /\ cancels[s].call = "asked"
    /\ \/ /\ cancels' = [cancels EXCEPT ![s].call = "ok"]
          /\ IF kernel[s].task = cancels[s].task THEN TaskCanceled(s)
             ELSE UNCHANGED <<kernel, queue, silent>>
       \/ /\ cancels' = [cancels EXCEPT ![s].call = "refused"]
          /\ UNCHANGED <<kernel, queue, silent>>
    /\ UNCHANGED <<uiVars, starts, answers, loads, deletes, deleted, turns, heard>>

-----------------------------------------------------------------------------
(* stopActiveTask: the button is there while the selected session runs,    *)
(* the handler stops the session it takes for the open one.                *)
StopEnabled(s) == s \in running \ canceling /\ taskOf[s] # 0

Stop(s) ==
    /\ selected # Nobody /\ StopEnabled(selected)
    /\ active = s /\ taskOf[s] # 0 /\ s \notin canceling
    /\ cancels[s].call = "none"
    /\ canceling' = canceling \cup {s}
    /\ cancels' = [cancels EXCEPT ![s] = [call |-> "asked", task |-> taskOf[s]]]
    /\ UNCHANGED <<selected, active, view, cache, running, taskOf, hidden, sending, prompts,
                   starts, answers, loads, deletes, kernelVars>>

StopAnswered(s) ==
    /\ cancels[s].call \in {"ok", "refused"}
    /\ cancels' = [cancels EXCEPT ![s] = NoCancel]
    /\ IF cancels[s].call = "refused"
       THEN /\ canceling' = canceling \ {s} /\ hidden' = hidden \ {cancels[s].task}
            /\ UNCHANGED <<view, cache>>
       ELSE /\ Show(s, DividerHidden(cache[s], cancels[s].task))
            /\ hidden' = HiddenAfterHide(cache[s], cancels[s].task)
            /\ UNCHANGED canceling
    /\ UNCHANGED <<selected, active, running, taskOf, sending, prompts,
                   starts, answers, loads, deletes, kernelVars>>

-----------------------------------------------------------------------------
(* applyAgentEvent.                                                        *)

Terminal == {"finished", "failed", "canceled"}

ItemsAfter(items, e) ==
    CASE e.kind = "assistant_message_delta" -> DeltaShown(items, e.task)
      [] e.kind = "model_request_retrying"  -> RetryShown(items, e.task)
      [] e.kind = "model_round_finished"    -> RoundShown(items, e.task)
      [] e.kind = "context_compaction_started" ->
             IF e.task \in hidden THEN items ELSE DividerShown(items, e.task, FALSE)
      [] e.kind = "context_compaction_finished" -> DividerShown(items, e.task, TRUE)
      [] e.kind = "failed" -> WithoutPlaceholder(DividerHidden(items, e.task))
      [] e.kind \in {"canceled", "context_compaction_canceled"} -> DividerHidden(items, e.task)
      [] OTHER -> items

HiddenAfter(items, e) ==
    CASE e.kind = "context_compaction_finished" -> hidden \ {e.task}
      [] e.kind \in {"failed", "canceled", "context_compaction_canceled"} ->
             HiddenAfterHide(items, e.task)
      [] OTHER -> hidden

HeardAfter(h, e) ==
    CASE e.kind = "task_started"            -> [Idle EXCEPT !.task = e.task]
      [] e.kind = "assistant_message_delta" -> [h EXCEPT !.deltas = @ + 1]
      [] e.kind = "model_request_retrying"  -> [h EXCEPT !.deltas = 0]
      [] e.kind = "model_round_finished"    -> [h EXCEPT !.deltas = 0, !.round = @ + 1]
      [] e.kind \in Terminal                -> Idle
      [] OTHER                              -> h

\* Mutant: a canceled task leaves its session running.
RunningAfterCancel(e, s) ==
    CASE e.kind = "task_started"           -> running \cup {s}
      [] e.kind \in {"finished", "failed"} -> running \ {s}
      [] OTHER                             -> running

RunningAfter(e, s) ==
    CASE e.kind = "task_started" -> running \cup {s}
      [] e.kind \in Terminal     -> running \ {s}
      [] OTHER                   -> running

\* Mutant: only the end that was asked for ends the cancellation.
CancelingAfterCanceled(e, s) ==
    IF e.kind \in {"canceled", "task_started"} THEN canceling \ {s} ELSE canceling

CancelingAfter(e, s) ==
    IF e.kind \in Terminal \cup {"task_started"} THEN canceling \ {s} ELSE canceling

HandleEvent(s) ==
    /\ queue[s] # <<>>
    /\ LET e == Head(queue[s]) IN
       /\ taskOf' = [taskOf EXCEPT ![s] = IF e.kind \in Terminal THEN 0 ELSE e.task]
       /\ running' = RunningAfter(e, s)
       /\ canceling' = CancelingAfter(e, s)
       /\ hidden' = HiddenAfter(cache[s], e)
       /\ IF e.kind \in {"task_started", "finished"} THEN UNCHANGED <<cache, view>>
          ELSE Show(s, ItemsAfter(cache[s], e))
       /\ heard' = [heard EXCEPT ![s] = HeardAfter(@, e)]
    /\ queue' = [queue EXCEPT ![s] = Tail(@)]
    /\ UNCHANGED <<selected, active, sending, prompts, callVars, deleted, turns, kernel, silent>>

-----------------------------------------------------------------------------
(* deleteSession: what was open is remembered from the click.              *)

DeleteSession(s) ==
    /\ s \notin deleted /\ deletes[s].call = "none" /\ MaySwitch
    /\ deletes' = [deletes EXCEPT ![s] = [call |-> "asked", open |-> selected = s]]
    /\ UNCHANGED <<uiVars, starts, answers, cancels, loads, kernelVars>>

(* Storage deletes the session and its rows, then the window forgets it    *)
(* and, if it was open, opens another one.  The task runs on.              *)
SessionDeleted(s) ==
    /\ deletes[s].call = "asked"
    /\ deletes' = [deletes EXCEPT ![s] = NoDelete]
    /\ deleted' = deleted \cup {s}
    /\ turns' = [turns EXCEPT ![s] = <<>>]
    /\ running' = running \ {s} /\ canceling' = canceling \ {s}
    /\ taskOf' = [taskOf EXCEPT ![s] = 0]
    /\ cache' = [cache EXCEPT ![s] = <<>>]
    /\ LET others == Sessions \ deleted' IN
       IF ~deletes[s].open THEN UNCHANGED <<selected, active, view, loads>>
       ELSE IF others = {}
       THEN selected' = Nobody /\ active' = Nobody /\ view' = <<>> /\ UNCHANGED loads
       ELSE \E o \in others : /\ selected' = o /\ active' = o
                              /\ loads[o].call = "none"
                              /\ ShowOpened(o)
    /\ UNCHANGED <<hidden, sending, prompts, starts, answers, cancels, kernel, queue, heard, silent>>

-----------------------------------------------------------------------------
(* What the window and the kernel do by themselves.                        *)
Settle(s) ==
    \/ ReadTurns(s) \/ TurnsLoaded(s) \/ LoadFails(s) \/ StopAnswered(s)
    \/ HandleEvent(s) \/ SessionDeleted(s) \/ KernelEnds(s) \/ KernelCancels(s)
    \/ \E n \in 1..MaxPrompts : KernelStarts(s, n) \/ KernelRefuses(s, n)
    \/ \E a \in answers : a.session = s /\ StartAnswered(a)

Next == \E s \in Sessions :
    \/ Settle(s)
    \/ OpenSession(s) \/ Submit(s) \/ SubmitFails(s) \/ Send(s) \/ Stop(s) \/ DeleteSession(s)
    \/ KernelDelta(s) \/ KernelRetry(s) \/ KernelRound(s) \/ KernelFolds(s) \/ KernelFolded(s)

Spec == Init /\ [][Next]_vars

-----------------------------------------------------------------------------
(* Properties.                                                             *)

Prompts == 1..MaxPrompts
Tasks == 0..MaxPrompts

Messages == [role : {"user", "assistant", "compaction"}, turn : Prompts, task : Tasks,
             rounds : 0..MaxRounds, got : 0..MaxDeltas, notice : BOOLEAN]

(* The window only ever shows whole messages of known turns and tasks.     *)
TypeOK ==
    /\ {selected, active} \subseteq Sessions \cup {Nobody}
    /\ {view} \cup {cache[s] : s \in Sessions} \subseteq Seq(Messages)
    /\ running \subseteq Sessions /\ canceling \subseteq Sessions
    /\ taskOf \in [Sessions -> Tasks]
    /\ prompts \in Tasks
    /\ starts \subseteq Sessions \X Prompts
    /\ \A a \in answers : a.session \in Sessions /\ a.task \in Prompts

Occurrences(items, Test(_)) == Cardinality({i \in DOMAIN items : Test(items[i])})

(* A prompt stays on its session's transcript, once, from the moment it is *)
(* sent until its task has ended: no answer that arrives late takes it     *)
(* away (replaceMessagesForSession).                                       *)
PromptShown == \A s \in Sessions \ deleted : \A n \in Prompts :
    <<s, n>> \in starts \/ kernel[s].task = n =>
        Occurrences(cache[s], LAMBDA m : m = UserMessage(n)) = 1

Pending(s) == \/ \E n \in Prompts : <<s, n>> \in starts
              \/ \E a \in answers : a.session = s
              \/ queue[s] # <<>>

EndedSilently(s) == silent[s].task # 0

(* When nothing of a session is on its way, the window shows it as running *)
(* exactly if the kernel runs a task of it, otherwise it could neither be  *)
(* stopped nor sent another prompt, or if the task has ended silently: the *)
(* mark then stays for good (setSessionRunning).                           *)
RunningMatchesKernel == \A s \in Sessions \ deleted :
    ~Pending(s) => (s \in running <=> kernel[s].task # 0 \/ EndedSilently(s))

(* A session is shown as running only while something of its task is still *)
(* to come.  The code does not keep it: a task that is canceled may end    *)
(* without an event (agent.rs:65), and the bridge, which then only sets    *)
(* the session free (events.rs:195), tells the window nothing.             *)
MarksClear == \A s \in running : Pending(s) \/ kernel[s].task # 0

(* The deltas of the attempt that streams are shown, each once, in the one *)
(* answer that belongs to the task, at the end of the transcript, whoever  *)
(* is on the screen meanwhile (updateAssistantMessage).                    *)
AnswerShown == \A s \in Sessions \ deleted :
    heard[s].deltas > 0 =>
        /\ Occurrences(cache[s], LAMBDA m : m.task = heard[s].task /\ m.got > 0) = 1
        /\ Last(cache[s]).task = heard[s].task
        /\ Last(cache[s]).got = heard[s].deltas

(* A compaction that was called off, by a stop or by itself, is not shown  *)
(* as running again by an event that was on its way (hiddenCompactionTask- *)
(* IdsRef).                                                                *)
HiddenStaysHidden == \A s \in Sessions, t \in hidden : Divider(t) \notin Range(cache[s])

(* When nothing of a session is on its way, a compaction is shown as       *)
(* running only if the kernel compacts, or the task has ended silently.    *)
DividerMatchesKernel == \A s \in Sessions \ deleted : \A t \in Prompts :
    ~Pending(s) /\ ~EndedSilently(s) /\ Divider(t) \in Range(cache[s]) =>
        kernel[s].task = t /\ kernel[s].folding

(* The divider of a compaction that is shown as running is true, whatever  *)
(* order stops, their answers and the task's events come in                *)
(* (upsertCompactionDivider, finalizeRunningCompactions).                  *)
DividerIsTrue == HiddenStaysHidden /\ DividerMatchesKernel

(* If the selected session runs, its transcript is what is on the screen.  *)
ViewIsSelected == selected \in running => view = cache[selected]

(* The rounds of a task that the window has heard to be finished stay in   *)
(* its answer while it runs, as they stay in storage                       *)
(* (recordAssistantModelRetry: "a failed attempt").  The code does not     *)
(* keep it: the whole answer is emptied (messages.js:152).                 *)
RoundsStayShown == \A s \in Sessions \ deleted :
    heard[s].round > 0 => heard[s].round =
        MapThenFoldSet(+, 0, LAMBDA i : cache[s][i].rounds, LAMBDA T : CHOOSE i \in T : TRUE,
                       {i \in DOMAIN cache[s] : cache[s][i].task = heard[s].task})

(* A click on stop comes to an end: while a session is shown as stopping,  *)
(* the call, its answer, an event of the task or the task's end is still   *)
(* to come, and none of them is forgotten, unless the task has ended       *)
(* silently, which the window takes for a stop under way for good          *)
(* (stopActiveTask).                                                       *)
StopGoesOn == \A s \in canceling :
    \/ cancels[s].call # "none" \/ queue[s] # <<>> \/ kernel[s].task # 0
    \/ EndedSilently(s)
=============================================================================
