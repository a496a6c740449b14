# SeekCode in TLA+

SeekCode is a desktop coding assistant: a React window, a Tauri shell, and Rust
crates that run an agent against a model provider, execute its tools, and keep
sessions in SQLite. This directory holds TLA+ models of it, TLC configurations
that check them on small instances, and theorems about them that TLAPS checks
for every value of the constants. Paths below are relative to the repository.

Contents: [the system](#1-the-system) · [hard behaviour](#2-what-is-hard-here) ·
[the modules](#3-the-modules) · [the runs](#4-the-runs) ·
[fairness](#5-fairness) · [the proofs](#6-the-proofs) ·
[disagreements](#7-where-code-and-text-disagree) ·
[limits](#8-what-is-not-modelled) · [plan](#9-plan)

## 1. The system

```
 window (App.jsx) ── commands ──> Tauri commands ──> AppKernel ──> Agent ──> model client
   │   ▲                             │ settings        │  │          │  └──> tools (run_command)
   │   └──── AgentEvents ────────────┼── bridge <──────┘  │          │
   │                                 │    │            titles        │
   └ cache, pages, sidebar           └─ config.toml    compaction    └ AgentEvent channel
                                          └──────> SQLite <──┘
```

| Component | State it keeps | Operations | Correct if | Modules |
|---|---|---|---|---|
| Agent runtime (`crates/agent-core`: `agent.rs`, `runner.rs`, `task.rs`) | task table, abort handles, one runner per task | start, run (rounds, retries, tools, compaction), `cancel_task`, `resume_task`, the completion guard | the terminal event and the task's state agree; a cancellation reaches the runner; no handle outlives it; every runner ends | `AgentTask` |
| Event stream (`agent-core/event.rs`) | nothing but the channel | publish | a task's events follow one grammar, and end with its terminal event | `TaskStream` |
| Kernel's start of a task and event bridge (`app-kernel`: `kernel.rs`, `events.rs`, `session_service.rs`) | `running_sessions`, rows of a turn, open model calls | `start_agent_task`, one bridge per task, `delete_session` | one task per session, always released; rows tell the turn in order; the window hears all the runtime said, in its order; each model call is logged once | `SessionKernel` |
| Context compaction (`compaction.rs`, `runner.rs`) | summary and boundary in storage, context of the running task | fold before the first round, fold inside the loop | no turn is told neither by the summary nor by itself; the running turn is not folded | `Compaction` |
| Context assembly (`app-kernel/context.rs`) | none | rows to messages | a provider accepts the messages, and nothing stored is left out or doubled | `ContextAssembly` |
| Tool calls of a round (`runner.rs`, `context.rs`) | accumulators | accumulate deltas, run, store, read back | what was asked for is run, once, and remembered as it was | `ToolCallDeltas` |
| Tool call display (`tool_call_display.rs`, `messages.js`) | blocks of an answer | handle an event, map the rows of a page | an answer opened again shows what it showed live, in the order it did | `AnswerBlocks` |
| Model client (`deepseek-client`) | buffers of a stream | request, read, decode, end | chunks are those of the body, in order; a stream's end is true | `ModelStream` |
| Tool system (`tool-system`) | processes and pipes | look a call up, refuse it, `run_command` | a call ends, leaves no shell, and answers with the output or says what it lacks | `RunCommand` |
| Settings and desktop commands (`src-tauri`: `commands.rs`, `config.rs`, `tray.rs`) | file, two clients, kernel configuration, tray flags | save, start a task, restart | it is known when a task works with its session's provider, and when what was saved is in force | `Settings` |
| Workspaces, sessions, titles, sidebar (`kernel.rs`, `title.rs`, `workspace_store.rs`, `App.jsx`) | two tables, title generations, the sidebar's list | open, hide, create, delete, clear, rename, title | the sidebar lists what is stored; a session is named once | `Sidebar` |
| Transcripts in the window (`App.jsx`, `messages.js`) | cached transcripts, running and canceling marks, hidden compactions | send, stop, open, delete, handle an event | prompts and answers are shown once; marks agree with the kernel | `Transcript` |
| History pages (`App.jsx`, `messages.js`, `session_store.rs`) | what is shown, page state | load newest, load older | one stretch of the history is shown, and all can be reached | `HistoryPages` |

How they interact: the window calls commands and hears events, on two paths
that do not wait for each other. A command that starts a task copies settings
into the kernel and the agent, then awaits the kernel's storage calls, then the
runtime. The runner publishes on an unbounded channel that the bridge of that
task alone reads; the bridge writes to SQLite, logs model calls and forwards
each event. Cancellation goes the other way, directly to the task table.
`running_sessions`, the task table, the abort handles, the clients and the
configuration are shared under short locks that are never held over an await.

## 2. What is hard here

`PROJECT.json` lists forty places in the code where something can go wrong that
a test would hardly reach, each with the properties that would show it. They
fall into six groups.

- *State read, an await, state written.* The runner checks its state and later
  writes it without looking (`runner.rs:407`, `:524`); `start_agent_task` copies
  the configuration (`commands.rs:67`); `submitPrompt` looks at what runs, then
  awaits (`App.jsx:891`).
- *An abort at any await.* A runner is a future that is dropped where it awaits:
  between saving a summary and using it, between running a tool and saying so.
- *Two parties end the same thing.* Runner, guard, canceller and starter all
  write states and remove handles.
- *Answers and events in any order.* A task may end before its start is
  answered; a transcript may be answered after a prompt has been added to it.
- *One step of several failing.* Storage fails, a session is deleted or the
  process dies between the rows of a round.
- *Framing.* Characters, lines and calls arrive in pieces.

## 3. The modules

Written in this order; a module uses only those above it.

| Module | Models | State and actions |
|---|---|---|
| `TaskStream` | the grammar of `AgentEvent` per task | `last`, `ends`; `Emit`. An abstract specification: `AgentTask` implements it, `SessionKernel` is driven by it and passes it on |
| `AgentTask` | `agent.rs`, `runner.rs`, `task.rs` | `state` and `control` are the two locked maps, `abort` the aborted futures, `start` and `run` the program counters of a start and a runner, `call` of callers in `cancel_task`. One step is one access to a locked map; a runner is dropped only at `AwaitPoints` |
| `Compaction` | `compaction.rs`, `runner.rs:311-374`, `session_context_store.rs` | a summary is the set of turns it covers; `saved` is storage, `ctx` the running task's context. One step per await, each of which may be the last |
| `ContextAssembly` | `app-kernel/context.rs:164-345` | rows are written or lost one by one, the assembly is an operator on them |
| `ToolCallDeltas` | `ToolCallAccumulator`, `PersistedToolCallAccumulator` | one step per streamed delta, finish reason (with the calls it has run) and end of the stream; reading back is an operator |
| `SessionKernel` | `kernel.rs:142-267`, `events.rs`, `session_service.rs`, `session_store.rs` | extends `TaskStream`: the runtime is any producer that keeps the grammar. `step` is the start's program counter, `bridge` the bridge's, `rows`, `running`, `pending`, `logs`, `ui` what they write. One step per await whose outcome matters |
| `AnswerBlocks` | `tool_call_display.rs`, `messages.js`, the handlers of `App.jsx` | one answer made twice: `blocks` by the live events, one step each, and again by `MapRecords`, an operator on the stored rows |
| `ModelStream` | `client.rs`, `sse.rs` | a request that may fail or be refused, then a body in either line end, as bytes cut anywhere; a step is a read and what `next_stream_item` makes of it, or a chunk returned |
| `RunCommand` | `tool-system/lib.rs` | a call that is refused or spawns; shell, background process, two pipes, two readers, decoding and truncation, failure, timeout, abort |
| `Settings` | `commands.rs`, `config.rs`, `tray.rs`, `set_provider`, `update_deepseek_config` | every copy of the settings is a variable; a command is a sequence of steps, and the steps of several interleave; history variables tell which came in between |
| `HistoryPages` | `App.jsx:1594-1665`, `messages.js:94`, the page query | calls are answered in any order, or refused; leaving may forget the page state |
| `Transcript` | the handlers of `App.jsx` and `messages.js` | per session the cache, what is on its way, what was heard; the kernel reduced to what the window sees, silent ends included (`silent`) |
| `Sidebar` | workspaces, sessions, titles, the list in the window | each kernel operation statement by statement, each answer and title event delivered later |
| `MCSessionKernel` | instance | kinds of events |
| `MCRound` | composes `ToolCallDeltas`, `ContextAssembly` and `AnswerBlocks` | a round as the runner, the next context and the window have it; a behaviour belongs to one scene |
| `MCWindow` | composes `Transcript` and `HistoryPages` | both of a session's views; a behaviour belongs to one scene, whose bounds `InScene` gives |
| `AgentTaskProofs`, `SessionKernelProofs`, `CompactionProofs`, `RoundProofs`, `SidebarProofs`, `SettingsProofs`, `WindowProofs`, `RunCommandProofs` | theorems | see [the proofs](#6-the-proofs) |

Composition: `AgentTask` carries `Stream == INSTANCE TaskStream`, its actions
publish through it, and `StreamSpec` states the refinement. `SessionKernel`
extends `TaskStream` for the events it receives and instantiates it again as
`Ui` for those it forwards; `UiStreamSpec` says that the bridge keeps the
grammar it was promised, `ForwardedAsPublished` that it leaves nothing out. `Compaction` relies on one task per session, which
`SessionKernel` shows. `ContextAssembly` reads the rows `SessionKernel` writes,
and `Transcript` has in it the part of `SessionKernel` the window sees.

A definition under a comment that begins with "Mutant:" is a wrong version of
the definition next to it. It is not part of the model: put in that definition's
place, it shows that one property notices one plausible mistake.

### Choices a reader should know of

- `AgentTask`. `EarlyCancel` lets a caller cancel as soon as `TaskStarted` is
  published, as any user of `agent-core` may; the kernel's user cannot, since
  events are bridged only after start has returned (`kernel.rs:228-261`).
  `AllowResume` lets callers use `resume_task`, which the kernel never does.
  `StateChanged` events are left out: each is published beside the event that
  caused it and only forwarded.
- `SessionKernel`. `append_session_message` is an insert, an update of the
  session and a read of the row, so it may fail although the row exists. A
  round that ended unannounced leaves its call in `pending`, where the next
  request overwrites it without logging it (`events.rs:101-110`); `Unannounced`
  counts these. Three awaits have no step of their own, those of the token count
  and of the call log (`events.rs:80`, `:128`, `:153-175`): nobody uses their
  result, and they are part of the step that forwards their event.
- `ContextAssembly`. When the tool rows of a round are lost, its assistant row
  is next to the following one and both are merged, so that a complete round
  behind a lost one is dropped too. `LossStaysLocal` therefore speaks of
  complete rounds whose row in front is not such a row: those are always told.
  A call carries the rows its arguments come from, because a provider may use
  an identifier again and arguments are concatenated by identifier;
  `ArgumentsAreOwn` says how far that can go.
- `AnswerBlocks`. Within an attempt the text comes before the calls. A
  compaction inside a task starts a new message in the window; these dividers
  are `Transcript`'s. A call that was cut off by a cancellation is shown as
  running until the answer is opened again. What a reader sees is one sequence
  of pieces of text, named by three numbers, and of identifiers of calls;
  `MCRoundAssumption` keeps the two apart.
- `ToolCallDeltas`. Providers give the calls of one round distinct identifiers,
  and the finish reason `tool_calls` behind the deltas, if they give it. Without
  it no call is run, and the round finishes or goes on without those streamed
  (`runner.rs:482`, `:504`). A stream that is over without its `Finished` chunk
  leaves what was run to the task's context, and nothing to storage.
- `ModelStream`. The line end is chosen once for a body. `cutPair` remembers that
  a CR LF was cut in two, which the code cannot tell from two line ends:
  `EndIsTrue` excepts what may follow from it. Chunks that wait to be returned
  are dropped when a bad frame comes in the same piece, as in the code.
- `Transcript`. A canceled task is told of, ends silently, or goes on, if it has
  overwritten its mark and its handle was not stored yet: which of these is
  `AgentTask`'s to say. `silent` remembers the second for the properties. Rounds
  that go on unannounced are left out, as they are told of by `AgentTask` and
  `SessionKernel`. The sessions are fixed; with `Patient` the user waits for what
  a click set off.
- `HistoryPages`. An empty transcript shown without a session (`App.jsx:562`)
  forgets the page state of every session; which click does it is not told, so
  any click that leaves a session may (`Leave`).
- `RunCommand`. What is written is told by widths: characters by theirs in UTF-8,
  bytes that are no text by 0, for as many as one U+FFFD replaces. The marker
  behind a truncated text counts as one character of fourteen bytes, beyond the
  limit as in the code. Why a call is refused is not told.
- `Settings`. A file that a crash or an error cut off is told as empty. A start
  takes its clients from the process when it uses them, so that commands that
  run at the same time change each other's; `overlapped`, `doubt` and
  `disturbed` remember which did, and `OwnProvider` and `SavedIsInForce` say
  what holds of which.
- `Sidebar`. The initial list is what `list_visible_workspaces` answered. A
  statement that succeeds while the read behind it fails is left out.

## 4. The runs

`tlc -config X.cfg M`. States are distinct ones.

| Run | Module | Bounds | States | Shows |
|---|---|---|---|---|
| `AgentTask` | `AgentTask` | 1 task, 2 callers, 2 rounds, 1 retry, 2 tools, early cancel | 16,302 | `TerminalEventMatchesState`, `SilentEndOnlyIfAborted`, `NoControlLeft`; the refinement `StreamSpec`; `RunnerEnds` |
| `AgentTaskKernel` | `AgentTask` | as above with 1 tool, cancel after start, resume | 6,144 | `CancelDelivered`; `CancelEndsRunner` although awaits may hang |
| `AgentTaskSilentEnd` | `AgentTask` | 1 caller | – | a counterexample to `NoSilentEnd`, see section 7 |
| `SessionBridge` | `MCSessionKernel` | 1 task, 2 rounds, 9 events, 2 tools, retries, no failures | 14,352 | `CallsAccounted`, `AnnouncedRoundsStored`, `ForwardedAsPublished` |
| `SessionTurns` | `MCSessionKernel` | 2 tasks, 1 session, 5 events each, failing storage, deletion, a crash | 223,393 | `OneTaskPerSession`, `RowsInOrder`, `SessionReleased`, `EndHeard` |
| `Compaction` | `Compaction` | 6 turns, 3 kept, failures | 1,448 | `NothingForgotten`, `OwnTurnExpanded` |
| `Round` | `MCRound` | 2 calls, 2 attempts; 6 rows, 3 identifiers, lost rows; 2 rounds of 2 texts, 2 calls and a retry | 868,959 | `AcceptedByProvider`, `TurnIsTold`, `CallsAreRun`, `ReadBackTheSame`, `ShownAgain` |
| `ModelStream` | `ModelStream` | 3 frames of 6 kinds, 2 line ends, cut anywhere | 371,944 | `ChunksInOrder`, `EndIsTrue` |
| `Window` | `MCWindow` | 2 prompts, 1 retry, 2 folds, 2 sessions; 10 turns in pages of 3 | 2,820,412 | `AnswerShown`, `PromptShown`, `RunningMatchesKernel`, `ViewIsSelected`, `DividerIsTrue`, `StopGoesOn`, `OneStretch`, `NothingOutOfReach` |
| `Settings` | `Settings` | 2 commands at a time, 3 in all, each a start or a save that may fail, 2 providers, 1 crash | 5,254,402 | `OwnProvider`, `SavedIsInForce` |
| `RunCommand` | `RunCommand` | 2 writes per process, pipes of 1, characters of 1 and 4 bytes, bytes that are no text, limit of 4 | 63,187 | `NoShellLeft`, `AnswerIsTrue`, `NeverStuck`, `CallEnds` |
| `Sidebar` | `Sidebar` | 2 workspaces, 2 sessions, 2 titles, 2 calls | 1,252,480 | `ListedIsStored`, `NamedOnce`, `TitlingEnds` |

Why these bounds are enough to be interesting:

- *AgentTask.* Tasks share nothing but the two maps, keyed by task, and the
  theorems hold for any number of them. Two callers are needed for one to find
  the handle taken by the other. Two rounds and one retry give each loop a
  first, a middle and a last pass, where the limits of rounds and retries bite.
- *SessionKernel.* Nine events are what a round with a retry and two tools, and
  a second round, need. In `SessionTurns` five suffice for a round with a tool
  and an end; the point there is the second task, which starts while the first
  one still runs, fails, ends, or has been released. Of the terminal events only
  `Failed` is published there: the bridge treats them alike but for the log, which
  `SessionBridge` checks with all three.
- *Compaction.* Six turns with three kept leave room for a plan, a second plan
  behind it, and a fold inside the loop whose history is empty.
- *Round.* Two calls interleave, two attempts leave something behind; six rows
  are a prompt, a lost round and a whole one on either side of it. Of an answer
  two rounds suffice for an identifier that is used again, for a retry that
  empties a finished round, and for a row lost between two others.
- *ModelStream.* A frame in front of, at and behind the interesting one; either
  line end; every cut of the bytes, so every cut of a character, a CR LF, a frame.
- *Window.* Two sessions are enough for one to be shown while another runs, two
  prompts for one turn behind another. Ten turns in pages of three give a last
  page of one; every smaller history is an initial state, multiples of the page
  included. Sessions are symmetric there: only invariants are checked.
- *Settings.* Two commands that overlap in every way, and one before, between or
  behind them, which finds or mends what they left.
- *Sidebar.* Clicks follow each other, two of everything they can confuse.
- *RunCommand.* A pipe smaller than what is written to it, and a limit that
  falls on and inside a character and is passed by U+FFFD alone.

Every configuration has `CHECK_DEADLOCK FALSE`, because all of these systems
stop when their bounded work is done. Where waiting for ever would be a defect
it is a property: `CallEnds`, `NeverStuck`, `StopGoesOn`, `SessionReleased`,
`RunnerEnds`. `NeverStuck` and `StopGoesOn` are invariants that say something
specific can still happen, and so need no assumption on scheduling.

The type invariants (`TypeOK`, `KernelTypeOK`) are stated in the modules and are
not spent a run on; those of `AgentTask`, `TaskStream` and `Compaction` are
theorems, and the other proofs carry the types they need in their invariants.

## 5. Fairness

| Specification | Fair | Because |
|---|---|---|
| `AgentTask!FairSpec` | starter, runner between awaits, drop of an aborted future, a caller inside `cancel_task` | Tokio polls what is ready, and drops an aborted future when its poll returns |
| `AgentTask!LiveSpec` | and `Await` | requests carry an HTTP timeout of 120 s (`client.rs:43`), commands a timeout (`lib.rs:371`), streams are finite |
| `SessionKernel!FairKernelSpec` | start, bridge and runtime of each task | the same; storage calls return, perhaps with an error; that the runtime's tasks end is `RunnerEnds` |
| `RunCommand!TimedSpec` | `Refused \/ Spawn`, `TimeOut` | a call is looked at, and `tokio::time::timeout` elapses; nothing is assumed of the processes |
| `Sidebar!FairSpec` | each generation of a title | the model answers or fails |

All of it is weak fairness. A drop that becomes possible at an await which then
returns is not owed: it comes at a later await, or the task ends by itself. Users, cancellations, failures and crashes are never fair. `CancelEndsRunner`
holds under `FairSpec`, without the assumption that awaits return: the runner of
a canceled task ends even if the model or a tool never answers. `Window`,
`Settings`, `Compaction`, `Round` and `ModelStream` check safety only.

## 6. The proofs

`tlapm M.tla`. Nothing is assumed but the named `ASSUME`s on constants and what
the last column says. Those conditions are the ones the runs check under, and
section 7 tells what happens without them.

| Module | Theorem | Says | Provided that |
|---|---|---|---|
| `AgentTaskProofs` | `TypeCorrect` | types and bounds | |
| | `TerminalEventTheorem` | `[]TerminalEventMatchesState` | `resume_task` is not called |
| | `SilentEndTheorem` | `[]SilentEndOnlyIfAborted` | the same |
| | `NoControlLeftTheorem` | `[]NoControlLeft` | the same |
| | `CancelDeliveredTheorem` | `[]CancelDelivered` | the same, and callers know a task once it has started |
| | `RuntimeImplementsStream` | `Spec => StreamSpec`: the runtime implements the grammar | `resume_task` is not called |
| | `OneTerminalEventOfTask` | so a task has one terminal event and nothing behind it | the same |
| `SessionKernelProofs` | `OneTaskPerSessionTheorem` | `[]OneTaskPerSession`, with failures, deletions and a crash | |
| | `UiStreamTheorem` | `KernelSpec => UiStreamSpec`: what the window is sent keeps the grammar (proved, no run checks it) | |
| | `ForwardedAsPublishedTheorem` | `ForwardedAsPublished`: it is sent every event, once and in order, with failures and deletions | |
| | `RowsInOrderTheorem` | `[]RowsInOrder`, with failures, deletions and a crash | |
| | `CallsAccountedTheorem` | `[]CallsAccounted`, with failures, deletions and a crash | |
| | `AnnouncedRoundsStoredTheorem` | `[]AnnouncedRoundsStored` | storage works and no session is deleted |
| `SidebarProofs` | `NamedOnceTheorem` | `NamedOnce`, for any number of sessions, calls and titles | |
| | `ListedIsStoredTheorem` | `[]ListedIsStored` | the user waits for each answer |
| `WindowProofs` | `OneStretchTheorem`, `NothingOutOfReachTheorem` | `[]OneStretch`, `[]NothingOutOfReach`, for histories and pages of any size | the user waits for what is being loaded |
| | `RunningMatchesKernelTheorem`, `StopGoesOnTheorem`, `ViewIsSelectedTheorem` | `[]RunningMatchesKernel`, `[]StopGoesOn`, `[]ViewIsSelected`, for any number of sessions and prompts | the user waits (`Patient`) |
| | `PromptShownTheorem`, `AnswerShownTheorem`, `DividerIsTrueTheorem` | `[]PromptShown`, `[]AnswerShown`, `[]DividerIsTrue`, also for any number of deltas, retries, rounds and compactions | the same |
| `SettingsProofs` | `OwnProviderTheorem`, `SavedIsInForceTheorem` | `[]OwnProvider`, `[]SavedIsInForce`, for any number of commands that overlap and fail anywhere, and a process that dies anywhere | |
| `RunCommandProofs` | `NoShellLeftTheorem` | `[]NoShellLeft`, for any pipe and limit | |
| | `AnswerIsTrueTheorem` | `[]AnswerIsTrue`, for any output and limit | |
| `RoundProofs` | `AcceptedByProviderTheorem` | `[]AcceptedByProvider`, for turns of any length and whatever is lost of them | |
| | `TurnIsToldTheorem` | `[]TurnIsTold`, the same | |
| | `TurnInEveryScene` | `MCSpec => [](AcceptedByProvider /\ TurnIsTold)`: both hold of what `Round` checks | |
| | `CallsAreRunTheorem`, `ReadBackTheSameTheorem` | `[]CallsAreRun`, `[]ReadBackTheSame`, for any number of calls, attempts and finish reasons | deltas of the shapes `Plans` lists |
| | `ShownAgainTheorem` | `[]ShownAgain`, for any number of deltas, calls, rounds and retries, of all the rows, any loss of rows and any use of identifiers again | |
| `CompactionProofs` | `TypeTheorem`, `NothingForgottenTheorem`, `OwnTurnTheorem` | types, `[]NothingForgotten`, `[]OwnTurnExpanded` | |

The arguments:

- *AgentTask.* `TerminalEventMatchesState` is not inductive: a canceller writes
  the state at any time. What keeps it from contradicting a terminal event is
  where the runner is, so `SafeInv` ties four things together for each task.
  `SettledInv`: a task is settled only by a runner on its way out; a runner on
  its way out without a terminal event was aborted or has seen a cancellation
  its guard will announce. `HandleInv`: a handle is stored or used, never both,
  and if the guard has run before the handle was stored, the starter is still
  going to look. `DeliveryInv` adds what holds when cancellation comes after
  start: a live runner has a handle or has been told. `TypeInv` is `TypeOK` and
  the bounds of the loops, which the types of rounds and retries need.
- *Grammar.* `GrammarInv` relates a runner's position to the newest event of its
  task: which event may follow depends on the place in the loop. Each action is
  shown to publish a legal next event or none (`LegalStep`).
- *SessionKernel.* `ClaimInv` says that who works on a session has its mark, and
  that a bridge exists only for a start that returned. A step may take the mark
  away only if it ends the work (`FreeKeeps`), and the mark is given only where
  there is none.
- *Events to the window.* The stream the window sees is legal as long as what
  comes next is. `WireInv` therefore says of each task that what was forwarded,
  the event the bridge holds while it writes rows, and what waits in the channel
  are one legal stream, whose end is the task's newest event while its sender
  lives. Each of the bridge's steps moves the boundary by one event
  (`LegalTail`); publishing extends the end (`LegalAppend`); a crash cuts it.
  That these three, one behind the other (`Story`), only grow is what makes the
  forwarding complete: each of the bridge's steps takes from one and adds to the
  next (`BridgeTells`), and it stops with nothing in the last two, because a
  terminal event has no successor or the sender is gone (`BridgeStops`). Legality
  alone would not say so: a stream with a delta less is legal too.
- *Rows.* A row is written behind the newest one of its session, so `Place` says
  where that is: behind the turn a start has read, or, while the bridge works,
  before the first round that may still be announced. `Floor` names that round
  for every event of the grammar, and `FloorRises` shows that it only grows and
  passes a round when it is announced; for this `WireInv` is needed. Nobody else
  moves the newest row, by `OneTaskPerSession`; and the newest row has the
  highest turn, so the next turn is new (`NextTurnIsNew`).
- *Model calls.* `Accounted` counts, for each task, requests against outcomes in
  what the window has heard, and says that the open call is the one request
  without an outcome. Each event changes both sides by the same amount, which
  `BooksAccount` shows per kind of event; that a round's end comes where its call
  is open is the grammar's, from `WireInv`.
- *Announced rounds.* Two halves. `TellInv` is about the runtime: along `Story`,
  all a task has published, a round is announced with as many tools as results
  were kept of it, and nothing that comes later belongs to it. `StoreInv` is
  about the bridge: every round the window has heard to be finished has its tool
  rows, the round in hand has as many as the bridge's position says (`InProgress`),
  and rounds ahead have none (`Ahead`). That no other task writes rows of the
  same turn is `TurnsDiffer`, from `OneTaskPerSession` and `NextTurnIsNew`.
- *Titles.* `GuardInv`: a generation that is not over has its session in
  `title_sessions`, no two have the same, and the name read as empty stays empty
  until it is written, because only the holder writes it.
- *Sidebar.* `SideInv`: with a user who waits, at most one call is under way, and
  the list differs from the tables by exactly what that call has written so far
  (`Told`). A handler that puts the list back it was rendered with is right only
  because that list was right when it was clicked (`UnderWay`). Titles come at
  any time and change names only (`Renamed`).
- *Settings.* `SettingsInv` says what a command can rely on while others run.
  `Own`: a start nothing has come into knows the connection of its session, and
  finds in each client what it has written from its own write to its use
  (`Undisturbed`); who replaces a client or the file is the step that marks the
  starts it has come into. `ForceInv`: with no command updating the copies they are
  one (`InForce`); one that updates them alone has replaced those in front of its
  position and left those behind it (`StartsAlone`, `SavesAlone`); two that update
  at the same time leave all in doubt, until a save that has been alone from its
  truncation to its end has replaced every copy.
- *History pages.* `PagesInv`: what is shown ends with the newest turn and begins
  where the remembered page begins (`Shown`); the one load that is under way
  asked for the turns in front of that, so that what it is answered with joins
  on (`StretchConcat`), whatever a full page says about there being more.
- *Marks of the window.* `CoreInv`. The events on their way to a session are
  those of one task, and lead from what the window has heard to what the kernel
  does (`Line`). A start that is asked for or refused is all there is of its
  session (`Starting`). So the session is shown as running exactly while there
  is something to come of it (`Marks`): each step that takes the last of it away
  is the step that takes the mark away, but for a silent end, which takes the task
  away, leaves the mark and is remembered. `Waits` says what a user who waits does
  not have on its way at the same time; without it a second prompt's refusal
  would clear the mark of the first.
- *Transcripts.* `ShowingInv`. A task belongs to one session, wherever its number
  is kept (`OwnInv`), so what is done to one transcript hides no divider of
  another. The transcript tells of the task its session works on (`Told`): its
  prompt is there once, nothing of another task is behind it (`Fresh`), and of
  the task's messages only the last holds streamed output, as much as was heard
  (`Lit`). A running divider is that of the task the window hears of, and its end
  is next (`Dividing`), because behind the start of a compaction there is only
  its end, and behind a delta nothing of a compaction (`Pace`). Each operation on
  messages is shown to keep this (`EventLeaves`, `TaggedIs`, `SentIs`,
  `DividerHiddenIs`); what is left of a filtered transcript is told by the places
  that stay (`Leaves`), by induction along `FlattenSeq` (`FlattenIs`).
- *Commands.* `ShellInv` and `FlowInv`: what was read of a stream and what its
  pipe holds is what was written. An answer in time comes when the pipes are
  empty; it is made of what was read as text. What `truncate_utf8` keeps of it in
  front of the marker is the longest beginning that fits (`TruncateIs`), because
  the size of a text grows with it (`BytesGrow`).
- *Folds.* A fold from the left is told of by its steps: there is one value for
  each place, the first is the start, each next one is the step applied to the
  one before (`Along`), and the last is the result (`FoldAlong`). That such a
  function exists for each length is shown by `InductionOverSet`.
- *The turn as it is told.* Three layers. `RowsInv` says what rows a turn can
  have while any of them may be lost: a result stands behind the round it
  belongs to and is the only one of its call, a call without a result lies
  behind the rounds that were written whole. `Placed` says what merging makes
  of them: each run of assistant rows is one message, at the place of its last
  row, with the arguments of each call in the order of its rows (`Tells`).
  `Selects` says what validation leaves of the messages: which ones (`Kept`) in
  their order, where a result is kept as long as it is awaited (`Awaited`).
  `AcceptedByProvider` needs only the last layer and that a prompt calls nothing
  (`SelectedAccepted`). For `TurnIsTold` the places are followed back through all
  three: a whole round's rows stand alone in their messages (`AloneIs`,
  `WholePlaces`), the results behind a row are those behind its message
  (`FollowingIs`), and since nothing silent is in front of them, the first
  messages are the first rows (`FirstPlaces`, `WholeKept`).
- *Calls of a round.* `CallsInv`: until the first finish reason the accumulator
  holds of each call what its streamed deltas say together (`HeardSoFar`), and
  one more delta says what appending it says (`HeardMore`, from `FlattenAppend`).
  When all were sent that is what was asked for (`CompletedAre`); a second reason
  finds nothing, and without one nothing has been run when the stream is over. Read back, the identifiers are those of the calls, each of one
  call (`OrderIsOnto`), so what was stored of one is that call alone (`OwnIs`,
  from `FlattenOne`).
- *Answers shown again.* Each operation on blocks is told by what a reader sees
  of it: the text of each kind between the calls, and what is displayed of the
  calls (`Alike` if that is the same). Text adds text (`AppendDeltaIs`), a call
  that is new adds its identifier, one that was there is displayed anew
  (`CallAdded`), and its end changes nothing (`FinishLeaves`). `Grown` says this
  of an attempt as a whole, so that announced piece by piece and stored as one
  row it comes to the same. Rows are mapped by a fold (`Replays`); a row more is
  a step more, though the page it is displayed from has changed, because each
  call of the rows finds its own display in it (`AttachIs`, `ReplayMore`).
  `AnswerInv` keeps `base`, the blocks this attempt began with: the blocks now
  are `base` grown by the attempt, and opened again the rows show what `base`
  shows, if none was lost (`AnswerShown`). A retry and the end of a round choose
  a new `base`. If rows were lost, what is shown again stands in the same order
  among what was shown (`Among`), as long as nothing is shown twice: `Known`
  says that everything in `base` is of an earlier round or of a call in the
  rows. A page is mapped from all rows, those of emptied rounds included.
  `Stacked` says that what they show is what the emptied rounds show and, behind
  it, what the rest shows alone, without the calls that are in front already
  (`Behind`); each round stored grows both in the same way (`BehindGrown`), and a
  retry starts over with nothing behind (`BehindNothing`).
- *Compaction.* `SavedInv` says that storage hides nothing its summary does not
  tell; `ContextInv` that the context is made of all earlier turns and of no
  others, and that the plan, between being saved and being applied, would lose
  none if it were applied now. That last part is what a task cut off between
  the two steps needs.

Only model-checked: everything about liveness, and `NeverStuck` (the prover does
not do fairness or `ENABLED`); and `ChunksInOrder` and `EndIsTrue`, since the decoding
of `ModelStream` is a recursive operator, which the prover does not read.
The library's induction rules take an operator and cannot be used;
`InductionOverSet` does the same for a set of numbers and carries the
inductions over data: those on `FlattenSeq` and on folds. It and the lemmas
about folds are stated where they are used, in `WindowProofs`, `RunCommandProofs`
and `RoundProofs`, so that each of these can be read by itself.

## 7. Where code and text disagree

`AgentTaskSilentEnd` is a run: `cancel_task` marks a task (`agent.rs:248`)
between the runner's check of its state (`runner.rs:407`) and the runner's next
write (`runner.rs:524`, `:626` or `:278`). The mark is overwritten, the abort
drops the runner at its next await, and the guard, which finds `RunningTool` or
`Thinking`, publishes nothing (`agent.rs:65`), although `agent.rs:52` says that
it "Emits terminal cancellation events when a running task is dropped
mid-flight."

The models show the following as well. Each can be seen by changing a
configuration as told and checking only the property named.

| Property | Configuration | What happens | What is said of it |
|---|---|---|---|
| `MarksClear` | `Window` | a canceled task that ends silently leaves its session shown as running, or as stopping: it can neither be sent a prompt nor stopped until it is deleted or the window is opened anew (`agent.rs:65`, `events.rs:195`) | `App.jsx:1806`: "Session is running" |
| `ProviderOfSession` | `Settings` | two starts at a time: the process-wide client is replaced before the first task is started, which runs with the other session's provider (`commands.rs:70`) | `README.md`: "Per-session model selection" |
| `StartKeepsWindow` | `Settings` | a start copies the configuration and writes the copy back; settings saved in between lose their context window (`commands.rs:67`) | `client.rs`: "Model context window in tokens, used for context-compression decisions." |
| `TrayAsks` | `Settings` | every save counts as a choice of the close behaviour (`tray.rs:47`) | `config.rs`: "Whether the close behavior has been configured by the user." |
| `SettingsPersist` | `Settings` | the file is truncated before it is written; a crash in between loses it, and after a write that fails the process goes on with settings the file has lost (`config.rs:133`, `commands.rs:334`) | `README.md:67`: "Settings are persisted to:" |
| `PromptShown` | `Window`, `Patient = FALSE` | a transcript read before a prompt was sent replaces the one with the prompt (`App.jsx:1613`) | `sessionMessages.js:9`: "Stores one session transcript in a new map ..." |
| `RunningMatchesKernel` | `Window`, `Patient = FALSE` | a prompt sent twice starts twice; the refusal of the second marks the session as not running (`App.jsx:966`) | `App.jsx:1806`: "Session is running" |
| `ViewIsSelected` | `Window`, `Patient = FALSE` | `submitPrompt` makes its session the active one behind an await, though another was opened (`App.jsx:926`) | `App.jsx:675`: updates apply "to the owning session, even when another session is currently visible" |
| `OneStretch` | `Window`, `Patient = FALSE` | a session opened again while older turns are loading gets them twice, or gets them in front of a transcript they do not fit (`App.jsx:1635`, `:1643`) | `App.jsx:1638`: "Prepend older messages ..." |
| `RoundsStayShown` | `Window` | a retry empties the whole answer, finished rounds included (`messages.js:152`) | `messages.js:150`: "Clears streamed output for a failed attempt" |
| `ToolResultsPersisted` | `SessionBridge` | a stream that ends without a `Finished` chunk counts as a round that is not announced, and is not stored (`runner.rs:504`) | `events.rs:180`: "Tool results are persisted with the completed model round." |
| `DoneIsFinished` | `ModelStream` | CR LF is normalised piece by piece; a pair cut in two leaves `[DONE]\r`, which is skipped (`client.rs:499`) | `provider.rs:41`: "Provider-specific completion marker." |
| `ArgumentsAreOne` | `Round` | a provider uses an identifier again and the first call's result is lost: both arguments are told as one text (`context.rs:415`) | `models.rs:94`: "Assistant tool calls as provider-compatible JSON values." |
| `StatusShownAgain` | `Round` | a call that failed is shown as done when its answer is opened again (`messages.js:57`) | `tool_call_display.rs:1`: "render historical tool calls the same way as live ones" |
| `BoundaryIsHighestFolded` | `Compaction` | a fold with no expanded history saves boundary 0; the next task reads the turns beside their summary (`runner.rs:351`) | `models.rs:130`: "Highest turn sequence already folded into the summary." |
| `ListedIsStored` | `Sidebar`, `Patient = FALSE` | handlers put back the list they were rendered with (`App.jsx:1461`, `:1533`) | `commands.rs:190`: "Lists visible workspaces and their sessions." |
| `TitleShown` | `Sidebar` | the answer to a change of model, read before the title was stored, takes the title off the sidebar (`App.jsx:1187`) | `types.rs:69`: "Notification emitted when a background title task updates one session." |
| `OpenSucceeds` | `Sidebar`, `Patient = FALSE` | two calls with a new path both insert it; one is refused (`kernel.rs:291`) | `commands.rs:177`: "Opens an existing workspace by path or creates a visible one." |

So `PromptShown`, `RunningMatchesKernel`, `ViewIsSelected`, `OneStretch` and
`ListedIsStored` hold of a user who waits for what is on its way. That is what
their runs and theorems show, and no more.

Some properties say less than one might hope, on purpose. `OwnProvider` and
`SavedIsInForce` tell which commands have come in between, and promise nothing
of a start or of copies another command has come into. `RunningMatchesKernel`,
`StopGoesOn` and `DividerIsTrue` except silent ends. `CallsAreRun` lets a round
end with calls that were streamed and not run, if the provider gave no reason
`tool_calls`. `ShownAgain` says that a retry makes an answer that is opened
again longer than the live one, and where a call that uses an identifier again
then stands. With `resume_task`, which turns `Failed` or `Canceled` into
`Queued` while the guard has not run (`agent.rs:265`), a task can end without a
terminal event or have two; the kernel never calls it. And `NoShellLeft` speaks
of the shell only: processes it left in the background live on, and their
output is lost if the call times out.

## 8. What is not modelled

- *Presentation*: rendering, scrolling, dragging, searching, folding, title
  animation, settings forms; how a tool call is worded
  (`tool_call_display.rs`: only whether it is shown again is modelled).
- *Pure I/O and data*: migrations, statistics of model calls, building requests,
  `complete_chat`, the fields of a delta, the schemas of the tools, how a path is
  resolved, skills, the prompts about the environment, the wording
  of titles, normalising and validating settings, fetching the provider's models.
- *Stubs and types*: the audit log, identifiers, errors.
- *External*: SQLite is its tables and constraints as the code uses them, one
  statement at a time; the provider is any stream; the shell is any two
  processes. These definitions are marked external in the map.
- Text is a sequence of pieces, characters or turns, never its letters. Token
  counts are three levels. Time does not pass; timeouts may happen.

## 9. Plan

The order in which the modules were planned and written is that of section 3:
the runtime and its grammar first, the kernel around it, what is told to the
model, the edges (stream, commands, settings), the window. What is left, in the
order of its worth:

1. `ModelStream` with its decoding as a function, so that `ChunksInOrder` can be
   proved for bodies of any length.
2. Models still missing: the timeline of a transcript; the statistics of model
   calls; the window's close flow (`tray.rs:102`);
   `list_session_messages_page` beside a running task.
