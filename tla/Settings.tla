------------------------------ MODULE Settings ------------------------------
(***************************************************************************)
(* The settings file, and the copies of it the process works with: the     *)
(* model client of the agent, the one of the kernel, the kernel's          *)
(* configuration and the tray's flags (src-tauri: commands.rs, config.rs,  *)
(* tray.rs, state.rs; app-kernel: kernel.rs; agent-core: agent.rs).        *)
(*                                                                         *)
(* Starting a task points both clients at the provider of its session,     *)
(* saving the settings points them at the default one.  Neither is atomic: *)
(* a command is a sequence of steps, and commands run on several threads   *)
(* without a lock around the whole.  Three history variables say which     *)
(* commands came between the steps of which.                               *)
(*                                                                         *)
(* Saved settings are told apart by the number of the command that saved   *)
(* them, 0 for the defaults; a connection is the provider and the save its *)
(* address and key come from, a client is a connection and the save its    *)
(* context window comes from.                                              *)
(***************************************************************************)
EXTENDS Integers

CONSTANTS
    Default,      \* DEFAULT_PROVIDER_ID
    Custom,       \* the additional providers
    Calls,        \* commands that may run at the same time
    MaxCommands,  \* bound on the commands
    MaxRestarts   \* bound on the crashes of the process

ASSUME SettingsAssumption ==
    /\ Default \notin Custom
    /\ MaxCommands \in Nat /\ MaxRestarts \in Nat

VARIABLES
    file,       \* config.toml
    agent,      \* the client of newly-started runners
    slot,       \* the kernel's client: compaction and titles
    config,     \* AppKernelConfig: its client, and the save of its title model
    closing,    \* the tray's flags
    calls,      \* the commands under way
    tasks,      \* the clients the tasks started with
    commands,   \* the number of commands so far
    restarts,
    overlapped, \* history: the commands that updated the copies while another did
    doubt,      \* history: what cannot be in force any more: "none", the "file" or "all"
    disturbed   \* history: the starts whose settings or clients another command replaced

copies == <<agent, slot, config, closing>>
history == <<overlapped, doubt, disturbed>>
vars == <<file, copies, calls, tasks, commands, restarts, history>>

Providers == {Default} \cup Custom

Connection(p, n) == [provider |-> p, save |-> n]

Client(connection, n) == [connection |-> connection, window |-> n]

(* AppSettings, as far as a copy of it is kept somewhere.                  *)
AppSettings(n, ps, configured, tray) ==
    [save |-> n, providers |-> ps, configured |-> configured, tray |-> tray]

DefaultSettings == AppSettings(0, {}, FALSE, TRUE)

(* The file is truncated before it is written; what is missing in it is    *)
(* read as the defaults.                                                   *)
Empty == [whole |-> FALSE]
Whole(settings) == [whole |-> TRUE, settings |-> settings]

LoadAppSettings == IF file.whole THEN file.settings ELSE DefaultSettings

NoCall == [step |-> "none"]

-----------------------------------------------------------------------------
(* AppState::new and init_close_behavior_cache.                            *)

Initial(settings) == Client(Connection(Default, settings.save), settings.save)

Init ==
    /\ \E ps \in SUBSET Custom :
          file \in {Empty, Whole(AppSettings(0, ps, FALSE, TRUE)), Whole(AppSettings(0, ps, TRUE, TRUE))}
    /\ agent = Initial(LoadAppSettings) /\ slot = agent
    /\ config = [client |-> agent, title |-> LoadAppSettings.save]
    /\ closing = [configured |-> LoadAppSettings.configured, tray |-> LoadAppSettings.tray]
    /\ calls = [c \in Calls |-> NoCall]
    /\ tasks = {}
    /\ commands = 0 /\ restarts = 0
    /\ overlapped = {} /\ doubt = "none" /\ disturbed = {}

(* The process dies and is started again.                                  *)
Restart ==
    /\ restarts < MaxRestarts
    /\ restarts' = restarts + 1
    /\ agent' = Initial(LoadAppSettings) /\ slot' = agent'
    /\ config' = [client |-> agent', title |-> LoadAppSettings.save]
    /\ closing' = [configured |-> LoadAppSettings.configured, tray |-> LoadAppSettings.tray]
    /\ calls' = [c \in Calls |-> NoCall]
    /\ tasks' = {}
    /\ overlapped' = {} /\ doubt' = "none" /\ disturbed' = {}
    /\ UNCHANGED <<file, commands>>

At(c, step) == calls[c].step = step
Step(c, call) == calls' = [calls EXCEPT ![c] = call]
GoTo(c, step) == Step(c, [calls[c] EXCEPT !.step = step])
Over(c) ==
    /\ Step(c, NoCall)
    /\ overlapped' = overlapped \ {c} /\ disturbed' = disturbed \ {c}

(* A command goes on with one more thing it knows.                         *)
Learns(call, step, field, value) ==
    [f \in DOMAIN call \cup {field} |->
        CASE f = "step" -> step [] f = field -> value [] OTHER -> call[f]]

-----------------------------------------------------------------------------
(* History.  A command updates the copies from the time it has read or     *)
(* truncated what it replaces until its last write.                        *)

Updating ==
    {c \in Calls : \/ calls[c].step \in {"write", "tray", "agent", "slot", "config", "title"}
                   \/ calls[c].step = "copy" /\ calls[c].kind = "save"}

Enters(c) == LET others == Updating \ {c} IN
    IF others = {} THEN overlapped' = overlapped \ {c} /\ UNCHANGED doubt
    ELSE overlapped' = overlapped \cup others \cup {c} /\ doubt' = "all"

(* A save goes wrong behind the truncation.                                *)
Fails == doubt' = IF doubt = "all" THEN "all" ELSE "file"

(* The starts, c itself aside, that have read or written what c replaces   *)
(* and are going to use it.                                                *)
Starts(c, steps) == {d \in Calls \ {c} :
    calls[d].step \in steps /\ calls[d].kind = "start"}

Disturbs(c, steps) == disturbed' = disturbed \cup Starts(c, steps)

-----------------------------------------------------------------------------
(* start_agent_task.                                                       *)

(* The session has been loaded; its model may be one of any provider.      *)
BeginStart(c, p) ==
    /\ At(c, "none") /\ commands < MaxCommands
    /\ commands' = commands + 1
    /\ Step(c, [kind |-> "start", step |-> "load", provider |-> p, since |-> LoadAppSettings.save])
    /\ UNCHANGED <<file, copies, tasks, restarts, history>>

(* provider_connection: a provider that is not among the settings refuses  *)
(* the start.                                                              *)
IsKnown(p) == p = Default \/ p \in LoadAppSettings.providers

\* Mutant: every session is answered by the default provider.
ProviderConnectionDefault(c) == Connection(Default, LoadAppSettings.save)

ProviderConnection(c) == Connection(calls[c].provider, LoadAppSettings.save)

LoadForStart(c) ==
    /\ At(c, "load") /\ IsKnown(calls[c].provider)
    /\ Step(c, Learns(calls[c], "copy", "connection", ProviderConnection(c)))
    /\ UNCHANGED <<file, copies, tasks, commands, restarts, history>>

(* The rest of the client's configuration is that of the kernel.           *)

\* Mutant: a start takes the context window from the settings it started with.
CopyForStartAnew(c) ==
    /\ At(c, "copy") /\ calls[c].kind = "start"
    /\ Step(c, Learns(calls[c], "agent", "client", Client(calls[c].connection, 0)))
    /\ Enters(c)
    /\ UNCHANGED <<file, copies, tasks, commands, restarts, disturbed>>

CopyForStart(c) ==
    /\ At(c, "copy") /\ calls[c].kind = "start"
    /\ Step(c, Learns(calls[c], "agent", "client", Client(calls[c].connection, config.client.window)))
    /\ Enters(c)
    /\ UNCHANGED <<file, copies, tasks, commands, restarts, disturbed>>

(* update_deepseek_config, for both commands: three writes.                *)
SetAgent(c) ==
    /\ At(c, "agent")
    /\ agent' = calls[c].client
    /\ GoTo(c, "slot")
    /\ Disturbs(c, {"slot", "config", "prepare", "run"})
    /\ UNCHANGED <<file, slot, config, closing, tasks, commands, restarts, overlapped, doubt>>

SetSlot(c) ==
    /\ At(c, "slot")
    /\ slot' = calls[c].client
    /\ GoTo(c, "config")
    /\ Disturbs(c, {"config", "prepare", "run", "entitle"})
    /\ UNCHANGED <<file, agent, config, closing, tasks, commands, restarts, overlapped, doubt>>

SetConfig(c) ==
    /\ At(c, "config")
    /\ config' = [config EXCEPT !.client = calls[c].client]
    /\ GoTo(c, IF calls[c].kind = "start" THEN "prepare" ELSE "title")
    /\ UNCHANGED <<file, agent, slot, closing, tasks, commands, restarts, history>>

(* AppKernel::start_agent_task: the client that compacts is taken before   *)
(* the context is assembled, that of the runner afterwards, that of the    *)
(* title behind the start.                                                 *)
Prepare(c) ==
    /\ At(c, "prepare")
    /\ Step(c, Learns(calls[c], "run", "compacts", slot))
    /\ UNCHANGED <<file, copies, tasks, commands, restarts, history>>

Run(c) ==
    /\ At(c, "run")
    /\ Step(c, Learns(calls[c], "entitle", "runs", agent))
    /\ UNCHANGED <<file, copies, tasks, commands, restarts, history>>

(* The session or the file cannot be read, the provider is unknown, the    *)
(* client cannot be built, a step of the kernel fails: what has been       *)
(* written stays.                                                          *)
StartFails(c) ==
    /\ \/ At(c, "load")
       \/ At(c, "agent") /\ calls[c].kind = "start"
       \/ calls[c].step \in {"prepare", "run"}
    /\ Over(c)
    /\ UNCHANGED <<file, copies, tasks, commands, restarts, doubt>>

(* spawn_session_title_generation                                          *)
Entitle(c) ==
    /\ At(c, "entitle")
    /\ tasks' = tasks \cup {[provider |-> calls[c].provider, since |-> calls[c].since,
                             runs |-> calls[c].runs, compacts |-> calls[c].compacts,
                             entitles |-> slot, disturbed |-> c \in disturbed]}
    /\ Over(c)
    /\ UNCHANGED <<file, copies, commands, restarts, doubt>>

-----------------------------------------------------------------------------
(* save_app_settings.  The window edits the settings it has loaded: once   *)
(* the close behaviour has been chosen it stays chosen.                    *)

Drafts == {settings \in {AppSettings(commands + 1, ps, configured, tray) :
                            ps \in SUBSET Custom, configured \in BOOLEAN, tray \in BOOLEAN} :
           LoadAppSettings.configured => settings.configured}

BeginSave(c, settings) ==
    /\ At(c, "none") /\ commands < MaxCommands
    /\ commands' = commands + 1
    /\ Step(c, [kind |-> "save", step |-> "truncate", settings |-> settings])
    /\ UNCHANGED <<file, copies, tasks, restarts, history>>

Truncate(c) ==
    /\ At(c, "truncate")
    /\ file' = Empty
    /\ GoTo(c, "write")
    /\ Enters(c) /\ Disturbs(c, {"load"})
    /\ UNCHANGED <<copies, tasks, commands, restarts>>

Write(c) ==
    /\ At(c, "write")
    /\ file' = Whole(calls[c].settings)
    /\ GoTo(c, "tray")
    /\ Disturbs(c, {"load"})
    /\ UNCHANGED <<copies, tasks, commands, restarts, overlapped, doubt>>

(* update_close_behavior_cache                                             *)
UpdateTray(c) ==
    /\ At(c, "tray")
    /\ closing' = [configured |-> TRUE, tray |-> calls[c].settings.tray]
    /\ GoTo(c, "copy")
    /\ UNCHANGED <<file, agent, slot, config, tasks, commands, restarts, history>>

CopyForSave(c) == LET n == calls[c].settings.save IN
    /\ At(c, "copy") /\ calls[c].kind = "save"
    /\ Step(c, Learns(calls[c], "agent", "client", Client(Connection(Default, n), n)))
    /\ UNCHANGED <<file, copies, tasks, commands, restarts, history>>

(* update_title_model                                                      *)
SetTitle(c) ==
    /\ At(c, "title")
    /\ config' = [config EXCEPT !.title = calls[c].settings.save]
    /\ Over(c)
    /\ doubt' = IF c \in overlapped THEN doubt ELSE "none"
    /\ UNCHANGED <<file, agent, slot, closing, tasks, commands, restarts>>

(* The settings are refused or the file cannot be opened, and nothing has  *)
(* been changed; or the write fails, and the file stays truncated; or the  *)
(* client cannot be built, when the file and the tray have the new ones.   *)
SaveFails(c) ==
    /\ \/ At(c, "truncate") /\ UNCHANGED doubt
       \/ At(c, "write") /\ Fails
       \/ At(c, "agent") /\ calls[c].kind = "save" /\ Fails
    /\ Over(c)
    /\ UNCHANGED <<file, copies, tasks, commands, restarts>>

Progress(c) ==
    \/ LoadForStart(c) \/ CopyForStart(c) \/ SetAgent(c) \/ SetSlot(c) \/ SetConfig(c)
    \/ Prepare(c) \/ Run(c) \/ StartFails(c) \/ Entitle(c)
    \/ Truncate(c) \/ Write(c) \/ UpdateTray(c) \/ CopyForSave(c) \/ SetTitle(c) \/ SaveFails(c)

Next ==
    \/ Restart
    \/ \E c \in Calls :
          \/ Progress(c)
          \/ \E p \in Providers : BeginStart(c, p)
          \/ \E settings \in Drafts : BeginSave(c, settings)

Spec == Init /\ [][Next]_vars

-----------------------------------------------------------------------------
(* Properties.                                                             *)

Saves == 0..MaxCommands
Clients == [connection : [provider : Providers, save : Saves], window : Saves]

TypeOK ==
    /\ {agent, slot, config.client} \subseteq Clients
    /\ config.title \in Saves
    /\ closing \in [configured : BOOLEAN, tray : BOOLEAN]

(* A task runs, compacts and is named with the provider its session was    *)
(* set to when it was started, and with the address and the key the file   *)
(* then had, unless another command came in between: wrote the file before *)
(* the start had read it, or replaced a client between the start's own     *)
(* write of it and its use (start_agent_task, update_deepseek_config).     *)
OwnProvider == \A t \in tasks : ~t.disturbed =>
    \A client \in {t.runs, t.compacts, t.entitles} :
        client.connection = Connection(t.provider, t.since)

(* Whenever no command is updating the copies, and none did while another  *)
(* one did since the last save that ran alone, the two clients and the     *)
(* configuration are one and of one save, however many tasks with other    *)
(* providers have been started and whatever failed; and the save is that   *)
(* of the file, unless a save has failed behind the truncation             *)
(* (update_deepseek_config, save_app_settings).                            *)
SavedIsInForce == Updating = {} /\ doubt # "all" =>
    /\ agent = slot /\ config.client = slot /\ agent.window = config.title
    /\ doubt = "none" =>
          /\ config.title = LoadAppSettings.save
          /\ closing.tray = LoadAppSettings.tray

Quiet == \A c \in Calls : At(c, "none")

(* A task always has the provider of its session.  The code does not keep  *)
(* it: another start replaces the process-wide client in between           *)
(* (commands.rs:70).                                                       *)
ProviderOfSession == \A t \in tasks :
    \A client \in {t.runs, t.compacts, t.entitles} : client.connection.provider = t.provider

(* A start leaves the context window as it is, as that is nothing of a     *)
(* session's.  The code does not keep it: it writes back a copy of the     *)
(* configuration that may be older than the last save (commands.rs:67).    *)
StartKeepsWindow == [][\A c \in Calls :
    At(c, "agent") /\ At(c, "slot")' /\ calls[c].kind = "start" =>
        agent'.window = agent.window]_vars

(* When no command is under way, and none has failed behind the truncation, *)
(* the tray asks for the close behaviour exactly if it has not been chosen *)
(* (update_close_behavior_cache).  The code does not keep it: every save   *)
(* counts as a choice (tray.rs:47).                                        *)
TrayAsks == Quiet /\ doubt = "none" => closing.configured = LoadAppSettings.configured

(* The settings in force come back when the process is started again,      *)
(* whenever it died (config.rs, save_app_settings).  The code does not     *)
(* keep it: the file is truncated before it is written, which may not be   *)
(* done or may fail (config.rs:133).                                       *)
SettingsPersist == [][Quiet' => (LoadAppSettings.save)' >= config.title]_vars
=============================================================================
