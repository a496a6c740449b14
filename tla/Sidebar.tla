------------------------------- MODULE Sidebar -------------------------------
(***************************************************************************)
(* The workspaces and sessions: the two tables (storage: workspace_store,  *)
(* session_store), the kernel's operations on them (app-kernel: kernel.rs, *)
(* session_service.rs), the titles it generates in the background          *)
(* (title.rs), and the window's sidebar (App.jsx), which is loaded once    *)
(* and then follows the answers of its own calls and the title events.     *)
(*                                                                         *)
(* A workspace is its path.  A title is the generation it comes from.      *)
(***************************************************************************)
EXTENDS Naturals, FiniteSets, FiniteSetsExt, Functions

CONSTANTS
    Workspaces, Sessions,
    None,            \* no workspace, no title
    Calls,           \* the window's calls that may be on their way at a time
    Titles,          \* generations of titles
    MaxCalls,        \* bound on the calls
    Kinds,           \* the calls the user makes
    Patient          \* does the user wait for a call's answer?

ASSUME SidebarAssumption ==
    /\ None \notin Workspaces \cup Titles
    /\ MaxCalls \in Nat /\ Patient \in BOOLEAN
    /\ Kinds \subseteq {"open", "hide", "create", "delete", "clear", "model"}

VARIABLES
    visibility,   \* the table workspaces: "absent", "hidden" or "visible"
    owner,        \* the table sessions: the workspace of each, None if there is no row
    name,         \* the name of each session's row, None if empty
    unused,       \* identifiers no session has had
    titling,      \* title_sessions
    titles,       \* the generations of titles
    told,         \* SessionTitleChanged events on their way
    list,         \* the sidebar: workspaces, their sessions, their titles
    calls, made

kernel == <<visibility, owner, name, unused>>
generation == <<titling, titles>>
vars == <<kernel, generation, told, list, calls, made>>

Existing == {s \in Sessions : owner[s] # None}
Under(w) == {s \in Sessions : owner[s] = w}

(* list_workspace_sessions, mapped for the sidebar.                        *)
Row(w) == [s \in Under(w) |-> name[s]]

(* list_visible_workspaces                                                 *)
Visible == {w \in Workspaces : visibility[w] = "visible"}
VisibleWorkspaces == [w \in Visible |-> Row(w)]

NoCall == [step |-> "none"]

Init ==
    /\ visibility \in [Workspaces -> {"absent", "hidden", "visible"}]
    /\ owner \in [Sessions -> Workspaces \cup {None}]
    /\ \A s \in Sessions : owner[s] # None => visibility[owner[s]] # "absent"
    /\ unused = {s \in Sessions : owner[s] = None}
    /\ name = [s \in Sessions |-> None]
    /\ titling = {} /\ titles = [t \in Titles |-> NoCall]
    /\ told = {}
    /\ list = VisibleWorkspaces
    /\ calls = [c \in Calls |-> NoCall] /\ made = 0

-----------------------------------------------------------------------------
(* The user clicks: the call is on its way, with the list the handler was  *)
(* rendered with.                                                          *)

At(c, kind, step) == calls[c].step = step /\ calls[c].kind = kind
GoTo(c, step) == calls' = [calls EXCEPT ![c].step = step]
Over(c) == calls' = [calls EXCEPT ![c] = NoCall]

Quiet == \A c \in Calls : calls[c] = NoCall

Click(c, kind, w, s) ==
    /\ kind \in Kinds /\ calls[c] = NoCall /\ made < MaxCalls /\ (Patient => Quiet)
    /\ made' = made + 1
    /\ calls' = [calls EXCEPT ![c] = [kind |-> kind, step |-> "asked", workspace |-> w,
                                      session |-> s, rendered |-> list]]
    /\ UNCHANGED <<kernel, generation, told, list>>

Clicks(c) ==
    \/ \E w \in Workspaces : Click(c, "open", w, None)
    \/ \E w \in DOMAIN list :
          \/ \E kind \in {"hide", "create", "clear"} : Click(c, kind, w, None)
          \/ \E s \in DOMAIN list[w], kind \in {"delete", "model"} : Click(c, kind, w, s)

(* A command that fails leaves the sidebar as it is.                       *)
Fails(c, step) ==
    /\ calls[c].step = step
    /\ Over(c)
    /\ UNCHANGED <<kernel, generation, told, list, made>>

-----------------------------------------------------------------------------
(* The kernel.                                                             *)

(* open_workspace: look the path up, reveal it and look it up again, or    *)
(* insert it; then read its sessions.                                      *)
FindWorkspace(c) ==
    /\ At(c, "open", "asked")
    /\ GoTo(c, CASE visibility[calls[c].workspace] = "absent" -> "insert"
                 [] visibility[calls[c].workspace] = "hidden" -> "reveal"
                 [] visibility[calls[c].workspace] = "visible" -> "again")
    /\ UNCHANGED <<kernel, generation, told, list, made>>

(* The path is UNIQUE: a second insert fails.                              *)
InsertWorkspace(c) == LET w == calls[c].workspace IN
    /\ At(c, "open", "insert")
    /\ IF visibility[w] = "absent"
       THEN visibility' = [visibility EXCEPT ![w] = "visible"] /\ GoTo(c, "sessions")
       ELSE UNCHANGED visibility /\ GoTo(c, "refused")
    /\ UNCHANGED <<owner, name, unused, generation, told, list, made>>

\* Mutant: a hidden workspace is opened and stays hidden.
RevealWorkspaceNot(c) ==
    /\ At(c, "open", "reveal")
    /\ GoTo(c, "again")
    /\ UNCHANGED <<kernel, generation, told, list, made>>

RevealWorkspace(c) ==
    /\ At(c, "open", "reveal")
    /\ visibility' = [visibility EXCEPT ![calls[c].workspace] = "visible"]
    /\ GoTo(c, "again")
    /\ UNCHANGED <<owner, name, unused, generation, told, list, made>>

FindAgain(c) ==
    /\ At(c, "open", "again")
    /\ GoTo(c, "sessions")
    /\ UNCHANGED <<kernel, generation, told, list, made>>

ListSessions(c) ==
    /\ At(c, "open", "sessions")
    /\ calls' = [calls EXCEPT ![c].step = "answered", ![c].rendered = Row(calls[c].workspace)]
    /\ UNCHANGED <<kernel, generation, told, list, made>>

HideWorkspace(c) ==
    /\ At(c, "hide", "asked")
    /\ visibility' = [visibility EXCEPT ![calls[c].workspace] = "hidden"]
    /\ GoTo(c, "answered")
    /\ UNCHANGED <<owner, name, unused, generation, told, list, made>>

CreateSession(c, s) ==
    /\ At(c, "create", "asked") /\ s \in unused
    /\ unused' = unused \ {s}
    /\ owner' = [owner EXCEPT ![s] = calls[c].workspace]
    /\ calls' = [calls EXCEPT ![c].step = "answered", ![c].session = s]
    /\ UNCHANGED <<visibility, name, generation, told, list, made>>

(* A session that is gone already refuses.                                 *)
DeleteSession(c) == LET s == calls[c].session IN
    /\ At(c, "delete", "asked")
    /\ IF s \in Existing
       THEN owner' = [owner EXCEPT ![s] = None] /\ GoTo(c, "answered")
       ELSE UNCHANGED owner /\ GoTo(c, "refused")
    /\ UNCHANGED <<visibility, name, unused, generation, told, list, made>>

DeleteWorkspaceSessions(c) ==
    /\ At(c, "clear", "asked")
    /\ owner' = [s \in Sessions |-> IF owner[s] = calls[c].workspace THEN None ELSE owner[s]]
    /\ GoTo(c, "answered")
    /\ UNCHANGED <<visibility, name, unused, generation, told, list, made>>

(* update_session_model returns the row, its name included.                *)
UpdateSessionModel(c) == LET s == calls[c].session IN
    /\ At(c, "model", "asked")
    /\ IF s \in Existing
       THEN calls' = [calls EXCEPT ![c].step = "answered", ![c].rendered = name[s]]
       ELSE GoTo(c, "refused")
    /\ UNCHANGED <<kernel, generation, told, list, made>>

-----------------------------------------------------------------------------
(* generate_session_title, behind the start of a task.  The guard admits   *)
(* one generation per session; the name is read before the model is asked  *)
(* and again before it is written.                                         *)

Generates(t, step) == titles[t].step = step
TitleGoTo(t, step) == titles' = [titles EXCEPT ![t].step = step]

\* Mutant: no guard.
StartTitleTaskAnyway(t, s) ==
    /\ Generates(t, "none") /\ s \in Existing
    /\ titling' = titling \cup {s}
    /\ titles' = [titles EXCEPT ![t] = [session |-> s, step |-> "first"]]
    /\ UNCHANGED <<kernel, told, list, calls, made>>

StartTitleTask(t, s) ==
    /\ Generates(t, "none") /\ s \in Existing /\ s \notin titling
    /\ titling' = titling \cup {s}
    /\ titles' = [titles EXCEPT ![t] = [session |-> s, step |-> "first"]]
    /\ UNCHANGED <<kernel, told, list, calls, made>>

IsUnnamed(s) == s \in Existing /\ name[s] = None

ReadName(t, step, next) ==
    /\ Generates(t, step)
    /\ TitleGoTo(t, IF IsUnnamed(titles[t].session) THEN next ELSE "finish")
    /\ UNCHANGED <<kernel, titling, told, list, calls, made>>

(* The model answers with a title, with an empty one, or not at all.       *)
Complete(t) ==
    /\ Generates(t, "ask")
    /\ \E step \in {"second", "finish"} : TitleGoTo(t, step)
    /\ UNCHANGED <<kernel, titling, told, list, calls, made>>

RenameSession(t) == LET s == titles[t].session IN
    /\ Generates(t, "rename")
    /\ IF s \in Existing
       THEN name' = [name EXCEPT ![s] = t] /\ TitleGoTo(t, "tell")
       ELSE UNCHANGED name /\ TitleGoTo(t, "finish")
    /\ UNCHANGED <<visibility, owner, unused, titling, told, list, calls, made>>

(* The row is read back, and its name is sent.                             *)
TellTitle(t) == LET s == titles[t].session IN
    /\ Generates(t, "tell")
    /\ told' = IF s \in Existing THEN told \cup {[session |-> s, title |-> name[s]]} ELSE told
    /\ TitleGoTo(t, "finish")
    /\ UNCHANGED <<kernel, titling, list, calls, made>>

\* Mutant: the session is not released.
FinishTitleTaskKeeps(t) ==
    /\ Generates(t, "finish")
    /\ TitleGoTo(t, "over")
    /\ UNCHANGED <<titling, kernel, told, list, calls, made>>

FinishTitleTask(t) ==
    /\ Generates(t, "finish")
    /\ titling' = titling \ {titles[t].session}
    /\ TitleGoTo(t, "over")
    /\ UNCHANGED <<kernel, told, list, calls, made>>

GenerateTitle(t) ==
    \/ ReadName(t, "first", "ask") \/ Complete(t) \/ ReadName(t, "second", "rename")
    \/ RenameSession(t) \/ TellTitle(t) \/ FinishTitleTask(t)

-----------------------------------------------------------------------------
(* The window hears.                                                       *)

Without(f, x) == Restrict(f, DOMAIN f \ {x})

SetSessions(w, row) == IF w \in DOMAIN list THEN [list EXCEPT ![w] = row] ELSE list

(* setSessionTitle, setSessionModel                                        *)
SetTitle(s, title) == [w \in DOMAIN list |->
    [r \in DOMAIN list[w] |-> IF r = s THEN title ELSE list[w][r]]]

SessionTitleChanged(event) ==
    /\ event \in told /\ told' = told \ {event}
    /\ list' = SetTitle(event.session, event.title)
    /\ UNCHANGED <<kernel, generation, calls, made>>

(* addWorkspaceFromPath                                                    *)
WorkspaceOpened(c) ==
    /\ At(c, "open", "answered")
    /\ list' = [w \in DOMAIN list \cup {calls[c].workspace} |->
                  IF w = calls[c].workspace THEN calls[c].rendered ELSE list[w]]
    /\ Over(c)
    /\ UNCHANGED <<kernel, generation, told, made>>

(* removeWorkspace: of the list it was rendered with.                      *)
WorkspaceHidden(c) ==
    /\ At(c, "hide", "answered")
    /\ list' = Without(calls[c].rendered, calls[c].workspace)
    /\ Over(c)
    /\ UNCHANGED <<kernel, generation, told, made>>

(* createSessionForWorkspace                                               *)
SessionCreated(c) == LET w == calls[c].workspace IN
    /\ At(c, "create", "answered")
    /\ list' = IF w \in DOMAIN list
               THEN SetSessions(w, [s \in DOMAIN list[w] \cup {calls[c].session} |->
                                      IF s = calls[c].session THEN None ELSE list[w][s]])
               ELSE list
    /\ Over(c)
    /\ UNCHANGED <<kernel, generation, told, made>>

(* deleteSession: the remaining sessions are those of the list it was      *)
(* rendered with.                                                          *)
RemainingSessions(rendered, w, s) == IF w \in DOMAIN rendered THEN Without(rendered[w], s) ELSE <<>>

SessionDeleted(c) ==
    /\ At(c, "delete", "answered")
    /\ list' = SetSessions(calls[c].workspace,
                  RemainingSessions(calls[c].rendered, calls[c].workspace, calls[c].session))
    /\ Over(c)
    /\ UNCHANGED <<kernel, generation, told, made>>

SessionsDeleted(c) ==
    /\ At(c, "clear", "answered")
    /\ list' = SetSessions(calls[c].workspace, <<>>)
    /\ Over(c)
    /\ UNCHANGED <<kernel, generation, told, made>>

(* setSessionModel with the whole mapped row.                              *)
ModelUpdated(c) ==
    /\ At(c, "model", "answered")
    /\ list' = SetTitle(calls[c].session, calls[c].rendered)
    /\ Over(c)
    /\ UNCHANGED <<kernel, generation, told, made>>

-----------------------------------------------------------------------------
Handle(c) ==
    \/ FindWorkspace(c) \/ InsertWorkspace(c) \/ RevealWorkspace(c) \/ FindAgain(c) \/ ListSessions(c)
    \/ HideWorkspace(c) \/ (\E s \in Sessions : CreateSession(c, s)) \/ DeleteSession(c)
    \/ DeleteWorkspaceSessions(c) \/ UpdateSessionModel(c)
    \/ Fails(c, "asked") \/ Fails(c, "refused")

Hear(c) ==
    \/ WorkspaceOpened(c) \/ WorkspaceHidden(c) \/ SessionCreated(c)
    \/ SessionDeleted(c) \/ SessionsDeleted(c) \/ ModelUpdated(c)

Next ==
    \/ \E c \in Calls : Clicks(c) \/ Handle(c) \/ Hear(c)
    \/ \E t \in Titles : GenerateTitle(t) \/ \E s \in Sessions : StartTitleTask(t, s)
    \/ \E event \in told : SessionTitleChanged(event)

Spec == Init /\ [][Next]_vars

(* The model that is asked answers or fails.                               *)
FairSpec == Spec /\ \A t \in Titles : WF_vars(GenerateTitle(t))

-----------------------------------------------------------------------------
(* Properties.                                                             *)

Names == Titles \cup {None}

TypeOK ==
    /\ visibility \in [Workspaces -> {"absent", "hidden", "visible"}]
    /\ owner \in [Sessions -> Workspaces \cup {None}] /\ name \in [Sessions -> Names]
    /\ \A s \in Existing : visibility[owner[s]] # "absent"
    /\ DOMAIN list \subseteq Workspaces
    /\ \A w \in DOMAIN list : \A s \in DOMAIN list[w] : list[w][s] \in Names
    /\ titling \subseteq Sessions

(* While no call is on its way, the sidebar lists the visible workspaces   *)
(* with all of their sessions (App.jsx: the handlers of the sidebar).      *)
ListedIsStored == Quiet =>
    /\ DOMAIN list = Visible
    /\ \A w \in Visible : DOMAIN list[w] = Under(w)

(* Behind every title event and every call, the sidebar shows the names    *)
(* that are stored (setSessionTitle, setSessionModel).  The code does not  *)
(* keep it: a row read before puts the old name back (App.jsx:1187).       *)
TitleShown == Quiet /\ told = {} /\ (\A t \in Titles : titles[t].step # "tell") =>
    \A w \in DOMAIN list : \A s \in DOMAIN list[w] \cap Existing : list[w][s] = name[s]

(* Opening a path ends with a workspace (open_workspace).  The code does   *)
(* not keep it: two calls may both insert it (kernel.rs:291).              *)
OpenSucceeds == \A c \in Calls : ~At(c, "open", "refused")

(* A session gets a name once, and keeps it (generate_session_title).      *)
NamedOnce == [][\A s \in Sessions : name[s] # None => name'[s] = name[s]]_vars

(* A session's generation of a title ends, and its next task may try again *)
(* (finish_title_task).                                                    *)
TitlingEnds == \A s \in Sessions : s \in titling ~> s \notin titling
=============================================================================
