---------------------------- MODULE SidebarProofs ----------------------------
(***************************************************************************)
(* A session is named once, and the sidebar of a user who waits for the     *)
(* answers lists what is stored, for every number of workspaces, sessions,  *)
(* generations of titles and calls.                                         *)
(***************************************************************************)
EXTENDS Sidebar, TLAPS

Going == {"first", "ask", "second", "rename", "tell", "finish"}
Generations == {NoCall} \cup [session : Sessions, step : Going \cup {"over"}]

(* The guard holds the session of a generation that goes on, and no two     *)
(* such generations have the same; the name that was read is still empty    *)
(* when it is written.                                                      *)
GuardInv ==
    /\ name \in [Sessions -> Names]
    /\ titles \in [Titles -> Generations]
    /\ \A t \in Titles : titles[t].step \in Going => titles[t].session \in titling
    /\ \A t, u \in Titles :
          titles[t].step \in Going /\ titles[u].step \in Going
            /\ titles[t].session = titles[u].session => t = u
    /\ \A t \in Titles : titles[t].step = "rename" => name[titles[t].session] = None

Elsewhere == UNCHANGED <<name, generation>>

-----------------------------------------------------------------------------
LEMMA GoingGeneration ==
    ASSUME GuardInv, NEW t \in Titles, titles[t].step \in Going
    PROVE  titles[t] \in [session : Sessions, step : Going \cup {"over"}]
BY DEF GuardInv, Generations, NoCall, Going

(* A generation goes on from one of its steps to another.                   *)
LEMMA GoOn ==
    ASSUME GuardInv, NEW t \in Titles, titles[t].step \in Going,
           NEW step \in Going, TitleGoTo(t, step), titling' = titling, name' = name,
           step = "rename" => name[titles[t].session] = None
    PROVE  GuardInv'
<1>1. titles[t] \in [session : Sessions, step : Going \cup {"over"}]
    BY GoingGeneration
<1>2. /\ titles' \in [Titles -> Generations]
      /\ titles'[t].session = titles[t].session /\ titles'[t].step = step
      /\ \A u \in Titles \ {t} : titles'[u] = titles[u]
    BY <1>1 DEF TitleGoTo, GuardInv, Generations
<1>3. \A u \in Titles : titles'[u].step \in Going =>
          titles[u].step \in Going /\ titles'[u].session = titles[u].session
    BY <1>2
<1> QED
    BY <1>2, <1>3 DEF GuardInv

LEMMA StartStep ==
    ASSUME GuardInv, NEW t \in Titles, NEW s \in Sessions, StartTitleTask(t, s)
    PROVE  GuardInv'
<1>1. /\ titles' = [titles EXCEPT ![t] = [session |-> s, step |-> "first"]]
      /\ titling' = titling \cup {s} /\ name' = name /\ s \notin titling
    BY DEF StartTitleTask, kernel
<1>2. /\ titles' \in [Titles -> Generations]
      /\ titles'[t].session = s /\ titles'[t].step = "first"
      /\ \A u \in Titles \ {t} : titles'[u] = titles[u]
    BY <1>1 DEF GuardInv, Generations, Going
<1>3. \A u \in Titles \ {t} : titles[u].step \in Going => titles[u].session # s
    BY <1>1 DEF GuardInv
<1> QED
    BY <1>1, <1>2, <1>3 DEF GuardInv

LEMMA FinishStep ==
    ASSUME GuardInv, NEW t \in Titles, FinishTitleTask(t)
    PROVE  GuardInv'
<1>1. /\ titles[t].step = "finish" /\ TitleGoTo(t, "over")
      /\ titling' = titling \ {titles[t].session} /\ name' = name
    BY DEF FinishTitleTask, Generates, kernel
<1>2. titles[t].step \in Going
    BY <1>1 DEF Going
<1>3. titles[t] \in [session : Sessions, step : Going \cup {"over"}]
    BY <1>2, GoingGeneration
<1>4. /\ titles' \in [Titles -> Generations]
      /\ titles'[t].step = "over"
      /\ \A u \in Titles \ {t} : titles'[u] = titles[u]
    BY <1>1, <1>3 DEF TitleGoTo, GuardInv, Generations
<1>5. \A u \in Titles : titles'[u].step \in Going =>
          /\ u # t /\ titles[u].step \in Going
          /\ titles'[u].session # titles[t].session
    BY <1>2, <1>4 DEF Going, GuardInv
<1> QED
    BY <1>1, <1>4, <1>5 DEF GuardInv, Going

LEMMA RenameStep ==
    ASSUME GuardInv, NEW t \in Titles, RenameSession(t)
    PROVE  GuardInv' /\ \A s \in Sessions : name[s] # None => name'[s] = name[s]
<1> DEFINE s == titles[t].session
<1>1. titles[t].step = "rename" /\ titles[t].step \in Going /\ titling' = titling
    BY DEF RenameSession, Generates, Going
<1>2. s \in Sessions /\ name[s] = None
    BY <1>1, GoingGeneration DEF GuardInv
<1>3. CASE s \notin Existing
    BY <1>1, <1>3, GoOn DEF RenameSession, Going
<1>4. CASE s \in Existing
    <2>1. name' = [name EXCEPT ![s] = t] /\ TitleGoTo(t, "tell")
        BY <1>4 DEF RenameSession
    <2>2. name' \in [Sessions -> Names] /\ \A r \in Sessions \ {s} : name'[r] = name[r]
        BY <2>1, <1>2 DEF GuardInv, Names
    <2>3. /\ titles' \in [Titles -> Generations]
          /\ titles'[t].session = s /\ titles'[t].step = "tell"
          /\ \A u \in Titles \ {t} : titles'[u] = titles[u]
        BY <2>1, <1>1, GoingGeneration DEF TitleGoTo, GuardInv, Generations, Going
    <2>4. \A u \in Titles : titles'[u].step \in Going =>
              titles[u].step \in Going /\ titles'[u].session = titles[u].session
        BY <2>3, <1>1
    <2>5. \A u \in Titles : titles'[u].step = "rename" =>
              /\ u # t /\ titles[u].step = "rename" /\ titles[u].step \in Going
              /\ titles'[u].session = titles[u].session /\ titles[u].session # s
        BY <2>3, <1>1 DEF GuardInv, Going
    <2>6. \A u \in Titles : titles'[u].step = "rename" => titles'[u].session \in Sessions
        BY <2>5, GoingGeneration
    <2>7. \A u \in Titles : titles'[u].step = "rename" => name'[titles'[u].session] = None
        BY <2>2, <2>5, <2>6 DEF GuardInv
    <2> QED
        BY <1>1, <1>2, <2>2, <2>3, <2>4, <2>7 DEF GuardInv
<1> QED
    BY <1>3, <1>4

LEMMA GenerateStep ==
    ASSUME GuardInv, NEW t \in Titles, GenerateTitle(t)
    PROVE  GuardInv' /\ \A s \in Sessions : name[s] # None => name'[s] = name[s]
<1>1. CASE \/ ReadName(t, "first", "ask") \/ ReadName(t, "second", "rename")
    BY <1>1, GoOn DEF ReadName, Generates, IsUnnamed, Going, kernel
<1>2. CASE Complete(t)
    BY <1>2, GoOn DEF Complete, Generates, Going, kernel
<1>3. CASE TellTitle(t)
    BY <1>3, GoOn DEF TellTitle, Generates, Going, kernel
<1>4. CASE FinishTitleTask(t)
    BY <1>4, FinishStep DEF FinishTitleTask, kernel
<1>5. CASE RenameSession(t)
    BY <1>5, RenameStep
<1> QED
    BY <1>1, <1>2, <1>3, <1>4, <1>5 DEF GenerateTitle

(* No call of the window writes a name or starts a generation.              *)
LEMMA ElsewhereStep ==
    ASSUME \/ \E c \in Calls : Clicks(c) \/ Handle(c) \/ Hear(c)
           \/ \E event \in told : SessionTitleChanged(event)
    PROVE  Elsewhere
<1>1. ASSUME NEW c \in Calls, Clicks(c) PROVE Elsewhere
    BY <1>1 DEF Clicks, Click, Elsewhere, kernel
<1>2. ASSUME NEW c \in Calls, Handle(c) PROVE Elsewhere
    BY <1>2 DEF Handle, FindWorkspace, InsertWorkspace, RevealWorkspace, FindAgain, ListSessions,
        HideWorkspace, CreateSession, DeleteSession, DeleteWorkspaceSessions, UpdateSessionModel,
        Fails, Elsewhere, kernel
<1>3. ASSUME NEW c \in Calls, Hear(c) PROVE Elsewhere
    BY <1>3 DEF Hear, WorkspaceOpened, WorkspaceHidden, SessionCreated, SessionDeleted,
        SessionsDeleted, ModelUpdated, Elsewhere, kernel
<1>4. ASSUME NEW event \in told, SessionTitleChanged(event) PROVE Elsewhere
    BY <1>4 DEF SessionTitleChanged, Elsewhere, kernel
<1> QED
    BY <1>1, <1>2, <1>3, <1>4

LEMMA GuardStep ==
    ASSUME GuardInv, [Next]_vars
    PROVE  GuardInv' /\ \A s \in Sessions : name[s] # None => name'[s] = name[s]
<1>1. CASE Elsewhere
    BY <1>1 DEF Elsewhere, generation, GuardInv
<1>2. ASSUME NEW t \in Titles, GenerateTitle(t) \/ \E s \in Sessions : StartTitleTask(t, s)
      PROVE  GuardInv' /\ \A s \in Sessions : name[s] # None => name'[s] = name[s]
    BY <1>2, GenerateStep, StartStep DEF StartTitleTask, kernel
<1>3. CASE UNCHANGED vars
    BY <1>1, <1>3 DEF vars, kernel, Elsewhere
<1> QED
    BY <1>1, <1>2, <1>3, ElsewhereStep DEF Next

LEMMA GuardInvariant == Spec => []GuardInv
<1>1. Init => GuardInv
    BY DEF Init, GuardInv, Generations, NoCall, Going, Names
<1> QED
    BY <1>1, GuardStep, PTL DEF Spec

\* A session gets a name once, and keeps it: no two generations of it are on
\* their way, so that the name a generation read twice is still empty when it
\* is written (generate_session_title, start_title_task).
THEOREM NamedOnceTheorem == Spec => NamedOnce
<1>1. GuardInv /\ [Next]_vars => [\A s \in Sessions : name[s] # None => name'[s] = name[s]]_vars
    BY GuardStep
<1> QED
    BY <1>1, GuardInvariant, PTL DEF Spec, NamedOnce

-----------------------------------------------------------------------------
(* What is listed.                                                         *)

(* A list of the visible workspaces with all of their sessions.             *)
Matches(l) == DOMAIN l = Visible /\ \A v \in Visible : DOMAIN l[v] = Under(v)

(* Such a list, but for one workspace.                                      *)
MatchesBut(w) ==
    /\ DOMAIN list \cup {w} = Visible
    /\ \A v \in Visible \ {w} : DOMAIN list[v] = Under(v)

(* A call on its way.                                                       *)
UnderWay(x) == LET w == x.workspace IN
    /\ DOMAIN x = {"kind", "step", "workspace", "session", "rendered"}
    /\ w \in Workspaces
    /\ x.kind \in {"open", "hide", "create", "delete", "clear", "model"}
    /\ x.step \in {"asked", "insert", "reveal", "again", "sessions", "answered", "refused"}
    /\ x.kind \in {"create", "delete", "clear"} => w \in DOMAIN list
    /\ x.step = "asked" => Matches(x.rendered)
    /\ x.step = "asked" /\ x.kind = "delete" => x.session \in Under(w)

(* The list lacks what the kernel has written, and no more, and the answer  *)
(* holds it.                                                                *)
Told(x) == LET w == x.workspace IN
    /\ x.step \in {"asked", "insert", "reveal", "refused"} \/ x.kind = "model" => Matches(list)
    /\ x.step \in {"again", "sessions", "answered"} /\ x.kind \notin {"hide", "model"} =>
          MatchesBut(w)
    /\ x.step = "answered" =>
          /\ x.kind = "open" => DOMAIN x.rendered = Under(w)
          /\ x.kind = "hide" =>
                /\ DOMAIN x.rendered \ {w} = Visible
                /\ \A v \in Visible : DOMAIN x.rendered[v] = Under(v)
          /\ x.kind = "create" => DOMAIN list[w] \cup {x.session} = Under(w)
          /\ x.kind = "delete" =>
                /\ w \in DOMAIN x.rendered
                /\ DOMAIN x.rendered[w] \ {x.session} = Under(w)
          /\ x.kind = "clear" => Under(w) = {}

SideInv ==
    /\ visibility \in [Workspaces -> {"absent", "hidden", "visible"}]
    /\ owner \in [Sessions -> Workspaces \cup {None}]
    /\ unused \subseteq Sessions /\ \A s \in unused : owner[s] = None
    /\ DOMAIN calls = Calls
    /\ \A c, d \in Calls : calls[c] # NoCall /\ calls[d] # NoCall => c = d
    /\ \A c \in Calls : calls[c] # NoCall => UnderWay(calls[c]) /\ Told(calls[c])
    /\ Quiet => Matches(list)

(* The names of the list are nothing to it.                                 *)
Renamed ==
    /\ UNCHANGED <<visibility, owner, unused>> /\ DOMAIN list' = DOMAIN list
    /\ \A w \in DOMAIN list : DOMAIN list'[w] = DOMAIN list[w]

LEMMA RenamedMatches ==
    ASSUME Renamed, Matches(list)
    PROVE  Matches(list)'
BY DEF Renamed, Matches, Visible, Under

LEMMA RenamedCall ==
    ASSUME Renamed, NEW x, UnderWay(x), Told(x)
    PROVE  \A y : y = x => UnderWay(y)' /\ Told(y)'
<1>1. Visible' = Visible /\ \A w : Under(w)' = Under(w)
    BY DEF Renamed, Visible, Under
<1> QED
    BY <1>1, RenamedMatches DEF Renamed, UnderWay, Told, Matches, MatchesBut

LEMMA RenamedStep ==
    ASSUME SideInv, Renamed, calls' = calls
    PROVE  SideInv'
<1>1. Quiet' => Matches(list)'
    BY RenamedMatches DEF SideInv, Quiet
<1>2. ASSUME NEW c \in Calls, calls[c] # NoCall
      PROVE  UnderWay(calls[c])' /\ Told(calls[c])'
    <2>1. UnderWay(calls[c]) /\ Told(calls[c])
        BY <1>2 DEF SideInv
    <2> QED
        BY <2>1, RenamedCall DEF UnderWay, Told
<1> QED
    BY <1>1, <1>2 DEF SideInv, Renamed

-----------------------------------------------------------------------------
(* One call, and what becomes of it.                                        *)
Only(c) == \A d \in Calls \ {c} : calls[d] = NoCall
Tables ==
    /\ visibility \in [Workspaces -> {"absent", "hidden", "visible"}]
    /\ owner \in [Sessions -> Workspaces \cup {None}]
    /\ unused \subseteq Sessions /\ \A s \in unused : owner[s] = None

LEMMA GoesOn ==
    ASSUME SideInv, NEW c \in Calls, Only(c), Tables', NEW y, y # NoCall,
           calls' = [calls EXCEPT ![c] = y], UnderWay(y)', Told(y)'
    PROVE  SideInv'
<1>1. /\ DOMAIN calls' = Calls /\ calls'[c] = y
      /\ \A d \in Calls \ {c} : calls'[d] = NoCall
    BY DEF SideInv, Only
<1>2. ~Quiet'
    BY <1>1 DEF Quiet
<1>3. \A d \in Calls : calls'[d] # NoCall => UnderWay(calls[d])' /\ Told(calls[d])'
    <2> SUFFICES ASSUME NEW d \in Calls, calls'[d] # NoCall
                 PROVE  UnderWay(calls[d])' /\ Told(calls[d])'
        OBVIOUS
    <2>1. calls'[d] = y
        BY <1>1
    <2> QED
        BY <2>1 DEF UnderWay, Told
<1> QED
    BY <1>1, <1>2, <1>3 DEF SideInv, Tables

LEMMA IsOver ==
    ASSUME SideInv, NEW c \in Calls, Only(c), Tables',
           calls' = [calls EXCEPT ![c] = NoCall], Matches(list)'
    PROVE  SideInv'
<1>1. DOMAIN calls' = Calls /\ \A d \in Calls : calls'[d] = NoCall
    BY DEF SideInv, Only
<1> QED
    BY <1>1 DEF SideInv, Tables

LEMMA OnlyOne ==
    ASSUME SideInv, NEW c \in Calls, calls[c] # NoCall
    PROVE  Only(c) /\ UnderWay(calls[c]) /\ Told(calls[c])
BY DEF SideInv, Only

LEMMA ClickStep ==
    ASSUME SideInv, Patient, NEW c \in Calls, Clicks(c)
    PROVE  SideInv'
<1>1. PICK kind \in Kinds, w \in Workspaces, s \in Sessions \cup {None} :
          /\ Click(c, kind, w, s)
          /\ kind \in {"create", "delete", "clear"} => w \in DOMAIN list
          /\ kind = "delete" => s \in DOMAIN list[w]
    <2>1. Quiet
        BY DEF Clicks, Click
    <2>2. /\ DOMAIN list \subseteq Workspaces
          /\ \A w \in DOMAIN list : DOMAIN list[w] \subseteq Sessions
        BY <2>1 DEF SideInv, Matches, Visible, Under
    <2> QED
        BY <2>2 DEF Clicks, Click
<1>2. /\ Quiet /\ Matches(list) /\ Only(c)
      /\ UNCHANGED <<visibility, owner, unused, list>>
    BY <1>1 DEF Click, SideInv, Only, Quiet, kernel
<1>3. PICK l : l = list
    OBVIOUS
<1> DEFINE y == [kind |-> kind, step |-> "asked", workspace |-> w, session |-> s, rendered |-> l]
<1>4. calls' = [calls EXCEPT ![c] = y] /\ y # NoCall
    BY <1>1, <1>3 DEF Click, NoCall
<1>5. Tables' /\ Matches(list)' /\ Matches(l)'
    BY <1>2, <1>3 DEF Tables, SideInv, Matches, Visible, Under
<1>6. y.kind \in {"open", "hide", "create", "delete", "clear", "model"}
    BY SidebarAssumption
<1>7. s \in Under(w)' \/ kind # "delete"
    BY <1>1, <1>2 DEF Matches, Under
<1>8. UnderWay(y)' /\ Told(y)'
    BY <1>1, <1>2, <1>5, <1>6, <1>7 DEF UnderWay, Told
<1> HIDE DEF y
<1> QED
    BY <1>2, <1>4, <1>5, <1>8, GoesOn

(* A step of the call that writes no table and no list.                     *)
LEMMA OnlyStep ==
    ASSUME SideInv, NEW c \in Calls, calls[c] # NoCall, NEW y, y # NoCall,
           calls' = [calls EXCEPT ![c] = y],
           UNCHANGED <<visibility, owner, unused, list>>, UnderWay(y), Told(y)
    PROVE  SideInv'
<1>1. Tables'
    BY DEF SideInv, Tables
<1>2. Renamed
    BY DEF Renamed
<1>3. UnderWay(y)' /\ Told(y)'
    BY <1>2, RenamedCall
<1> QED
    BY <1>1, <1>3, OnlyOne, GoesOn

LEMMA OpenStep ==
    ASSUME SideInv, NEW c \in Calls,
           \/ FindWorkspace(c) \/ InsertWorkspace(c) \/ RevealWorkspace(c)
           \/ FindAgain(c) \/ ListSessions(c)
    PROVE  SideInv'
<1>1. PICK x : x = calls[c]
    OBVIOUS
<1>2. calls[c] # NoCall /\ x.kind = "open" /\ x.step # "answered"
    BY <1>1 DEF FindWorkspace, InsertWorkspace, RevealWorkspace, FindAgain, ListSessions, At, NoCall
<1>3. UnderWay(x) /\ Told(x) /\ Only(c)
    BY <1>1, <1>2, OnlyOne
<1> DEFINE w == x.workspace
           Y(step) == [x EXCEPT !.step = step]
<1>4. \A step : /\ Y(step).kind = "open" /\ Y(step).workspace = w /\ Y(step).step = step
                /\ Y(step).session = x.session /\ Y(step).rendered = x.rendered
                /\ DOMAIN Y(step) = DOMAIN x
    BY <1>2, <1>3 DEF UnderWay
<1>5. \A step \in {"insert", "reveal", "again", "sessions", "refused"} :
          Y(step) # NoCall /\ UnderWay(Y(step))
    BY <1>3, <1>4 DEF UnderWay, NoCall
<1>6. CASE FindWorkspace(c)
    <2>1. PICK step \in {"insert", "reveal", "again"} :
              /\ calls' = [calls EXCEPT ![c] = Y(step)]
              /\ step = "again" => visibility[w] = "visible"
        BY <1>1, <1>3, <1>6 DEF FindWorkspace, GoTo, SideInv, UnderWay
    <2>2. Matches(list) /\ UNCHANGED <<visibility, owner, unused, list>>
        BY <1>1, <1>3, <1>6 DEF Told, FindWorkspace, At, kernel
    <2>3. step = "again" => MatchesBut(w)
        BY <1>3, <2>1, <2>2 DEF Matches, MatchesBut, Visible, UnderWay
    <2>4. Told(Y(step))
        BY <1>4, <2>1, <2>2, <2>3 DEF Told
    <2> HIDE DEF Y
    <2> QED
        BY <1>2, <1>5, <2>1, <2>2, <2>4, OnlyStep
<1>7. CASE InsertWorkspace(c) /\ visibility[w] # "absent"
    <2>1. calls' = [calls EXCEPT ![c] = Y("refused")]
        BY <1>1, <1>7 DEF InsertWorkspace, GoTo
    <2>2. Matches(list) /\ UNCHANGED <<visibility, owner, unused, list>>
        BY <1>1, <1>3, <1>7 DEF Told, InsertWorkspace, At
    <2>3. Told(Y("refused"))
        BY <1>4, <2>2 DEF Told
    <2> HIDE DEF Y
    <2> QED
        BY <1>2, <1>5, <2>1, <2>2, <2>3, OnlyStep
<1>8. CASE RevealWorkspace(c) \/ (InsertWorkspace(c) /\ visibility[w] = "absent")
    <2>1. PICK step \in {"again", "sessions"} : calls' = [calls EXCEPT ![c] = Y(step)]
        BY <1>1, <1>8 DEF RevealWorkspace, InsertWorkspace, GoTo
    <2>2. /\ Matches(list) /\ UNCHANGED <<owner, unused, list>>
          /\ visibility' = [visibility EXCEPT ![w] = "visible"]
        BY <1>1, <1>3, <1>8 DEF Told, RevealWorkspace, InsertWorkspace, At
    <2>3. Tables'
        BY <2>2 DEF SideInv, Tables
    <2>4. Visible' = Visible \cup {w} /\ \A v : Under(v)' = Under(v)
        BY <1>3, <2>2 DEF Visible, Under, SideInv, UnderWay
    <2>5. MatchesBut(w)'
        BY <2>2, <2>4 DEF Matches, MatchesBut
    <2>6. Told(Y(step))'
        BY <1>4, <2>5 DEF Told
    <2>7. UnderWay(Y(step))'
        BY <1>4, <1>5, <2>1 DEF UnderWay
    <2> HIDE DEF Y
    <2> QED
        BY <1>3, <1>5, <2>1, <2>3, <2>6, <2>7, GoesOn
<1>9. CASE FindAgain(c)
    <2>1. /\ calls' = [calls EXCEPT ![c] = Y("sessions")] /\ x.step = "again"
          /\ UNCHANGED <<visibility, owner, unused, list>>
        BY <1>1, <1>9 DEF FindAgain, At, GoTo, kernel
    <2>2. Told(Y("sessions"))
        BY <1>2, <1>3, <1>4, <2>1 DEF Told
    <2> HIDE DEF Y
    <2> QED
        BY <1>2, <1>5, <2>1, <2>2, OnlyStep
<1>10. CASE ListSessions(c)
    <2>1. PICK row : row = Row(w)
        OBVIOUS
    <2> DEFINE y == [x EXCEPT !.step = "answered", !.rendered = row]
    <2>2. /\ calls' = [calls EXCEPT ![c] = y] /\ x.step = "sessions"
          /\ UNCHANGED <<visibility, owner, unused, list>>
        BY <1>1, <1>3, <2>1, <1>10 DEF ListSessions, At, kernel, SideInv, UnderWay
    <2>3. /\ y.kind = "open" /\ y.step = "answered" /\ y.workspace = w /\ y.rendered = row
          /\ DOMAIN y = DOMAIN x
        BY <1>2, <1>3 DEF UnderWay
    <2>4. DOMAIN row = Under(w)
        BY <2>1 DEF Row
    <2>5. y # NoCall /\ UnderWay(y)
        BY <1>3, <2>3 DEF UnderWay, NoCall
    <2>6. Told(y)
        BY <1>2, <1>3, <2>2, <2>3, <2>4 DEF Told
    <2> HIDE DEF y
    <2> QED
        BY <1>2, <2>2, <2>5, <2>6, OnlyStep
<1> QED
    BY <1>6, <1>7, <1>8, <1>9, <1>10

(* What a step of the call leaves of it.                                    *)
LEMMA GoesTo ==
    ASSUME NEW x, DOMAIN x = {"kind", "step", "workspace", "session", "rendered"}, NEW step, NEW y,
           y = [x EXCEPT !.step = step]
    PROVE  /\ y.kind = x.kind /\ y.step = step /\ y.workspace = x.workspace
           /\ y.session = x.session /\ y.rendered = x.rendered /\ DOMAIN y = DOMAIN x
OBVIOUS

LEMMA IsACall ==
    ASSUME NEW y, y.step # "none"
    PROVE  y # NoCall
BY DEF NoCall

LEMMA RefusedStep ==
    ASSUME SideInv, NEW c \in Calls, calls[c].step = "asked", GoTo(c, "refused"),
           UNCHANGED <<visibility, owner, unused, list>>
    PROVE  SideInv'
<1>1. PICK x : x = calls[c]
    OBVIOUS
<1>2. calls[c] # NoCall
    BY DEF NoCall
<1>3. UnderWay(x) /\ Told(x)
    BY <1>1, <1>2, OnlyOne
<1>4. PICK y : y = [x EXCEPT !.step = "refused"]
    OBVIOUS
<1>5. /\ y.kind = x.kind /\ y.step = "refused" /\ y.workspace = x.workspace
      /\ y.session = x.session /\ y.rendered = x.rendered /\ DOMAIN y = DOMAIN x
    BY <1>3, <1>4, GoesTo DEF UnderWay
<1>6. calls' = [calls EXCEPT ![c] = y]
    BY <1>1, <1>4 DEF GoTo
<1>7. UnderWay(y) /\ Told(y)
    BY <1>1, <1>3, <1>5 DEF UnderWay, Told
<1> QED
    BY <1>2, <1>5, <1>6, <1>7, OnlyStep, IsACall

LEMMA HideStep ==
    ASSUME SideInv, NEW c \in Calls, HideWorkspace(c)
    PROVE  SideInv'
<1>1. PICK x : x = calls[c]
    OBVIOUS
<1>2. calls[c] # NoCall /\ x.kind = "hide" /\ x.step = "asked"
    BY <1>1 DEF HideWorkspace, At, NoCall
<1>3. UnderWay(x) /\ Told(x) /\ Only(c)
    BY <1>1, <1>2, OnlyOne
<1>4. PICK y : y = [x EXCEPT !.step = "answered"]
    OBVIOUS
<1>5. /\ y.kind = "hide" /\ y.step = "answered" /\ y.workspace = x.workspace
      /\ y.rendered = x.rendered /\ DOMAIN y = DOMAIN x
    BY <1>2, <1>3, <1>4, GoesTo DEF UnderWay
<1>6. /\ calls' = [calls EXCEPT ![c] = y]
      /\ visibility' = [visibility EXCEPT ![x.workspace] = "hidden"]
      /\ UNCHANGED <<owner, unused, list>>
    BY <1>1, <1>4 DEF HideWorkspace, GoTo
<1>7. Tables' /\ Visible' = Visible \ {x.workspace} /\ \A v : Under(v)' = Under(v)
    BY <1>3, <1>6 DEF SideInv, Tables, Visible, Under, UnderWay
<1>8. UnderWay(y)'
    BY <1>3, <1>5 DEF UnderWay
<1>9. Told(y)'
    BY <1>2, <1>3, <1>5, <1>7 DEF Told, UnderWay, Matches
<1> QED
    BY <1>3, <1>5, <1>6, <1>7, <1>8, <1>9, GoesOn, IsACall

LEMMA CreateStep ==
    ASSUME SideInv, NEW c \in Calls, NEW s \in Sessions, CreateSession(c, s)
    PROVE  SideInv'
<1>1. PICK x : x = calls[c]
    OBVIOUS
<1>2. calls[c] # NoCall /\ x.kind = "create" /\ x.step = "asked"
    BY <1>1 DEF CreateSession, At, NoCall
<1>3. UnderWay(x) /\ Told(x) /\ Only(c)
    BY <1>1, <1>2, OnlyOne
<1> DEFINE w == x.workspace
<1>4. PICK y : y = [x EXCEPT !.step = "answered", !.session = s]
    OBVIOUS
<1>5. /\ y.kind = "create" /\ y.step = "answered" /\ y.workspace = w
      /\ y.session = s /\ DOMAIN y = DOMAIN x
    BY <1>2, <1>3, <1>4 DEF UnderWay
<1>6. /\ calls' = [calls EXCEPT ![c] = y]
      /\ s \in unused /\ unused' = unused \ {s} /\ owner' = [owner EXCEPT ![s] = w]
      /\ UNCHANGED <<visibility, list>>
    BY <1>1, <1>3, <1>4 DEF CreateSession, SideInv, UnderWay
<1>7. Tables' /\ owner[s] = None /\ w \in Workspaces /\ None \notin Workspaces
    BY <1>3, <1>6, SidebarAssumption DEF SideInv, Tables, UnderWay
<1>8. /\ Visible' = Visible /\ Under(w)' = Under(w) \cup {s}
      /\ \A v \in Visible \ {w} : Under(v)' = Under(v)
    BY <1>6, <1>7 DEF Visible, Under, SideInv
<1>9. UnderWay(y)'
    BY <1>2, <1>3, <1>5, <1>6 DEF UnderWay
<1>10. Matches(list) /\ w \in DOMAIN list
    BY <1>2, <1>3 DEF Told, UnderWay
<1>11. Told(y)'
    BY <1>5, <1>6, <1>8, <1>10 DEF Told, Matches, MatchesBut
<1> QED
    BY <1>3, <1>5, <1>6, <1>7, <1>9, <1>11, GoesOn, IsACall

LEMMA DeleteStep ==
    ASSUME SideInv, NEW c \in Calls, DeleteSession(c) \/ DeleteWorkspaceSessions(c)
    PROVE  SideInv'
<1>1. PICK x : x = calls[c]
    OBVIOUS
<1>2. calls[c] # NoCall /\ x.kind \in {"delete", "clear"} /\ x.step = "asked"
    BY <1>1 DEF DeleteSession, DeleteWorkspaceSessions, At, NoCall
<1>3. UnderWay(x) /\ Told(x) /\ Only(c)
    BY <1>1, <1>2, OnlyOne
<1> DEFINE w == x.workspace
           s == x.session
<1>4. PICK y : y = [x EXCEPT !.step = "answered"]
    OBVIOUS
<1>5. /\ y.kind = x.kind /\ y.step = "answered" /\ y.workspace = w
      /\ y.session = s /\ y.rendered = x.rendered /\ DOMAIN y = DOMAIN x
    BY <1>3, <1>4, GoesTo DEF UnderWay
<1>6. /\ Matches(list) /\ Matches(x.rendered) /\ w \in DOMAIN list
      /\ w \in Workspaces /\ None \notin Workspaces
    BY <1>2, <1>3, SidebarAssumption DEF Told, UnderWay
<1>7. ASSUME calls' = [calls EXCEPT ![c] = y], UNCHANGED <<visibility, unused, list>>,
             Tables', \A v \in Visible \ {w} : Under(v)' = Under(v),
             \/ x.kind = "delete" /\ Under(w)' = Under(w) \ {s}
             \/ x.kind = "clear" /\ Under(w)' = {}
      PROVE  SideInv'
    <2>1. UnderWay(y)'
        BY <1>2, <1>3, <1>5, <1>7 DEF UnderWay
    <2>2. Visible' = Visible
        BY <1>7 DEF Visible
    <2>3. Told(y)'
        BY <1>5, <1>6, <1>7, <2>2 DEF Told, Matches, MatchesBut
    <2> QED
        BY <1>3, <1>5, <1>7, <2>1, <2>3, GoesOn, IsACall
<1>8. CASE DeleteSession(c) /\ s \in Existing
    <2>1. /\ x.kind = "delete" /\ calls' = [calls EXCEPT ![c] = y]
          /\ owner' = [owner EXCEPT ![s] = None] /\ UNCHANGED <<visibility, unused, list>>
        BY <1>1, <1>4, <1>8 DEF DeleteSession, At, GoTo
    <2>2. s \in Sessions /\ owner[s] = w
        BY <1>2, <1>3, <2>1 DEF UnderWay, Under
    <2>3. Tables'
        BY <2>1, <2>2 DEF SideInv, Tables
    <2>4. Under(w)' = Under(w) \ {s} /\ \A v \in Visible \ {w} : Under(v)' = Under(v)
        BY <1>6, <2>1, <2>2 DEF Under, SideInv, Visible
    <2> QED
        BY <1>7, <2>1, <2>3, <2>4
<1>9. CASE DeleteSession(c) /\ s \notin Existing
    BY <1>1, <1>2, <1>9, RefusedStep DEF DeleteSession
<1>10. CASE DeleteWorkspaceSessions(c)
    <2>1. /\ x.kind = "clear" /\ calls' = [calls EXCEPT ![c] = y]
          /\ owner' = [r \in Sessions |-> IF owner[r] = w THEN None ELSE owner[r]]
          /\ UNCHANGED <<visibility, unused, list>>
        BY <1>1, <1>4, <1>10 DEF DeleteWorkspaceSessions, At, GoTo
    <2>2. Tables'
        BY <2>1 DEF SideInv, Tables
    <2>3. Under(w)' = {} /\ \A v \in Visible \ {w} : Under(v)' = Under(v)
        BY <1>6, <2>1 DEF Under, SideInv, Visible
    <2> QED
        BY <1>7, <2>1, <2>2, <2>3
<1> QED
    BY <1>8, <1>9, <1>10

LEMMA ModelStep ==
    ASSUME SideInv, NEW c \in Calls, UpdateSessionModel(c)
    PROVE  SideInv'
<1>1. PICK x : x = calls[c]
    OBVIOUS
<1>2. /\ calls[c] # NoCall /\ x.kind = "model" /\ x.step = "asked"
      /\ UNCHANGED <<visibility, owner, unused, list>>
    BY <1>1 DEF UpdateSessionModel, At, NoCall, kernel
<1>3. UnderWay(x) /\ Told(x)
    BY <1>1, <1>2, OnlyOne
<1>4. CASE x.session \in Existing
    <2>1. PICK title : title = name[x.session]
        OBVIOUS
    <2>2. PICK y : y = [x EXCEPT !.step = "answered", !.rendered = title]
        OBVIOUS
    <2>3. /\ y.kind = "model" /\ y.step = "answered" /\ y.workspace = x.workspace
          /\ DOMAIN y = DOMAIN x
        BY <1>2, <1>3, <2>2 DEF UnderWay
    <2>4. calls' = [calls EXCEPT ![c] = y]
        BY <1>1, <1>3, <1>4, <2>1, <2>2 DEF UpdateSessionModel, SideInv, UnderWay
    <2>5. UnderWay(y) /\ Told(y)
        BY <1>2, <1>3, <2>3 DEF UnderWay, Told
    <2> QED
        BY <1>2, <2>3, <2>4, <2>5, OnlyStep, IsACall
<1>5. CASE x.session \notin Existing
    BY <1>1, <1>2, <1>5, RefusedStep DEF UpdateSessionModel
<1> QED
    BY <1>4, <1>5

LEMMA FailsStep ==
    ASSUME SideInv, NEW c \in Calls, Fails(c, "asked") \/ Fails(c, "refused")
    PROVE  SideInv'
<1>1. /\ calls[c] # NoCall /\ calls[c].step \in {"asked", "refused"}
      /\ calls' = [calls EXCEPT ![c] = NoCall]
      /\ UNCHANGED <<visibility, owner, unused, list>>
    BY DEF Fails, Over, NoCall, kernel
<1>2. Only(c) /\ Matches(list)
    BY <1>1, OnlyOne DEF Told
<1>3. Tables' /\ Matches(list)'
    BY <1>1, <1>2 DEF SideInv, Tables, Matches, Visible, Under
<1> QED
    BY <1>1, <1>2, <1>3, IsOver

(* What the call heard makes the list one of what is stored.                *)
LEMMA HearStep ==
    ASSUME SideInv, NEW c \in Calls, Hear(c)
    PROVE  SideInv'
<1>1. PICK x : x = calls[c]
    OBVIOUS
<1>2. /\ calls[c] # NoCall /\ x.step = "answered"
      /\ calls' = [calls EXCEPT ![c] = NoCall]
      /\ UNCHANGED <<visibility, owner, unused>>
    BY <1>1 DEF Hear, WorkspaceOpened, WorkspaceHidden, SessionCreated, SessionDeleted,
        SessionsDeleted, ModelUpdated, At, Over, NoCall, kernel
<1>3. UnderWay(x) /\ Told(x) /\ Only(c)
    BY <1>1, <1>2, OnlyOne
<1>4. Tables' /\ Visible' = Visible /\ \A v : Under(v)' = Under(v)
    BY <1>2 DEF SideInv, Tables, Visible, Under
<1> DEFINE w == x.workspace
<1>5. CASE x.kind = "open"
    <2>1. list' = [v \in DOMAIN list \cup {w} |-> IF v = w THEN x.rendered ELSE list[v]]
        BY <1>1, <1>5 DEF Hear, WorkspaceOpened, WorkspaceHidden, SessionCreated, SessionDeleted,
            SessionsDeleted, ModelUpdated, At
    <2>2. MatchesBut(w) /\ DOMAIN x.rendered = Under(w)
        BY <1>2, <1>3, <1>5 DEF Told
    <2> QED
        BY <1>2, <1>3, <1>4, <2>1, <2>2, IsOver DEF Matches, MatchesBut
<1>6. CASE x.kind = "hide"
    <2>1. list' = Without(x.rendered, w)
        BY <1>1, <1>6 DEF Hear, WorkspaceOpened, WorkspaceHidden, SessionCreated, SessionDeleted,
            SessionsDeleted, ModelUpdated, At
    <2>2. /\ DOMAIN x.rendered \ {w} = Visible
          /\ \A v \in Visible : DOMAIN x.rendered[v] = Under(v)
        BY <1>2, <1>3, <1>6 DEF Told
    <2>3. DOMAIN list' = Visible /\ \A v \in Visible : DOMAIN list'[v] = Under(v)
        BY <2>1, <2>2 DEF Without, Restrict
    <2> QED
        BY <1>2, <1>3, <1>4, <2>3, IsOver DEF Matches
<1>7. ASSUME NEW row, list' = [list EXCEPT ![w] = row], DOMAIN row = Under(w),
             x.kind \in {"create", "delete", "clear"}
      PROVE  SideInv'
    <2>1. MatchesBut(w) /\ w \in DOMAIN list
        BY <1>2, <1>3, <1>7 DEF Told, UnderWay
    <2>2. DOMAIN list' = Visible /\ \A v \in Visible : DOMAIN list'[v] = Under(v)
        BY <1>7, <2>1 DEF MatchesBut
    <2> QED
        BY <1>2, <1>3, <1>4, <2>2, IsOver DEF Matches
<1>8. x.kind \in {"create", "delete", "clear"} => w \in DOMAIN list
    BY <1>3 DEF UnderWay
<1>9. CASE x.kind = "create"
    <2>1. PICK row : row = [s \in DOMAIN list[w] \cup {x.session} |->
                               IF s = x.session THEN None ELSE list[w][s]]
        OBVIOUS
    <2>2. list' = [list EXCEPT ![w] = row]
        BY <1>1, <1>8, <1>9, <2>1 DEF Hear, WorkspaceOpened, WorkspaceHidden, SessionCreated,
            SessionDeleted, SessionsDeleted, ModelUpdated, At, SetSessions
    <2>3. DOMAIN row = Under(w)
        BY <1>2, <1>3, <1>9, <2>1 DEF Told
    <2> QED
        BY <1>7, <1>9, <2>2, <2>3
<1>10. CASE x.kind = "delete"
    <2>1. w \in DOMAIN x.rendered /\ DOMAIN x.rendered[w] \ {x.session} = Under(w)
        BY <1>2, <1>3, <1>10 DEF Told
    <2>2. PICK row : row = Without(x.rendered[w], x.session)
        OBVIOUS
    <2>3. list' = [list EXCEPT ![w] = row]
        BY <1>1, <1>8, <1>10, <2>1, <2>2 DEF Hear, WorkspaceOpened, WorkspaceHidden,
            SessionCreated, SessionDeleted, SessionsDeleted, ModelUpdated, At, SetSessions,
            RemainingSessions
    <2>4. DOMAIN row = Under(w)
        BY <2>1, <2>2 DEF Without, Restrict
    <2> QED
        BY <1>7, <1>10, <2>3, <2>4
<1>11. CASE x.kind = "clear"
    <2>1. list' = [list EXCEPT ![w] = <<>>]
        BY <1>1, <1>8, <1>11 DEF Hear, WorkspaceOpened, WorkspaceHidden, SessionCreated,
            SessionDeleted, SessionsDeleted, ModelUpdated, At, SetSessions
    <2>2. DOMAIN <<>> = Under(w)
        BY <1>2, <1>3, <1>11 DEF Told
    <2> QED
        BY <1>7, <1>11, <2>1, <2>2
<1>12. CASE x.kind = "model"
    <2>1. list' = SetTitle(x.session, x.rendered)
        BY <1>1, <1>12 DEF Hear, WorkspaceOpened, WorkspaceHidden, SessionCreated, SessionDeleted,
            SessionsDeleted, ModelUpdated, At
    <2>2. Matches(list)
        BY <1>3, <1>12 DEF Told
    <2>3. Renamed
        BY <1>2, <2>1 DEF Renamed, SetTitle
    <2>4. Matches(list)'
        BY <2>2, <2>3, RenamedMatches
    <2> QED
        BY <1>2, <1>3, <1>4, <2>4, IsOver
<1> QED
    BY <1>3, <1>5, <1>6, <1>9, <1>10, <1>11, <1>12 DEF UnderWay

LEMMA SideStep ==
    ASSUME SideInv, Patient, [Next]_vars
    PROVE  SideInv'
<1>1. ASSUME NEW c \in Calls, Clicks(c) \/ Handle(c) \/ Hear(c) PROVE SideInv'
    BY <1>1, ClickStep, OpenStep, HideStep, CreateStep, DeleteStep, ModelStep, FailsStep, HearStep
    DEF Handle
<1>2. ASSUME NEW t \in Titles, GenerateTitle(t) \/ \E s \in Sessions : StartTitleTask(t, s)
      PROVE  SideInv'
    <2>1. Renamed /\ calls' = calls
        BY <1>2 DEF GenerateTitle, ReadName, Complete, RenameSession, TellTitle, FinishTitleTask,
            StartTitleTask, Renamed, kernel
    <2> QED
        BY <2>1, RenamedStep
<1>3. ASSUME NEW event \in told, SessionTitleChanged(event) PROVE SideInv'
    <2>1. Renamed /\ calls' = calls
        BY <1>3 DEF SessionTitleChanged, SetTitle, Renamed, kernel
    <2> QED
        BY <2>1, RenamedStep
<1>4. CASE UNCHANGED vars
    BY <1>4, RenamedStep DEF vars, kernel, Renamed
<1> QED
    BY <1>1, <1>2, <1>3, <1>4 DEF Next

\* While no call of a user who waits for the answers is on its way, the sidebar
\* lists the visible workspaces with all of their sessions, whatever titles are
\* generated behind them (App.jsx: the handlers of the sidebar).
THEOREM ListedIsStoredTheorem ==
    ASSUME Patient = TRUE
    PROVE  Spec => []ListedIsStored
<1>1. Init => SideInv
    BY SidebarAssumption DEF Init, SideInv, Matches, Quiet, VisibleWorkspaces, Row
<1>2. SideInv /\ [Next]_vars => SideInv'
    BY SideStep
<1>3. SideInv => ListedIsStored
    BY DEF SideInv, Matches, ListedIsStored
<1> QED
    BY <1>1, <1>2, <1>3, PTL DEF Spec
=============================================================================
