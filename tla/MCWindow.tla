------------------------------ MODULE MCWindow ------------------------------
(* Instances of the two models of a session's transcript in the window: of *)
(* Transcript, with different bounds, and of HistoryPages.  A behaviour    *)
(* belongs to one scene from its first state to its last.                  *)
EXTENDS Transcript

CONSTANTS PageTurns, MaxTurns, MaxCalls

ASSUME PagesAssumption ==
    /\ PageTurns \in Nat \ {0}    \* list_session_messages_page takes 1 to 100
    /\ MaxTurns \in Nat /\ MaxCalls \in Nat

VARIABLES scene, stored, open, taskRuns, shown, page, calls

pageVars == <<stored, open, taskRuns, shown, page, calls>>

Pages == INSTANCE HistoryPages WITH turns <- stored, running <- taskRuns, cache <- shown

Scenes == {"answers", "compactions", "sessions", "pages"}

MCInit ==
    /\ Init /\ Pages!Init
    /\ scene \in Scenes
    /\ selected = CHOOSE s \in Sessions : TRUE
    /\ scene # "pages" => stored = 0
    /\ deleted = IF scene = "sessions" THEN {} ELSE Sessions \ {selected}

MCNext ==
    /\ UNCHANGED scene
    /\ \/ scene # "pages" /\ Next /\ UNCHANGED pageVars
       \/ scene = "pages" /\ Pages!Next /\ UNCHANGED vars

MCSpec == MCInit /\ [][MCNext]_<<vars, pageVars, scene>>

\* The bounds of the scenes: one session with answers that are retried, one
\* session with compactions, two sessions whose tasks only start and end.
InScene == \A s \in Sessions :
    CASE scene = "answers"     -> kernel[s].folds = 0
      [] scene = "compactions" -> prompts <= 1 /\ kernel[s].retries = 0
      [] scene = "sessions"    -> /\ kernel[s].deltas = 0 /\ kernel[s].round = 0
                                  /\ kernel[s].retries = 0 /\ kernel[s].folds = 0
      [] OTHER                 -> TRUE

\* Sessions are alike but for the one selected first: from any other one the same
\* states are reached with the sessions exchanged.
Symmetry == Permutations(Sessions)

\* The turns shown are one stretch of the history, in order, with no turn twice
\* and none left out, in whatever order pages are asked for, answered and
\* refused (App.jsx:1594-1665, updateMessagesForSession).
OneStretch == Pages!OneStretch

\* When nothing is being loaded, the page that is remembered, if it has not been
\* forgotten, is the one in front of what is shown, or the history is shown from
\* its first turn (messages.js:94, messagePageStateFromRecords).
NothingOutOfReach == Pages!NothingOutOfReach
=============================================================================
