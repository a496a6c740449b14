---------------------------- MODULE HistoryPages ----------------------------
(***************************************************************************)
(* The history of one session, read page by page (App.jsx,                 *)
(* loadSessionMessages and loadOlderSessionMessages;                       *)
(* session_store.rs, list_session_messages_page).                          *)
(*                                                                         *)
(* Opening the session loads its newest turns; reaching the top of the     *)
(* transcript loads the page before the earliest turn.  While a task of    *)
(* the session runs, opening it shows what the window kept.                *)
(*                                                                         *)
(* Turns are numbered from 1 as storage does.  A transcript is the         *)
(* sequence of the turns it shows.                                         *)
(***************************************************************************)
EXTENDS Integers, Sequences, SequencesExt, FiniteSets

CONSTANTS
    PageTurns,  \* SESSION_MESSAGE_PAGE_TURNS, 20; the kernel takes 1 to 100
    MaxTurns,   \* bound on the turns of the session
    MaxCalls,   \* bound on the calls under way at a time
    Patient     \* TRUE if the user waits for what is being loaded

VARIABLES
    turns,    \* storage: the number of turns
    open,     \* the session is the open one
    running,  \* a task of the session runs
    cache,    \* the transcript the window keeps
    page,     \* messagePageStateRef of the session
    calls     \* list_session_messages under way, by number

vars == <<turns, open, running, cache, page, calls>>

NoTurn == 0     \* null

NoPage == [earliest |-> NoTurn, hasMore |-> FALSE, loading |-> FALSE]

(* list_session_messages_page: the newest turns before a turn, or of all.  *)
Stretch(low, high) == [i \in 1..(high - low + 1) |-> low + i - 1]

\* Mutant: the turn itself is read again.
NewestOfInclusive(before) == IF before = NoTurn THEN turns ELSE before

NewestOf(before) == IF before = NoTurn THEN turns ELSE before - 1

PageOf(before) == LET high == NewestOf(before) IN
    Stretch(IF high > PageTurns THEN high - PageTurns + 1 ELSE 1, high)

(* messagePageStateFromRecords                                             *)

\* Mutant: a page that is just full is taken for the last one.
PageStateAbove(records, fallback) ==
    [earliest |-> IF records = <<>> THEN fallback ELSE Head(records),
     hasMore  |-> Len(records) > PageTurns,
     loading  |-> FALSE]

PageState(records, fallback) ==
    [earliest |-> IF records = <<>> THEN fallback ELSE Head(records),
     hasMore  |-> Len(records) >= PageTurns,
     loading  |-> FALSE]

-----------------------------------------------------------------------------
Init ==
    /\ turns \in 0..MaxTurns
    /\ open = FALSE /\ running = FALSE
    /\ cache = <<>> /\ page = NoPage
    /\ calls = [c \in 1..MaxCalls |-> [kind |-> "none"]]

IsFree(c) == calls[c].kind = "none"
Quiet == \A c \in DOMAIN calls : IsFree(c)

Opening == \E c \in DOMAIN calls : calls[c].kind = "newest"

Call(kind, before, old) == [kind |-> kind, before |-> before, old |-> old, read |-> FALSE,
                            records |-> <<>>]

Issue(call) == \E c \in DOMAIN calls :
    /\ IsFree(c) /\ \A d \in 1..(c - 1) : ~IsFree(d)
    /\ calls' = [calls EXCEPT ![c] = call]

Over(c) == calls' = [calls EXCEPT ![c] = [kind |-> "none"]]

(* openSession, for the open session as well; loadSessionMessages up to    *)
(* its await.                                                              *)
OpenSession ==
    /\ Patient => Quiet
    /\ open' = TRUE
    /\ IF running THEN UNCHANGED calls ELSE Issue(Call("newest", NoTurn, NoPage))
    /\ UNCHANGED <<turns, running, cache, page>>

(* Another session is opened, or a workspace that has none: an empty       *)
(* transcript forgets the pages of all sessions (showEmptyMessages).       *)
Leave ==
    /\ open /\ (Patient => Quiet)
    /\ open' = FALSE
    /\ page' \in {page, NoPage}
    /\ UNCHANGED <<turns, running, cache, calls>>

(* loadOlderSessionMessages up to its await.                               *)
ReachTop ==
    /\ open /\ page.hasMore /\ ~page.loading /\ page.earliest # NoTurn
    /\ Patient => ~Opening
    /\ page' = [page EXCEPT !.loading = TRUE]
    /\ Issue(Call("older", page.earliest, page))
    /\ UNCHANGED <<turns, open, running, cache>>

Read(c) ==
    /\ ~IsFree(c) /\ ~calls[c].read
    /\ calls' = [calls EXCEPT ![c].read = TRUE, ![c].records = PageOf(calls[c].before)]
    /\ UNCHANGED <<turns, open, running, cache, page>>

(* loadSessionMessages behind its await.                                   *)
NewestLoaded(c) ==
    /\ calls[c].kind = "newest" /\ calls[c].read
    /\ Over(c)
    /\ IF open THEN /\ page' = PageState(calls[c].records, NoTurn)
                    /\ cache' = calls[c].records
               ELSE UNCHANGED <<page, cache>>
    /\ UNCHANGED <<turns, open, running>>

(* loadOlderSessionMessages behind its await: the page is remembered even  *)
(* if the turns are not shown.                                             *)
OlderLoaded(c) ==
    /\ calls[c].kind = "older" /\ calls[c].read
    /\ Over(c)
    /\ page' = PageState(calls[c].records, calls[c].before)
    /\ cache' = IF open THEN calls[c].records \o cache ELSE cache
    /\ UNCHANGED <<turns, open, running>>

(* A call that fails puts the page back to where it was asked from.        *)
LoadFails(c) ==
    /\ ~IsFree(c) /\ ~calls[c].read
    /\ Over(c)
    /\ page' = IF calls[c].kind = "older" THEN [calls[c].old EXCEPT !.loading = FALSE] ELSE page
    /\ UNCHANGED <<turns, open, running, cache>>

(* submitPrompt: the new turn is shown at the end, and stored.  What a     *)
(* prompt does that is sent while the session is being opened is the       *)
(* subject of Transcript.                                                  *)
Prompt ==
    /\ open /\ ~running /\ turns < MaxTurns
    /\ ~Opening
    /\ turns' = turns + 1
    /\ cache' = Append(cache, turns')
    /\ running' = TRUE
    /\ UNCHANGED <<open, page, calls>>

TaskEnds ==
    /\ running
    /\ running' = FALSE
    /\ UNCHANGED <<turns, open, cache, page, calls>>

Next ==
    \/ OpenSession \/ Leave \/ ReachTop \/ Prompt \/ TaskEnds
    \/ \E c \in DOMAIN calls : Read(c) \/ NewestLoaded(c) \/ OlderLoaded(c) \/ LoadFails(c)

Spec == Init /\ [][Next]_vars

-----------------------------------------------------------------------------
(* Properties.                                                             *)

TypeOK ==
    /\ turns \in 0..MaxTurns
    /\ {open, running} \subseteq BOOLEAN
    /\ cache \in Seq(1..MaxTurns)
    /\ page \in [earliest : 0..MaxTurns, hasMore : BOOLEAN, loading : BOOLEAN]
    /\ \A c \in DOMAIN calls : calls[c].kind \in {"none", "newest", "older"}

(* What is shown is one stretch of the history, in order, with no turn     *)
(* twice and none left out, in whatever order pages are asked for,         *)
(* answered and refused (updateMessagesForSession puts older turns in      *)
(* front).                                                                 *)
OneStretch ==
    /\ \A i, j \in DOMAIN cache : i < j => cache[i] < cache[j]
    /\ \A i, j \in DOMAIN cache : cache[i]..cache[j] \subseteq Range(cache)

(* When nothing is being loaded, the page that would be loaded next is the *)
(* one in front of what is shown, and where there is none the history is   *)
(* shown from its first turn: no turn is out of reach, unless the page has *)
(* been forgotten (messagePageStateFromRecords).                           *)
NothingOutOfReach == open /\ Quiet /\ page.earliest # NoTurn =>
    /\ cache # <<>> /\ Head(cache) = page.earliest
    /\ page.hasMore \/ page.earliest = 1
    /\ ~page.loading
=============================================================================
