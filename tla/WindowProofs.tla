---------------------------- MODULE WindowProofs ----------------------------
(***************************************************************************)
(* What the window shows to a user who waits for what a click has set off. *)
(*                                                                         *)
(* The pages of a session's history (HistoryPages), for every size of a    *)
(* page and every number of turns and calls; then transcripts, running     *)
(* tasks and their stops (Transcript), for every number of sessions,       *)
(* prompts, rounds, retries, deltas and compactions.                       *)
(***************************************************************************)
EXTENDS MCWindow, SequenceTheorems, FiniteSetTheorems, NaturalsInduction, WellFoundedInduction, TLAPS

-----------------------------------------------------------------------------
(* Stretches of the history.                                               *)

LEMMA StretchIs ==
    ASSUME NEW low \in Nat, NEW high \in Nat, low <= high + 1
    PROVE  /\ Pages!Stretch(low, high) \in Seq(Nat)
           /\ Len(Pages!Stretch(low, high)) = high - low + 1
           /\ \A i \in 1..(high - low + 1) : Pages!Stretch(low, high)[i] = low + i - 1
<1>1. \A i \in 1..(high - low + 1) : low + i - 1 \in Nat
    OBVIOUS
<1>2. high - low + 1 \in Nat
    OBVIOUS
<1> QED
    BY <1>1, <1>2 DEF Pages!Stretch

(* A page in front of what is shown, and a turn behind it.                  *)
LEMMA StretchConcat ==
    ASSUME NEW low \in Nat, NEW middle \in Nat, NEW high \in Nat,
           low <= middle, middle <= high + 1, middle # 0
    PROVE  Pages!Stretch(low, middle - 1) \o Pages!Stretch(middle, high) = Pages!Stretch(low, high)
<1> DEFINE s == Pages!Stretch(low, middle - 1)
           t == Pages!Stretch(middle, high)
           u == Pages!Stretch(low, high)
<1>1. /\ s \in Seq(Nat) /\ Len(s) = middle - low
      /\ \A i \in 1..(middle - low) : s[i] = low + i - 1
    <2>1. middle - 1 \in Nat /\ low <= (middle - 1) + 1 /\ (middle - 1) - low + 1 = middle - low
        OBVIOUS
    <2> QED
        BY <2>1, StretchIs
<1>2. /\ t \in Seq(Nat) /\ Len(t) = high - middle + 1
      /\ \A i \in 1..(high - middle + 1) : t[i] = middle + i - 1
    BY StretchIs
<1>3. /\ u \in Seq(Nat) /\ Len(u) = high - low + 1
      /\ \A i \in 1..(high - low + 1) : u[i] = low + i - 1
    <2>1. low <= high + 1
        OBVIOUS
    <2> QED
        BY <2>1, StretchIs
<1> HIDE DEF s, t, u
<1>4. /\ s \o t \in Seq(Nat) /\ Len(s \o t) = Len(s) + Len(t)
      /\ \A i \in 1..(Len(s) + Len(t)) : (s \o t)[i] = IF i <= Len(s) THEN s[i] ELSE t[i - Len(s)]
    BY <1>1, <1>2, ConcatProperties
<1>5. Len(s \o t) = Len(u)
    BY <1>1, <1>2, <1>3, <1>4
<1>6. ASSUME NEW i \in 1..Len(s \o t) PROVE (s \o t)[i] = u[i]
    <2>1. CASE i <= Len(s)
        BY <1>1, <1>2, <1>3, <1>4, <2>1
    <2>2. CASE i > Len(s)
        <3>1. i - Len(s) \in 1..(high - middle + 1) /\ i \in 1..(high - low + 1)
            BY <1>1, <1>2, <1>4, <2>2
        <3>2. (s \o t)[i] = middle + (i - Len(s)) - 1
            BY <1>1, <1>2, <1>4, <2>2, <3>1
        <3> QED
            BY <1>1, <1>3, <3>1, <3>2
    <2> QED
        BY <1>1, <1>2, <1>4, <2>1, <2>2
<1>7. s \o t = u
    BY <1>3, <1>4, <1>5, <1>6, SeqEqual
<1> QED
    BY <1>7 DEF s, t, u

LEMMA StretchAppend ==
    ASSUME NEW low \in Nat, NEW high \in Nat, low <= high + 1, low # 0
    PROVE  Append(Pages!Stretch(low, high), high + 1) = Pages!Stretch(low, high + 1)
<1> DEFINE s == Pages!Stretch(low, high)
           u == Pages!Stretch(low, high + 1)
<1>1. /\ s \in Seq(Nat) /\ Len(s) = high - low + 1
      /\ \A i \in 1..(high - low + 1) : s[i] = low + i - 1
    BY StretchIs
<1>2. /\ u \in Seq(Nat) /\ Len(u) = high - low + 2
      /\ \A i \in 1..(high - low + 2) : u[i] = low + i - 1
    <2>1. high + 1 \in Nat /\ low <= (high + 1) + 1 /\ (high + 1) - low + 1 = high - low + 2
        OBVIOUS
    <2> QED
        BY <2>1, StretchIs
<1> HIDE DEF s, u
<1>3. /\ Append(s, high + 1) \in Seq(Nat) /\ Len(Append(s, high + 1)) = Len(s) + 1
      /\ \A i \in 1..Len(s) : Append(s, high + 1)[i] = s[i]
      /\ Append(s, high + 1)[Len(s) + 1] = high + 1
    BY <1>1, AppendProperties
<1>4. ASSUME NEW i \in 1..Len(Append(s, high + 1)) PROVE Append(s, high + 1)[i] = u[i]
    <2>1. i \in 1..Len(s) \/ i = Len(s) + 1
        BY <1>1, <1>3
    <2> QED
        BY <1>1, <1>2, <1>3, <2>1
<1>5. Append(s, high + 1) = u
    BY <1>1, <1>2, <1>3, <1>4, SeqEqual
<1> QED
    BY <1>5 DEF s, u

IsPage(x) ==
    /\ DOMAIN x = {"earliest", "hasMore", "loading"}
    /\ x.earliest \in Nat /\ x.hasMore \in BOOLEAN /\ x.loading \in BOOLEAN

IsPageFrom(low, high, records, state, fallback) ==
    /\ records = Pages!Stretch(low, high)
    /\ IsPage(state)
    /\ state.earliest = IF high = 0 THEN fallback ELSE low
    /\ state.loading = FALSE
    /\ state.hasMore \/ low = 1
    /\ high # 0 => low <= high

(* The turns of a page, and the page that is remembered for it.             *)
LEMMA PageIs ==
    ASSUME NEW high \in Nat, NEW fallback \in Nat, NEW records,
           records = Pages!Stretch(IF high > PageTurns THEN high - PageTurns + 1 ELSE 1, high)
    PROVE  \E low \in 1..(high + 1) :
              IsPageFrom(low, high, records, Pages!PageState(records, fallback), fallback)
<1>1. PICK low : low = IF high > PageTurns THEN high - PageTurns + 1 ELSE 1
    OBVIOUS
<1>2. /\ low \in 1..(high + 1) /\ (high # 0 => low <= high)
      /\ high > PageTurns => high - low + 1 = PageTurns
      /\ high <= PageTurns => low = 1
    BY <1>1, PagesAssumption
<1>3. /\ records \in Seq(Nat) /\ Len(records) = high - low + 1
      /\ \A i \in 1..(high - low + 1) : records[i] = low + i - 1
    <2>1. low \in Nat /\ low <= high + 1 /\ records = Pages!Stretch(low, high)
        BY <1>1, <1>2
    <2> QED
        BY <2>1, StretchIs
<1>4. high = 0 <=> records = <<>>
    BY <1>2, <1>3
<1>5. high # 0 => Head(records) = low
    BY <1>2, <1>3
<1>6. (Len(records) >= PageTurns) \/ low = 1
    BY <1>2, <1>3, PagesAssumption
<1>7. (IF records = <<>> THEN fallback ELSE Head(records)) = IF high = 0 THEN fallback ELSE low
    BY <1>4, <1>5
<1>8. PICK state : state = Pages!PageState(records, fallback)
    OBVIOUS
<1>9. PICK more \in BOOLEAN : more = (Len(records) >= PageTurns)
    <2>1. (Len(records) >= PageTurns) \in BOOLEAN
        OBVIOUS
    <2> QED
        BY <2>1, Zenon
<1>10. PICK first \in Nat : first = IF high = 0 THEN fallback ELSE low
    BY <1>2
<1>11. state = [earliest |-> first, hasMore |-> more, loading |-> FALSE]
    BY <1>7, <1>8, <1>9, <1>10 DEF Pages!PageState
<1>12. /\ DOMAIN state = {"earliest", "hasMore", "loading"}
       /\ state.earliest = first /\ state.hasMore = more /\ state.loading = FALSE
    BY <1>11
<1>13. IsPage(state)
    BY <1>12 DEF IsPage
<1>14. more \/ low = 1
    BY <1>6, <1>9
<1> QED
    BY <1>1, <1>2, <1>8, <1>10, <1>12, <1>13, <1>14 DEF IsPageFrom

-----------------------------------------------------------------------------
(* The load that is under way.                                              *)

(* The newest turns are asked for while no page is loading; a page is asked *)
(* for from the earliest turn shown, and the page it was asked from goes on *)
(* but for the mark that it is loading.                                     *)
Waiting(x) ==
    /\ DOMAIN x = {"kind", "before", "old", "read", "records"}
    /\ x.read \in BOOLEAN
    /\ \/ x.kind = "newest" /\ x.before = 0 /\ page.loading = FALSE
       \/ /\ x.kind = "older" /\ x.before = page.earliest /\ page.earliest # 0
          /\ IsPage(x.old) /\ x.old.earliest = page.earliest
          /\ x.old.hasMore = page.hasMore /\ x.old.loading = FALSE /\ page.loading = TRUE
    /\ x.read => x.records = Pages!PageOf(x.before)

(* What is shown ends with the newest turn, and begins with the turn the    *)
(* remembered page begins with.                                             *)
Shown ==
    /\ stored \in Nat /\ IsPage(page)
    /\ \E low \in 1..(stored + 1) :
          /\ shown = Pages!Stretch(low, stored)
          /\ page.earliest # 0 => page.earliest = low /\ low <= stored
    /\ page.earliest # 0 => page.hasMore \/ page.earliest = 1

PagesInv ==
    /\ Shown
    /\ DOMAIN calls = 1..MaxCalls
    /\ \A c, d \in DOMAIN calls : ~Pages!IsFree(c) /\ ~Pages!IsFree(d) => c = d
    /\ \A c \in DOMAIN calls : ~Pages!IsFree(c) => open /\ Waiting(calls[c])
    /\ Pages!Quiet => page.loading = FALSE

LEMMA ShownIsOneStretch ==
    ASSUME Shown
    PROVE  OneStretch
<1>1. PICK low \in 1..(stored + 1) : shown = Pages!Stretch(low, stored)
    BY DEF Shown
<1>2. /\ Len(shown) = stored - low + 1 /\ shown \in Seq(Nat) /\ stored \in Nat
      /\ \A i \in 1..(stored - low + 1) : shown[i] = low + i - 1
    <2>1. stored \in Nat /\ low \in Nat /\ low <= stored + 1
        BY DEF Shown
    <2> QED
        BY <1>1, <2>1, StretchIs
<1>3. DOMAIN shown = 1..(stored - low + 1)
    BY <1>2
<1>4. ASSUME NEW i \in DOMAIN shown, NEW j \in DOMAIN shown PROVE shown[i]..shown[j] \subseteq Range(shown)
    <2> SUFFICES ASSUME NEW v \in shown[i]..shown[j] PROVE v \in Range(shown)
        OBVIOUS
    <2>1. v - low + 1 \in DOMAIN shown /\ shown[v - low + 1] = v
        BY <1>2, <1>3
    <2> QED
        BY <2>1 DEF Range
<1>5. \A i, j \in DOMAIN shown : i < j => shown[i] < shown[j]
    BY <1>2, <1>3
<1> QED
    BY <1>4, <1>5 DEF OneStretch, Pages!OneStretch, Pages!Range, Range

LEMMA ShownIsInReach ==
    ASSUME PagesInv
    PROVE  NothingOutOfReach
<1> SUFFICES ASSUME Pages!Quiet, page.earliest # 0
             PROVE  /\ shown # <<>> /\ Head(shown) = page.earliest
                    /\ page.hasMore \/ page.earliest = 1
                    /\ ~page.loading
    BY DEF NothingOutOfReach, Pages!NothingOutOfReach, Pages!NoTurn
<1>1. /\ page.hasMore \/ page.earliest = 1
      /\ ~page.loading
    BY DEF PagesInv, Shown
<1>2. PICK low \in 1..stored : shown = Pages!Stretch(low, stored) /\ page.earliest = low
    BY DEF PagesInv, Shown
<1>3. stored \in Nat /\ shown \in Seq(Nat) /\ Len(shown) = stored - low + 1 /\ shown[1] = low
    <2>1. /\ stored \in Nat /\ low \in Nat /\ low <= stored + 1
          /\ 1 \in 1..(stored - low + 1) /\ low + 1 - 1 = low
        BY DEF PagesInv, Shown
    <2> QED
        BY <1>2, <2>1, StretchIs
<1> QED
    BY <1>1, <1>2, <1>3

-----------------------------------------------------------------------------
Only(c) == \A d \in DOMAIN calls \ {c} : Pages!IsFree(d)

LEMMA OnlyLoad ==
    ASSUME PagesInv, NEW c \in DOMAIN calls, ~Pages!IsFree(c)
    PROVE  Only(c) /\ open /\ Waiting(calls[c])
BY DEF PagesInv, Only

LEMMA LoadGoesOn ==
    ASSUME PagesInv, NEW c \in DOMAIN calls, Only(c), NEW y, y.kind # "none",
           calls' = [calls EXCEPT ![c] = y], open', Shown', Waiting(y)'
    PROVE  PagesInv'
<1>1. /\ DOMAIN calls' = DOMAIN calls /\ calls'[c] = y
      /\ \A d \in DOMAIN calls \ {c} : calls'[d].kind = "none"
    BY DEF Only, Pages!IsFree
<1>2. \A d \in DOMAIN calls' : calls'[d].kind # "none" => d = c
    BY <1>1
<1>3. ~Pages!Quiet'
    BY <1>1 DEF Pages!Quiet, Pages!IsFree
<1>4. ASSUME NEW d \in DOMAIN calls', calls'[d].kind # "none" PROVE Waiting(calls[d])'
    <2>1. calls'[d] = y
        BY <1>1, <1>2, <1>4
    <2> QED
        BY <2>1 DEF Waiting
<1> QED
    BY <1>1, <1>2, <1>3, <1>4 DEF PagesInv, Pages!IsFree

LEMMA LoadIsOver ==
    ASSUME PagesInv, NEW c \in DOMAIN calls, Only(c),
           calls' = [calls EXCEPT ![c] = [kind |-> "none"]], Shown', page'.loading = FALSE
    PROVE  PagesInv'
<1>1. DOMAIN calls' = DOMAIN calls /\ \A d \in DOMAIN calls : calls'[d].kind = "none"
    BY DEF Only, Pages!IsFree
<1> QED
    BY <1>1 DEF PagesInv, Pages!IsFree

LEMMA OpenStep ==
    ASSUME PagesInv, Patient = TRUE, Pages!OpenSession
    PROVE  PagesInv'
<1>1. Pages!Quiet /\ page.loading = FALSE /\ open' /\ UNCHANGED <<stored, shown, page>>
    BY DEF Pages!OpenSession, PagesInv
<1>2. Shown'
    BY <1>1 DEF PagesInv, Shown
<1>3. CASE taskRuns
    BY <1>1, <1>2, <1>3 DEF Pages!OpenSession, PagesInv, Pages!Quiet, Pages!IsFree
<1>4. CASE ~taskRuns
    <2>1. PICK y : y = Pages!Call("newest", 0, Pages!NoPage)
        OBVIOUS
    <2>2. PICK c \in DOMAIN calls : calls' = [calls EXCEPT ![c] = y]
        BY <1>4, <2>1 DEF Pages!OpenSession, Pages!Issue, Pages!NoTurn
    <2>3. /\ DOMAIN y = {"kind", "before", "old", "read", "records"}
          /\ y.kind = "newest" /\ y.before = 0 /\ y.read = FALSE
        BY <2>1 DEF Pages!Call
    <2>4. Waiting(y)'
        BY <1>1, <2>3 DEF Waiting
    <2>5. Only(c)
        BY <1>1 DEF Only, Pages!Quiet
    <2> QED
        BY <1>1, <1>2, <2>2, <2>3, <2>4, <2>5, LoadGoesOn
<1> QED
    BY <1>3, <1>4

LEMMA LeaveStep ==
    ASSUME PagesInv, Patient = TRUE, Pages!Leave
    PROVE  PagesInv'
<1>1. Pages!Quiet /\ UNCHANGED <<stored, shown, calls>> /\ page' \in {page, Pages!NoPage}
    BY DEF Pages!Leave
<1>2. CASE page' = page
    BY <1>1, <1>2 DEF PagesInv, Shown, Pages!Quiet, Pages!IsFree
<1>3. CASE page' = Pages!NoPage
    <2>1. IsPage(page') /\ page'.earliest = 0 /\ page'.loading = FALSE
        BY <1>3 DEF IsPage, Pages!NoPage, Pages!NoTurn
    <2>2. Shown'
        BY <1>1, <2>1 DEF PagesInv, Shown
    <2> QED
        BY <1>1, <2>1, <2>2 DEF PagesInv, Pages!Quiet, Pages!IsFree
<1> QED
    BY <1>1, <1>2, <1>3

LEMMA ReachTopStep ==
    ASSUME PagesInv, Patient = TRUE, Pages!ReachTop
    PROVE  PagesInv'
<1>1. /\ open /\ page.hasMore /\ ~page.loading /\ page.earliest # 0 /\ ~Pages!Opening
      /\ page' = [page EXCEPT !.loading = TRUE]
      /\ UNCHANGED <<stored, open, shown>>
    BY DEF Pages!ReachTop, Pages!NoTurn
<1>2. PICK old : old = page
    OBVIOUS
<1>3. IsPage(old) /\ old.loading = FALSE /\ old.hasMore = TRUE
    BY <1>1, <1>2 DEF PagesInv, Shown, IsPage
<1>4. /\ DOMAIN page' = {"earliest", "hasMore", "loading"}
      /\ page'.earliest = old.earliest /\ page'.hasMore = old.hasMore /\ page'.loading = TRUE
    BY <1>1, <1>2, <1>3 DEF IsPage
<1>5. Pages!Quiet
    <2> SUFFICES ASSUME NEW c \in DOMAIN calls, ~Pages!IsFree(c) PROVE FALSE
        BY DEF Pages!Quiet
    <2>1. Waiting(calls[c])
        BY DEF PagesInv
    <2>2. calls[c].kind = "older"
        BY <1>1, <2>1 DEF Waiting, Pages!Opening
    <2>3. Only(c) /\ page.loading
        BY <1>1, <2>1, <2>2, OnlyLoad DEF Waiting
    <2> QED
        BY <1>1, <2>3
<1>6. PICK y : y = Pages!Call("older", old.earliest, old)
    OBVIOUS
<1>7. PICK c \in DOMAIN calls : calls' = [calls EXCEPT ![c] = y]
    BY <1>2, <1>6 DEF Pages!ReachTop, Pages!Issue
<1>8. /\ DOMAIN y = {"kind", "before", "old", "read", "records"}
      /\ y.kind = "older" /\ y.before = old.earliest /\ y.old = old /\ y.read = FALSE
    BY <1>6 DEF Pages!Call
<1>9. Waiting(y)'
    BY <1>1, <1>2, <1>3, <1>4, <1>8 DEF Waiting
<1>10. Shown'
    <2>1. IsPage(page)'
        BY <1>3, <1>4 DEF IsPage
    <2> QED
        BY <1>1, <1>2, <1>4, <2>1 DEF PagesInv, Shown
<1>11. Only(c)
    BY <1>5 DEF Only, Pages!Quiet
<1> QED
    BY <1>1, <1>7, <1>8, <1>9, <1>10, <1>11, LoadGoesOn

LEMMA ReadStep ==
    ASSUME PagesInv, NEW c \in DOMAIN calls, Pages!Read(c)
    PROVE  PagesInv'
<1>1. PICK x : x = calls[c]
    OBVIOUS
<1>2. ~Pages!IsFree(c) /\ UNCHANGED <<stored, open, shown, page>>
    BY DEF Pages!Read
<1>3. Only(c) /\ open /\ Waiting(x) /\ x.kind # "none"
    BY <1>1, <1>2, OnlyLoad DEF Pages!IsFree
<1>4. PICK records : records = Pages!PageOf(x.before)
    OBVIOUS
<1>5. PICK y : y = [x EXCEPT !.read = TRUE, !.records = records]
    OBVIOUS
<1>6. /\ DOMAIN y = {"kind", "before", "old", "read", "records"}
      /\ y.kind = x.kind /\ y.before = x.before /\ y.old = x.old
      /\ y.read = TRUE /\ y.records = records
    BY <1>3, <1>5 DEF Waiting
<1>7. calls' = [calls EXCEPT ![c] = y]
    BY <1>1, <1>3, <1>4, <1>5 DEF Pages!Read, Waiting
<1>8. Waiting(y)'
    BY <1>2, <1>3, <1>4, <1>6 DEF Waiting, Pages!PageOf, Pages!NewestOf
<1>9. Shown'
    BY <1>2 DEF PagesInv, Shown
<1> QED
    BY <1>2, <1>3, <1>6, <1>7, <1>8, <1>9, LoadGoesOn

LEMMA NewestLoadedStep ==
    ASSUME PagesInv, NEW c \in DOMAIN calls, Pages!NewestLoaded(c)
    PROVE  PagesInv'
<1>1. PICK x : x = calls[c]
    OBVIOUS
<1>2. /\ ~Pages!IsFree(c) /\ x.kind = "newest" /\ x.read
      /\ calls' = [calls EXCEPT ![c] = [kind |-> "none"]] /\ UNCHANGED <<stored, open>>
    BY <1>1 DEF Pages!NewestLoaded, Pages!IsFree, Pages!Over
<1>3. Only(c) /\ open /\ Waiting(x)
    BY <1>1, <1>2, OnlyLoad
<1>4. /\ page' = Pages!PageState(x.records, 0) /\ shown' = x.records
    BY <1>1, <1>3 DEF Pages!NewestLoaded, Pages!NoTurn
<1>5. x.records = Pages!Stretch(IF stored > PageTurns THEN stored - PageTurns + 1 ELSE 1, stored)
    BY <1>2, <1>3 DEF Waiting, Pages!PageOf, Pages!NewestOf, Pages!NoTurn
<1>6. stored \in Nat
    BY DEF PagesInv, Shown
<1>7. PICK low \in 1..(stored + 1) :
          IsPageFrom(low, stored, x.records, Pages!PageState(x.records, 0), 0)
    BY <1>5, <1>6, PageIs
<1>8. Shown' /\ page'.loading = FALSE
    BY <1>2, <1>4, <1>6, <1>7 DEF IsPageFrom, Shown, IsPage
<1> QED
    BY <1>2, <1>3, <1>8, LoadIsOver

LEMMA OlderLoadedStep ==
    ASSUME PagesInv, NEW c \in DOMAIN calls, Pages!OlderLoaded(c)
    PROVE  PagesInv'
<1>1. PICK x : x = calls[c]
    OBVIOUS
<1>2. /\ ~Pages!IsFree(c) /\ x.kind = "older" /\ x.read
      /\ calls' = [calls EXCEPT ![c] = [kind |-> "none"]] /\ UNCHANGED <<stored, open>>
    BY <1>1 DEF Pages!OlderLoaded, Pages!IsFree, Pages!Over
<1>3. Only(c) /\ open /\ Waiting(x)
    BY <1>1, <1>2, OnlyLoad
<1>4. /\ page' = Pages!PageState(x.records, x.before) /\ shown' = x.records \o shown
    BY <1>1, <1>3 DEF Pages!OlderLoaded
<1>5. PICK before : before = x.before
    OBVIOUS
<1>6. stored \in Nat /\ before \in 1..stored /\ shown = Pages!Stretch(before, stored)
    BY <1>2, <1>3, <1>5 DEF Waiting, PagesInv, Shown, IsPage
<1>7. PICK high \in Nat : high = before - 1
    BY <1>6
<1>8. x.records = Pages!Stretch(IF high > PageTurns THEN high - PageTurns + 1 ELSE 1, high)
    BY <1>2, <1>3, <1>5, <1>6, <1>7 DEF Waiting, Pages!PageOf, Pages!NewestOf, Pages!NoTurn
<1>9. PICK low \in 1..(high + 1) :
          IsPageFrom(low, high, x.records, Pages!PageState(x.records, before), before)
    <2>1. before \in Nat
        BY <1>6
    <2> QED
        BY <1>8, <2>1, PageIs
<1>10. shown' = Pages!Stretch(low, stored)
    <2>1. /\ low \in Nat /\ before \in Nat /\ low <= before
          /\ before <= stored + 1 /\ before # 0
        BY <1>6, <1>7
    <2>2. x.records = Pages!Stretch(low, before - 1)
        BY <1>7, <1>9 DEF IsPageFrom
    <2>3. Pages!Stretch(low, before - 1) \o Pages!Stretch(before, stored) = Pages!Stretch(low, stored)
        BY <1>6, <2>1, StretchConcat
    <2> QED
        BY <1>4, <1>6, <2>2, <2>3
<1>11. /\ IsPage(page)' /\ page'.loading = FALSE /\ page'.earliest = low
       /\ page'.hasMore \/ low = 1
    <2>1. high = 0 => low = before
        BY <1>6, <1>7
    <2> QED
        BY <1>4, <1>5, <1>9, <2>1 DEF IsPageFrom, IsPage
<1>12. low \in 1..(stored + 1) /\ low <= stored
    BY <1>6, <1>7
<1>13. Shown'
    BY <1>2, <1>6, <1>10, <1>11, <1>12 DEF Shown
<1> QED
    BY <1>2, <1>3, <1>11, <1>13, LoadIsOver

LEMMA LoadFailsStep ==
    ASSUME PagesInv, NEW c \in DOMAIN calls, Pages!LoadFails(c)
    PROVE  PagesInv'
<1>1. PICK x : x = calls[c]
    OBVIOUS
<1>2. /\ ~Pages!IsFree(c) /\ calls' = [calls EXCEPT ![c] = [kind |-> "none"]]
      /\ UNCHANGED <<stored, open, shown>>
    BY DEF Pages!LoadFails, Pages!Over
<1>3. Only(c) /\ Waiting(x)
    BY <1>1, <1>2, OnlyLoad
<1>4. CASE x.kind = "older"
    <2>1. page' = [x.old EXCEPT !.loading = FALSE]
        BY <1>1, <1>4 DEF Pages!LoadFails
    <2>2. IsPage(x.old) /\ x.old.earliest = page.earliest /\ x.old.hasMore = page.hasMore
        BY <1>3, <1>4 DEF Waiting
    <2>3. /\ DOMAIN page' = {"earliest", "hasMore", "loading"} /\ page'.loading = FALSE
          /\ page'.earliest = page.earliest /\ page'.hasMore = page.hasMore
        BY <2>1, <2>2 DEF IsPage
    <2>4. IsPage(page)'
        BY <2>2, <2>3 DEF IsPage
    <2>5. Shown'
        BY <1>2, <2>3, <2>4 DEF PagesInv, Shown
    <2> QED
        BY <1>2, <1>3, <2>3, <2>5, LoadIsOver
<1>5. CASE x.kind # "older"
    <2>1. page' = page /\ page.loading = FALSE
        BY <1>1, <1>3, <1>5 DEF Pages!LoadFails, Waiting
    <2>2. Shown'
        BY <1>2, <2>1 DEF PagesInv, Shown
    <2> QED
        BY <1>2, <1>3, <2>1, <2>2, LoadIsOver
<1> QED
    BY <1>4, <1>5

LEMMA PromptStep ==
    ASSUME PagesInv, Pages!Prompt
    PROVE  PagesInv'
<1>1. /\ stored \in Nat /\ stored' = stored + 1 /\ shown' = Append(shown, stored')
      /\ ~Pages!Opening /\ UNCHANGED <<open, page, calls>>
    BY DEF Pages!Prompt, PagesInv, Shown
<1>2. PICK low \in 1..(stored + 1) :
          /\ shown = Pages!Stretch(low, stored)
          /\ page.earliest # 0 => page.earliest = low /\ low <= stored
    BY DEF PagesInv, Shown
<1>3. shown' = Pages!Stretch(low, stored + 1)
    <2>1. low \in Nat /\ low <= stored + 1 /\ low # 0
        BY <1>1
    <2> QED
        BY <1>1, <1>2, <2>1, StretchAppend
<1>4. /\ low \in 1..(stored' + 1) /\ stored' \in Nat
      /\ page'.earliest # 0 => page'.earliest = low /\ low <= stored'
    BY <1>1, <1>2
<1>5. Shown'
    BY <1>1, <1>3, <1>4 DEF PagesInv, Shown
<1>6. ASSUME NEW c \in DOMAIN calls, ~Pages!IsFree(c) PROVE Waiting(calls[c])'
    <2>1. Waiting(calls[c])
        BY <1>6 DEF PagesInv
    <2>2. calls[c].kind = "older" /\ calls[c].before # 0
        BY <1>1, <2>1 DEF Waiting, Pages!Opening
    <2> QED
        BY <1>1, <2>1, <2>2 DEF Waiting, Pages!PageOf, Pages!NewestOf, Pages!NoTurn
<1> QED
    BY <1>1, <1>5, <1>6 DEF PagesInv, Pages!IsFree, Pages!Quiet

LEMMA PagesElsewhere ==
    ASSUME PagesInv, UNCHANGED <<stored, open, shown, page, calls>>
    PROVE  PagesInv'
BY DEF PagesInv, Shown, IsPage, Waiting, Pages!IsFree, Pages!Quiet, Pages!PageOf, Pages!NewestOf

LEMMA PagesStep ==
    ASSUME PagesInv, Patient = TRUE, [MCNext]_<<vars, pageVars, scene>>
    PROVE  PagesInv'
<1>1. CASE Pages!TaskEnds \/ UNCHANGED pageVars
    BY <1>1, PagesElsewhere DEF Pages!TaskEnds, pageVars
<1>2. CASE Pages!Next
    BY <1>1, <1>2, OpenStep, LeaveStep, ReachTopStep, ReadStep, NewestLoadedStep,
        OlderLoadedStep, LoadFailsStep, PromptStep
    DEF Pages!Next
<1> QED
    BY <1>1, <1>2 DEF MCNext

LEMMA PagesInvariant ==
    ASSUME Patient = TRUE
    PROVE  MCSpec => []PagesInv
<1>1. MCInit => PagesInv
    <2> SUFFICES ASSUME Pages!Init PROVE PagesInv
        BY DEF MCInit
    <2>1. /\ stored \in Nat /\ shown = <<>> /\ page = Pages!NoPage
          /\ calls = [c \in 1..MaxCalls |-> [kind |-> "none"]]
        BY PagesAssumption DEF Pages!Init
    <2>2. /\ DOMAIN page = {"earliest", "hasMore", "loading"}
          /\ page.earliest = 0 /\ page.loading = FALSE
          /\ page.hasMore \in BOOLEAN /\ page.loading \in BOOLEAN
        BY <2>1 DEF Pages!NoPage, Pages!NoTurn
    <2>3. <<>> = Pages!Stretch(stored + 1, stored)
        <3>1. /\ stored + 1 \in Nat /\ stored + 1 <= stored + 1
              /\ stored - (stored + 1) + 1 = 0
            BY <2>1
        <3>2. /\ Pages!Stretch(stored + 1, stored) \in Seq(Nat)
              /\ Len(Pages!Stretch(stored + 1, stored)) = 0
            BY <2>1, <3>1, StretchIs
        <3> QED
            BY <3>2
    <2>4. stored + 1 \in 1..(stored + 1) /\ IsPage(page)
        <3>1. stored + 1 \in 1..(stored + 1)
            BY <2>1
        <3>2. IsPage(page)
            BY <2>2 DEF IsPage
        <3> QED
            BY <3>1, <3>2
    <2>5. Shown
        BY <2>1, <2>2, <2>3, <2>4 DEF Shown
    <2> QED
        BY <2>1, <2>2, <2>5 DEF PagesInv, Pages!IsFree
<1> QED
    BY <1>1, PagesStep, PTL DEF MCSpec

\* The turns shown are one stretch of the history, with no turn twice and none
\* left out: a page that is loaded ends where what is shown begins, and what is
\* shown ends with the newest turn (App.jsx: loadOlderSessionMessages,
\* loadSessionMessages, submitPrompt).
THEOREM OneStretchTheorem ==
    ASSUME Patient = TRUE
    PROVE  MCSpec => []OneStretch
<1>1. PagesInv => OneStretch
    BY ShownIsOneStretch DEF PagesInv
<1> QED
    BY <1>1, PagesInvariant, PTL

\* No turn is out of reach of a page that is remembered: it begins where what is
\* shown begins, and says that there is more unless that is the first turn; a
\* load that fails puts it back (App.jsx: loadOlderSessionMessages; messages.js:
\* messagePageStateFromRecords).
THEOREM NothingOutOfReachTheorem ==
    ASSUME Patient = TRUE
    PROVE  MCSpec => []NothingOutOfReach
BY PagesInvariant, ShownIsInReach, PTL

-----------------------------------------------------------------------------
(* Tasks, from the click that starts one to the end the window hears of.    *)

Activity == [task : 0..MaxPrompts, round : Nat, deltas : Nat, retries : Nat,
             folding : BOOLEAN, folds : Nat]

(* What may follow the start of a compaction, and a delta.                  *)
AfterFold  == {"context_compaction_finished", "context_compaction_canceled", "failed", "canceled"}
AfterDelta == {"assistant_message_delta", "model_request_retrying", "model_round_finished"}
                \cup Terminal
Kinds == AfterFold \cup AfterDelta \cup {"task_started", "context_compaction_started"}
Events == [kind : Kinds, task : Prompts]

(* What a session's task does, or did when it ended silently: what the      *)
(* window goes on showing.                                                  *)
Work(s) == IF EndedSilently(s) THEN silent[s] ELSE kernel[s]

Asked(s) == \E n \in Prompts : <<s, n>> \in starts
Refused(s) == \E a \in answers : a.session = s /\ ~a.ok
Busy(s) == Asked(s) \/ Refused(s) \/ queue[s] # <<>> \/ Work(s).task # 0

(* The prompt a session is at work on.                                      *)
WorksOn(s, n) ==
    <<s, n>> \in starts \/ Work(s).task = n \/ (queue[s] # <<>> /\ queue[s][1].task = n)

WorkTypes ==
    /\ kernel \in [Sessions -> Activity] /\ silent \in [Sessions -> Activity]
    /\ \A s \in Sessions : EndedSilently(s) => kernel[s] = Idle

TypeInv ==
    /\ running \subseteq Sessions /\ canceling \subseteq Sessions /\ deleted \subseteq Sessions
    /\ prompts \in 0..MaxPrompts
    /\ WorkTypes /\ heard \in [Sessions -> Activity]
    /\ queue \in [Sessions -> Seq(Events)]
    /\ starts \subseteq Sessions \X Prompts
    /\ answers \subseteq [session : Sessions, task : Prompts, ok : BOOLEAN]
    /\ taskOf \in [Sessions -> 0..MaxPrompts]
    /\ DOMAIN cancels = Sessions /\ DOMAIN sending = Sessions
    /\ DOMAIN loads = Sessions /\ DOMAIN deletes = Sessions
    /\ \A s \in Sessions : cancels[s].call # "none" => cancels[s].task \in Prompts

(* The events on their way to the window are those of one task, from what   *)
(* the window has heard to what the kernel does.                            *)
Line(s) == LET q == queue[s]  k == Work(s)  h == heard[s] IN
    /\ k.task = 0 => ~k.folding /\ k.deltas = 0
    /\ h.task = 0 => h.deltas = 0
    /\ k.deltas > 0 => ~k.folding
    /\ q = <<>> => h.task = k.task
    /\ q # <<>> =>
          /\ h.task = IF q[1].kind = "task_started" THEN 0 ELSE q[1].task
          /\ k.task = IF q[Len(q)].kind \in Terminal THEN 0 ELSE q[1].task
    /\ \A i \in DOMAIN q :
          /\ q[i].task = q[1].task
          /\ i # 1 => q[i].kind # "task_started"
          /\ i # Len(q) => q[i].kind \notin Terminal

(* A start that is asked for or refused is all there is of its session.     *)
Starting(s) ==
    /\ \A n \in Prompts : <<s, n>> \in starts =>
          /\ \A a \in answers : a.session # s
          /\ \A m \in Prompts : <<s, m>> \in starts => m = n
    /\ \A a \in answers : a.session = s =>
          /\ \A b \in answers : b.session = s => a = b
          /\ a.ok => \A n \in Prompts : WorksOn(s, n) => n = a.task
    /\ Asked(s) \/ Refused(s) => taskOf[s] = 0 /\ Work(s).task = 0 /\ queue[s] = <<>>

(* A session is shown as running while there is something to come of it.    *)
Marks(s) ==
    /\ s \notin deleted => (s \in running <=> Busy(s))
    /\ s \in canceling => s \in running /\ s \notin deleted /\ ~Asked(s) /\ ~Refused(s)

Stage(s) == Line(s) /\ Starting(s) /\ Marks(s)

(* A step that is nothing to a session's stage.                             *)
Same(o) ==
    /\ Work(o)' = Work(o) /\ queue'[o] = queue[o] /\ heard'[o] = heard[o]
    /\ taskOf'[o] = taskOf[o]
    /\ o \in running' <=> o \in running
    /\ o \in canceling' <=> o \in canceling
    /\ o \in deleted' <=> o \in deleted
    /\ \A n \in Prompts : <<o, n>> \in starts' <=> <<o, n>> \in starts
    /\ \A a : a.session = o => (a \in answers' <=> a \in answers)

LEMMA SameStage ==
    ASSUME NEW o \in Sessions, Same(o), Stage(o)
    PROVE  Stage(o)'
<1>1. Line(o)'
    BY DEF Same, Stage, Line
<1>2. \A n \in Prompts : WorksOn(o, n)' <=> WorksOn(o, n)
    BY DEF Same, WorksOn
<1>3. (Asked(o)' <=> Asked(o)) /\ (Refused(o)' <=> Refused(o)) /\ (Busy(o)' <=> Busy(o))
    BY DEF Same, Asked, Refused, Busy
<1>4. Starting(o)'
    BY <1>2, <1>3 DEF Same, Stage, Starting
<1>5. Marks(o)'
    BY <1>3 DEF Same, Stage, Marks
<1> QED
    BY <1>1, <1>4, <1>5 DEF Stage

(* The kernel goes on from what it does to k, and tells.                    *)
Tells(s, kind, k) ==
    /\ ~EndedSilently(s) /\ UNCHANGED silent
    /\ kernel[s].task # 0 /\ k \in Activity /\ kind \in Kinds \ {"task_started"}
    /\ k.task = IF kind \in Terminal THEN 0 ELSE kernel[s].task
    /\ k.task = 0 => ~k.folding /\ k.deltas = 0
    /\ k.deltas > 0 => ~k.folding
    /\ kind = "context_compaction_started" => k.folding
    /\ kind = "assistant_message_delta" => k.deltas > 0
    /\ kernel[s].folding => kind \in AfterFold
    /\ kernel[s].deltas > 0 => kind \in AfterDelta
    /\ queue' = [queue EXCEPT ![s] = Append(queue[s], [kind |-> kind, task |-> kernel[s].task])]
    /\ kernel' = [kernel EXCEPT ![s] = k]
    /\ UNCHANGED <<selected, active, view, cache, running, canceling, taskOf, hidden, sending,
                   prompts, starts, answers, loads, deletes, deleted, heard>>

KernelActs(s) ==
    \/ KernelDelta(s) \/ KernelRetry(s) \/ KernelRound(s) \/ KernelFolds(s) \/ KernelFolded(s)
    \/ KernelEnds(s)

USE DEF Work, EndedSilently

LEMMA IdleIs == Idle \in Activity /\ Idle.task = 0 /\ Idle.deltas = 0 /\ Idle.folding = FALSE
BY TranscriptAssumption DEF Idle, Activity

LEMMA KernelTells ==
    ASSUME TypeInv, NEW s \in Sessions, Line(s), KernelActs(s)
    PROVE  \E kind, k : Tells(s, kind, k) /\ UNCHANGED cancels
<1>1. PICK x : x = kernel[s]
    OBVIOUS
<1>2. x \in Activity
    BY <1>1 DEF TypeInv, WorkTypes
<1>a. ~EndedSilently(s) /\ UNCHANGED silent
    <2>1. kernel[s].task # 0 \/ kernel[s].folding
        BY DEF KernelActs, KernelDelta, KernelRetry, KernelRound, KernelFolds, KernelFolded, KernelEnds,
               Streaming
    <2>2. UNCHANGED silent
        BY DEF KernelActs, KernelDelta, KernelRetry, KernelRound, KernelFolds, KernelFolded, KernelEnds
    <2> QED
        BY <2>1, <2>2, IdleIs DEF TypeInv, WorkTypes
<1>3. (x.task = 0 => ~x.folding /\ x.deltas = 0) /\ (x.deltas > 0 => ~x.folding)
    BY <1>1, <1>a DEF Line
<1>4. CASE KernelDelta(s)
    <2>1. PICK k : k = [x EXCEPT !.deltas = @ + 1]
        OBVIOUS
    <2>2. k \in Activity /\ k.task = x.task /\ k.folding = x.folding /\ k.deltas > 0
        BY <1>2, <2>1 DEF Activity
    <2>3. Tells(s, "assistant_message_delta", k) /\ UNCHANGED cancels
        BY <1>1, <1>a, <1>2, <1>3, <1>4, <2>1, <2>2
           DEF KernelDelta, Tells, Tell, Streaming, Kinds, AfterDelta, AfterFold, Terminal, uiVars, callVars
    <2> QED
        BY <2>3
<1>5. CASE KernelRetry(s)
    <2>0. PICK y : y = [x EXCEPT !.deltas = 0]
        OBVIOUS
    <2>1. PICK k : k = [y EXCEPT !.retries = @ + 1]
        OBVIOUS
    <2>2. k \in Activity /\ k.task = x.task /\ k.folding = x.folding /\ k.deltas = 0
        <3>1. y \in Activity /\ y.task = x.task /\ y.folding = x.folding /\ y.deltas = 0
            BY <1>2, <2>0 DEF Activity
        <3> QED
            BY <2>1, <3>1 DEF Activity
    <2>3. kernel' = [kernel EXCEPT ![s] = k]
        BY <1>1, <1>5, <2>0, <2>1 DEF KernelRetry, TypeInv
    <2>4. Tells(s, "model_request_retrying", k) /\ UNCHANGED cancels
        BY <1>1, <1>a, <1>2, <1>3, <1>5, <2>2, <2>3
           DEF KernelRetry, Tells, Tell, Streaming, Kinds, AfterDelta, AfterFold, Terminal, uiVars, callVars
    <2> QED
        BY <2>4
<1>6. CASE KernelRound(s)
    <2>8. PICK z : z = [x EXCEPT !.deltas = 0]
        OBVIOUS
    <2>9. z \in Activity /\ z.task = x.task /\ z.folding = x.folding /\ z.deltas = 0
        BY <1>2, <2>8 DEF Activity
    <2>0. PICK y : y = [z EXCEPT !.retries = 0]
        OBVIOUS
    <2>1. PICK k : k = [y EXCEPT !.round = @ + 1]
        OBVIOUS
    <2>2. k \in Activity /\ k.task = x.task /\ k.folding = x.folding /\ k.deltas = 0
        <3>1. y \in Activity /\ y.task = x.task /\ y.folding = x.folding /\ y.deltas = 0
            BY <2>9, <2>0 DEF Activity
        <3> QED
            BY <2>1, <3>1 DEF Activity
    <2>3. kernel' = [kernel EXCEPT ![s] = k]
        BY <1>1, <1>6, <2>0, <2>1, <2>8 DEF KernelRound, TypeInv
    <2>4. Tells(s, "model_round_finished", k) /\ UNCHANGED cancels
        BY <1>1, <1>a, <1>2, <1>3, <1>6, <2>2, <2>3
           DEF KernelRound, Tells, Tell, Streaming, Kinds, AfterDelta, AfterFold, Terminal, uiVars, callVars
    <2> QED
        BY <2>4
<1>7. CASE KernelFolds(s)
    <2>0. PICK y : y = [x EXCEPT !.folding = TRUE]
        OBVIOUS
    <2>1. PICK k : k = [y EXCEPT !.folds = @ + 1]
        OBVIOUS
    <2>2. k \in Activity /\ k.task = x.task /\ k.folding /\ k.deltas = x.deltas
        <3>1. y \in Activity /\ y.task = x.task /\ y.folding /\ y.deltas = x.deltas
            BY <1>2, <2>0 DEF Activity
        <3> QED
            BY <2>1, <3>1 DEF Activity
    <2>3. kernel' = [kernel EXCEPT ![s] = k]
        BY <1>1, <1>7, <2>0, <2>1 DEF KernelFolds, TypeInv
    <2>4. x.task # 0 /\ ~x.folding /\ x.deltas = 0 /\ k.deltas = 0
        BY <1>1, <1>7, <2>2 DEF KernelFolds, Streaming
    <2>5. Tell(s, "context_compaction_started") /\ UNCHANGED <<cancels, heard, deleted, starts, answers, loads, deletes>>
        BY <1>7 DEF KernelFolds, callVars
    <2>6. UNCHANGED uiVars
        BY <1>7 DEF KernelFolds
    <2>7. Tells(s, "context_compaction_started", k) /\ UNCHANGED cancels
        BY <1>1, <1>a, <2>2, <2>3, <2>4, <2>5, <2>6
           DEF Tells, Tell, Kinds, Terminal, uiVars
    <2> QED
        BY <2>7
<1>8. CASE KernelFolded(s)
    <2>1. PICK k : k = [x EXCEPT !.folding = FALSE]
        OBVIOUS
    <2>2. k \in Activity /\ k.task = x.task /\ k.folding = FALSE /\ k.deltas = x.deltas
        BY <1>2, <2>1 DEF Activity
    <2>3. PICK kind \in {"context_compaction_finished", "context_compaction_canceled"} : Tell(s, kind)
        BY <1>8 DEF KernelFolded
    <2>4. x.deltas = 0
        BY <1>1, <1>2, <1>3, <1>8 DEF KernelFolded, Activity
    <2>5. Tells(s, kind, k) /\ UNCHANGED cancels
        BY <1>1, <1>a, <1>2, <1>3, <1>8, <2>1, <2>2, <2>3, <2>4
           DEF KernelFolded, Tells, Tell, Kinds, AfterDelta, AfterFold, Terminal, uiVars, callVars
    <2> QED
        BY <2>5
<1>9. CASE KernelEnds(s)
    <2>1. PICK kind \in {"finished", "failed"} : (Streaming(s) \/ kind = "failed") /\ Tell(s, kind)
        BY <1>9 DEF KernelEnds
    <2>2. Tells(s, kind, Idle) /\ UNCHANGED cancels
        BY <1>1, <1>a, <1>2, <1>9, <2>1, IdleIs
           DEF KernelEnds, Tells, Tell, Streaming, Kinds, AfterDelta, AfterFold, Terminal, uiVars, callVars
    <2> QED
        BY <2>2
<1> QED
    BY <1>4, <1>5, <1>6, <1>7, <1>8, <1>9 DEF KernelActs

LEMMA TellsWork ==
    ASSUME TypeInv, NEW s \in Sessions, NEW kind, NEW k, Tells(s, kind, k)
    PROVE  /\ Work(s) = kernel[s] /\ Work(s)' = k
           /\ \A o \in Sessions \ {s} : Work(o)' = Work(o)
BY DEF Tells, TypeInv, WorkTypes

LEMMA TellsStage ==
    ASSUME TypeInv, NEW s \in Sessions, Stage(s), NEW kind, NEW k, Tells(s, kind, k)
    PROVE  Stage(s)'
<1> DEFINE q == queue[s]  e == [kind |-> kind, task |-> kernel[s].task]
<1>1. /\ q \in Seq(Events) /\ e.kind = kind /\ e.task = kernel[s].task
      /\ queue'[s] = Append(q, e) /\ kernel'[s] = k /\ heard' = heard
      /\ Work(s) = kernel[s] /\ Work(s)' = k
    BY TellsWork DEF TypeInv, WorkTypes, Tells
<1>2. kind # "task_started" /\ (q # <<>> => q[Len(q)].kind \notin Terminal /\ kernel[s].task = q[1].task)
    BY <1>1 DEF Stage, Line, Tells
<1>3. Line(s)'
    <2>1. /\ Append(q, e) # <<>> /\ Len(Append(q, e)) = Len(q) + 1
          /\ \A i \in 1..Len(q) : Append(q, e)[i] = q[i]
          /\ Append(q, e)[Len(q) + 1] = e
          /\ DOMAIN Append(q, e) = 1..(Len(q) + 1) /\ DOMAIN q = 1..Len(q) /\ Len(q) \in Nat
          /\ q = <<>> <=> Len(q) = 0
        BY <1>1
    <2> DEFINE r == Append(q, e)
    <2>2. /\ q = <<>> => r[1] = e
          /\ q # <<>> => r[1] = q[1] /\ q[Len(q)] = r[Len(q)]
        BY <2>1
    <2> HIDE DEF r, q, e
    <2>3. heard'[s].task = IF r[1].kind = "task_started" THEN 0 ELSE r[1].task
        BY <1>1, <1>2, <2>1, <2>2 DEF Stage, Line, q, e
    <2>4. r[1].task = kernel[s].task
        BY <1>1, <1>2, <2>1, <2>2 DEF e
    <2>5. k.task = IF kind \in Terminal THEN 0 ELSE r[1].task
        BY <2>4 DEF Tells
    <2>6. ASSUME NEW i \in 1..(Len(q) + 1)
          PROVE  /\ r[i].task = r[1].task
                 /\ i # 1 => r[i].kind # "task_started"
                 /\ i # Len(q) + 1 => r[i].kind \notin Terminal
        <3>1. CASE i = Len(q) + 1
            BY <1>1, <1>2, <2>1, <2>4, <3>1 DEF r, e
        <3>2. CASE i \in 1..Len(q)
            BY <1>1, <1>2, <2>1, <2>2, <2>4, <3>2 DEF Stage, Line, q, r
        <3> QED
            BY <2>1, <3>1, <3>2
    <2> QED
        BY <1>1, <2>1, <2>3, <2>5, <2>6 DEF Line, Tells, r, Stage, e
<1>4. UNCHANGED <<starts, answers, running, canceling, taskOf, deleted>> /\ kernel[s].task # 0
    BY DEF Tells
<1>5. ~Asked(s) /\ ~Refused(s) /\ ~Asked(s)' /\ ~Refused(s)'
    BY <1>4 DEF Stage, Starting, Asked, Refused
<1>6. \A n \in Prompts : WorksOn(s, n)' => WorksOn(s, n)
    <2>1. Append(q, e)[1].task = kernel[s].task /\ k.task \in {0, kernel[s].task}
        BY <1>1, <1>2 DEF Tells
    <2> QED
        BY <1>1, <1>4, <2>1 DEF WorksOn, Prompts
<1>7. Starting(s)'
    BY <1>4, <1>5, <1>6 DEF Stage, Starting, Asked, Refused
<1>8. Busy(s) /\ Busy(s)'
    BY <1>1, <1>4 DEF Busy
<1> QED
    BY <1>3, <1>4, <1>5, <1>7, <1>8 DEF Stage, Marks

(* Sessions other than the one a step is about.                             *)
Others(s) == \A o \in Sessions \ {s} : Same(o)

LEMMA TellsOthers ==
    ASSUME TypeInv, NEW s \in Sessions, NEW kind, NEW k, Tells(s, kind, k)
    PROVE  Others(s)
BY DEF Tells, Others, Same, TypeInv

LEMMA TaskStartsStage ==
    ASSUME TypeInv, NEW s \in Sessions, Stage(s), NEW n \in Prompts, KernelStarts(s, n)
    PROVE  Stage(s)' /\ Others(s)
<1> DEFINE e == [kind |-> "task_started", task |-> n]
<1>1. PICK k : k = [Idle EXCEPT !.task = n]
    OBVIOUS
<1>2. k.task = n /\ k.deltas = 0 /\ k.folding = FALSE /\ n # 0
    BY <1>1 DEF Idle, Prompts
<1>3. Work(s).task = 0 /\ queue[s] = <<>> /\ taskOf[s] = 0 /\ ~Refused(s)
    BY DEF KernelStarts, Stage, Starting, Asked, Refused
<1>4. Work(s)' = k /\ queue'[s] = <<e>> /\ heard' = heard /\ taskOf' = taskOf
    BY <1>1, <1>3, IdleIs DEF KernelStarts, TypeInv, WorkTypes, uiVars
<1>5. Line(s)'
    <2>1. Len(<<e>>) = 1 /\ <<e>>[1] = e /\ DOMAIN <<e>> = {1} /\ <<e>> # <<>>
        OBVIOUS
    <2>2. heard[s].task = 0 /\ heard[s].deltas = 0
        BY <1>3 DEF Stage, Line
    <2> QED
        BY <1>2, <1>4, <2>1, <2>2 DEF Line, Terminal
<1>20. PICK r : r = [session |-> s, task |-> n, ok |-> TRUE]
    OBVIOUS
<1>21. r.session = s /\ r.task = n /\ r.ok
    BY <1>20
<1>6. /\ starts' = starts \ {<<s, n>>} /\ <<s, n>> \in starts
      /\ answers' = answers \cup {r}
      /\ UNCHANGED <<running, canceling, deleted>>
    BY <1>20 DEF KernelStarts, uiVars
<1>7. \A a \in answers' : a.session = s => a = r
    BY <1>6 DEF Stage, Starting
<1>22. \A m \in Prompts : <<s, m>> \notin starts'
    BY <1>6 DEF Stage, Starting
<1>8. ~Asked(s)' /\ ~Refused(s)'
    BY <1>7, <1>21, <1>22 DEF Asked, Refused
<1>9. \A m \in Prompts : WorksOn(s, m)' => m = n
    BY <1>2, <1>4, <1>8 DEF WorksOn, Asked, Prompts
<1>10. Starting(s)'
    BY <1>7, <1>8, <1>9, <1>21, <1>22 DEF Starting, Asked
<1>11. Busy(s) /\ Busy(s)' /\ Asked(s)
    BY <1>4, <1>6 DEF Busy, Asked
<1>12. Marks(s)'
    BY <1>6, <1>8, <1>11 DEF Stage, Marks
<1>13. Others(s)
    BY DEF KernelStarts, Others, Same, TypeInv, uiVars
<1> QED
    BY <1>5, <1>10, <1>12, <1>13 DEF Stage

LEMMA TaskRefusedStage ==
    ASSUME TypeInv, NEW s \in Sessions, Stage(s), NEW n \in Prompts, KernelRefuses(s, n)
    PROVE  Stage(s)' /\ Others(s)
<1>20. PICK r : r = [session |-> s, task |-> n, ok |-> FALSE]
    OBVIOUS
<1>21. r.session = s /\ r.task = n /\ ~r.ok
    BY <1>20
<1>1. /\ starts' = starts \ {<<s, n>>} /\ <<s, n>> \in starts
      /\ answers' = answers \cup {r}
      /\ UNCHANGED <<running, canceling, deleted, kernel, silent, queue, heard, taskOf>>
    BY <1>20 DEF KernelRefuses, uiVars, kernelVars
<1>2. Work(s).task = 0 /\ queue[s] = <<>> /\ taskOf[s] = 0 /\ Asked(s)
    BY <1>1 DEF Stage, Starting, Asked
<1>3. \A a \in answers' : a.session = s => a = r
    BY <1>1 DEF Stage, Starting
<1>22. \A m \in Prompts : <<s, m>> \notin starts'
    BY <1>1 DEF Stage, Starting
<1>4. ~Asked(s)' /\ Refused(s)'
    BY <1>1, <1>21, <1>22 DEF Asked, Refused
<1>5. Starting(s)'
    BY <1>1, <1>2, <1>3, <1>21, <1>22 DEF Starting, Asked
<1>6. Marks(s)'
    BY <1>1, <1>2, <1>4 DEF Stage, Marks, Busy
<1>7. Line(s)'
    BY <1>1 DEF Stage, Line
<1>8. Others(s)
    BY <1>1, <1>21 DEF Others, Same
<1> QED
    BY <1>5, <1>6, <1>7, <1>8 DEF Stage

LEMMA StartAnsweredStage ==
    ASSUME TypeInv, NEW a \in answers, Stage(a.session), StartAnswered(a)
    PROVE  Stage(a.session)' /\ Others(a.session)
<1>1. PICK s \in Sessions : s = a.session
    BY DEF TypeInv
<1>2. /\ answers' = answers \ {a}
      /\ UNCHANGED <<starts, deleted, kernel, silent, queue, heard>>
      /\ \A o \in Sessions \ {s} : taskOf'[o] = taskOf[o]
    BY <1>1 DEF StartAnswered, kernelVars, TypeInv
<1>3. \A b \in answers' : b.session # s
    BY <1>1, <1>2 DEF Stage, Starting
<1>4. ~Asked(s) /\ ~Asked(s)' /\ ~Refused(s)'
    BY <1>1, <1>2, <1>3 DEF Stage, Starting, Asked, Refused
<1>5. Line(s)' /\ Starting(s)'
    BY <1>1, <1>2, <1>3, <1>4 DEF Stage, Line, Starting, Asked
<1>6. CASE a.ok
    <2>1. UNCHANGED <<running, canceling>> /\ ~Refused(s)
        BY <1>1, <1>6 DEF StartAnswered, Stage, Starting, Refused
    <2>2. Busy(s)' <=> Busy(s)
        BY <1>2, <1>4, <2>1 DEF Busy
    <2>3. Marks(s)'
        BY <1>1, <1>2, <1>4, <2>1, <2>2 DEF Stage, Marks
    <2>4. Others(s)
        BY <1>1, <1>2, <2>1 DEF Others, Same
    <2> QED
        BY <1>1, <1>5, <2>3, <2>4 DEF Stage
<1>7. CASE ~a.ok
    <2>1. running' = running \ {s} /\ canceling' = canceling \ {s} /\ Refused(s)
        BY <1>1, <1>7 DEF StartAnswered, Refused
    <2>2. ~Busy(s)'
        BY <1>1, <1>2, <1>4, <2>1 DEF Busy, Stage, Starting
    <2>3. Marks(s)'
        BY <2>1, <2>2 DEF Marks
    <2>4. Others(s)
        BY <1>1, <1>2, <2>1 DEF Others, Same
    <2> QED
        BY <1>1, <1>5, <2>3, <2>4 DEF Stage
<1> QED
    BY <1>6, <1>7

LEMMA HeardAfterIs ==
    ASSUME NEW h \in Activity, NEW e \in Events
    PROVE  /\ HeardAfter(h, e) \in Activity
           /\ HeardAfter(h, e).task = IF e.kind = "task_started" THEN e.task
                                      ELSE IF e.kind \in Terminal THEN 0 ELSE h.task
           /\ HeardAfter(h, e).deltas =
                 IF e.kind = "assistant_message_delta" THEN h.deltas + 1
                 ELSE IF e.kind \in {"task_started", "model_request_retrying", "model_round_finished"}
                           \cup Terminal THEN 0
                 ELSE h.deltas
<1>1. CASE e.kind = "task_started"
    <2>1. PICK k : k = [Idle EXCEPT !.task = e.task]
        OBVIOUS
    <2>2. k \in Activity /\ k.task = e.task /\ k.deltas = 0
        BY <2>1, IdleIs DEF Events, Prompts, Activity
    <2>3. HeardAfter(h, e) = k
        BY <1>1, <2>1 DEF HeardAfter, Terminal
    <2>4. e.kind # "assistant_message_delta"
        BY <1>1
    <2> QED
        BY <1>1, <2>2, <2>3, <2>4
<1>2. CASE e.kind = "assistant_message_delta"
    <2>1. PICK k : k = [h EXCEPT !.deltas = @ + 1]
        OBVIOUS
    <2>2. k \in Activity /\ k.task = h.task /\ k.deltas = h.deltas + 1
        BY <2>1 DEF Activity
    <2> QED
        BY <1>2, <2>1, <2>2 DEF HeardAfter, Terminal
<1>3. CASE e.kind = "model_request_retrying"
    <2>1. PICK k : k = [h EXCEPT !.deltas = 0]
        OBVIOUS
    <2>2. k \in Activity /\ k.task = h.task /\ k.deltas = 0
        BY <2>1 DEF Activity
    <2> QED
        BY <1>3, <2>1, <2>2 DEF HeardAfter, Terminal
<1>4. CASE e.kind = "model_round_finished"
    <2>1. PICK y : y = [h EXCEPT !.deltas = 0]
        OBVIOUS
    <2>2. y \in Activity /\ y.task = h.task /\ y.deltas = 0
        BY <2>1 DEF Activity
    <2>3. PICK k : k = [y EXCEPT !.round = @ + 1]
        OBVIOUS
    <2>4. k \in Activity /\ k.task = h.task /\ k.deltas = 0
        BY <2>2, <2>3 DEF Activity
    <2>5. HeardAfter(h, e) = k
        BY <1>4, <2>1, <2>3 DEF HeardAfter, Terminal
    <2>6. /\ e.kind \notin Terminal /\ e.kind # "task_started"
          /\ e.kind \in {"task_started", "model_request_retrying", "model_round_finished"} \cup Terminal
          /\ e.kind # "assistant_message_delta"
        BY <1>4 DEF Terminal
    <2> QED
        BY <2>4, <2>5, <2>6
<1>5. CASE e.kind \in Terminal
    BY <1>5, IdleIs DEF HeardAfter, Terminal
<1>6. CASE e.kind \notin {"task_started", "assistant_message_delta", "model_request_retrying",
                           "model_round_finished"} \cup Terminal
    BY <1>6 DEF HeardAfter
<1> QED
    BY <1>1, <1>2, <1>3, <1>4, <1>5, <1>6

(* An index that is not the last of the tail is not the last of the queue.  *)
LEMMA NextIndex ==
    ASSUME NEW n \in Nat, NEW i \in Nat
    PROVE  i # n - 1 => i + 1 # n
    OBVIOUS

LEMMA HandleEventStage ==
    ASSUME TypeInv, NEW s \in Sessions, Stage(s), HandleEvent(s)
    PROVE  Stage(s)' /\ Others(s)
<1>1. PICK q : q = queue[s]
    OBVIOUS
<1>2. PICK e : e = Head(q)
    OBVIOUS
<1>3. q \in Seq(Events) /\ q # <<>> /\ e = q[1] /\ e \in Events
    BY <1>1, <1>2 DEF HandleEvent, TypeInv
<1>4. /\ queue' = [queue EXCEPT ![s] = Tail(q)]
      /\ heard' = [heard EXCEPT ![s] = HeardAfter(heard[s], e)]
      /\ taskOf' = [taskOf EXCEPT ![s] = IF e.kind \in Terminal THEN 0 ELSE e.task]
      /\ running' = RunningAfter(e, s) /\ canceling' = CancelingAfter(e, s)
      /\ UNCHANGED <<starts, answers, deleted, kernel, silent>>
    BY <1>1, <1>2 DEF HandleEvent, callVars, TypeInv
<1>5. /\ running' = IF e.kind = "task_started" THEN running \cup {s}
                    ELSE IF e.kind \in Terminal THEN running \ {s} ELSE running
      /\ canceling' \subseteq canceling /\ (e.kind \in Terminal => s \notin canceling')
      /\ \A o \in Sessions \ {s} : o \in canceling' <=> o \in canceling
    BY <1>4 DEF RunningAfter, CancelingAfter, Terminal
<1>6. PICK h : h = HeardAfter(heard[s], e)
    OBVIOUS
<1>7. /\ h.task = IF e.kind = "task_started" THEN e.task
                  ELSE IF e.kind \in Terminal THEN 0 ELSE heard[s].task
      /\ e.kind \in Terminal => h.deltas = 0
    BY <1>3, <1>6, HeardAfterIs DEF TypeInv, Terminal
<1>8. /\ queue'[s] = Tail(q) /\ heard'[s] = h /\ Work(s)' = Work(s)
      /\ taskOf'[s] = IF e.kind \in Terminal THEN 0 ELSE e.task
    BY <1>4, <1>6 DEF TypeInv
<1>9. /\ Tail(q) \in Seq(Events) /\ Len(Tail(q)) = Len(q) - 1 /\ Len(q) \in Nat \ {0}
      /\ DOMAIN Tail(q) = 1..(Len(q) - 1) /\ DOMAIN q = 1..Len(q)
      /\ \A i \in 1..(Len(q) - 1) : Tail(q)[i] = q[i + 1]
      /\ Tail(q) = <<>> <=> Len(q) = 1
    <2>1. /\ Tail(q) \in Seq(Events) /\ Len(Tail(q)) = Len(q) - 1
          /\ \A i \in 1..Len(Tail(q)) : Tail(q)[i] = q[i + 1]
        BY <1>3, HeadTailProperties
    <2>2. Len(q) \in Nat \ {0} /\ DOMAIN q = 1..Len(q) /\ Len(q) - 1 \in Nat
        BY <1>3, EmptySeq
    <2>3. DOMAIN Tail(q) = 1..(Len(q) - 1)
        BY <2>1
    <2>4. Tail(q) = <<>> <=> Len(q) = 1
        BY <2>1, <2>2, EmptySeq
    <2> QED
        BY <2>1, <2>2, <2>3, <2>4
<1>10. h.task = 0 \/ h.task = e.task
    BY <1>1, <1>3, <1>7 DEF Stage, Line
<1>11. /\ Work(s).task = IF q[Len(q)].kind \in Terminal THEN 0 ELSE e.task
       /\ \A i \in 1..Len(q) : /\ q[i].task = e.task
                               /\ i # 1 => q[i].kind # "task_started"
                               /\ i # Len(q) => q[i].kind \notin Terminal
    BY <1>1, <1>3, <1>9 DEF Stage, Line
<1>12. h.task = IF e.kind \in Terminal THEN 0 ELSE e.task
    BY <1>1, <1>3, <1>7 DEF Stage, Line, Terminal
<1>13. h.task = 0 => h.deltas = 0
    BY <1>3, <1>7, <1>12 DEF Events, Prompts
<1>14. Line(s)'
    <2>1. CASE Len(q) = 1
        <3>1. Tail(q) = <<>> /\ DOMAIN Tail(q) = {} /\ h.task = Work(s).task
            BY <1>9, <1>11, <1>12, <2>1, <1>3
        <3> QED
            BY <1>8, <1>13, <3>1 DEF Stage, Line
    <2>2. CASE Len(q) # 1
        <3>1. /\ Tail(q) # <<>> /\ 1 \in 1..(Len(q) - 1) /\ Len(q) - 1 \in 1..(Len(q) - 1)
              /\ Tail(q)[1] = q[2] /\ Tail(q)[Len(q) - 1] = q[Len(q)]
            BY <1>9, <2>2
        <3>0. 1 \in 1..Len(q) /\ 2 \in 1..Len(q) /\ Len(q) # 1
            BY <1>9, <2>2
        <3>2. e.kind \notin Terminal /\ q[2].kind # "task_started" /\ q[2].task = e.task
            BY <1>3, <1>11, <3>0
        <3>3. \A i \in 1..(Len(q) - 1) :
                  /\ Tail(q)[i].task = e.task /\ Tail(q)[i].kind # "task_started"
                  /\ i # Len(q) - 1 => Tail(q)[i].kind \notin Terminal
            <4> TAKE i \in 1..(Len(q) - 1)
            <4>1. i + 1 \in 1..Len(q) /\ i + 1 # 1 /\ Tail(q)[i] = q[i + 1]
                BY <1>9
            <4>2. i # Len(q) - 1 => i + 1 # Len(q)
                <5>1. Len(q) \in Nat /\ i \in Nat
                    BY <1>9
                <5> QED
                    BY <5>1, NextIndex
            <4> QED
                BY <1>11, <4>1, <4>2
        <3> HIDE <1>1
        <3>4. PICK r : r = Tail(q)
            OBVIOUS
        <3>5. /\ h.task = IF r[1].kind = "task_started" THEN 0 ELSE r[1].task
              /\ Work(s).task = IF r[Len(r)].kind \in Terminal THEN 0 ELSE r[1].task
            BY <1>9, <1>11, <1>12, <3>1, <3>2, <3>4
        <3> QED
            BY <1>8, <1>9, <1>13, <3>1, <3>3, <3>4, <3>5 DEF Stage, Line
    <2> QED
        BY <2>1, <2>2
<1>15. ~Asked(s) /\ ~Refused(s) /\ ~Asked(s)' /\ ~Refused(s)'
    BY <1>1, <1>3, <1>4 DEF Stage, Starting, Asked, Refused
<1>16. \A n \in Prompts : WorksOn(s, n)' => WorksOn(s, n)
    <2>1. Tail(q) # <<>> => Tail(q)[1].task = e.task
        BY <1>9, <1>11
    <2> QED
        BY <1>1, <1>3, <1>4, <1>8, <2>1 DEF WorksOn
<1>17. Starting(s)'
    BY <1>4, <1>15, <1>16 DEF Stage, Starting, Asked, Refused
<1>18. Busy(s) /\ (Busy(s)' <=> e.kind \notin Terminal)
    BY <1>1, <1>3, <1>8, <1>9, <1>11, <1>15 DEF Busy, Events, Prompts
<1>19. Marks(s)'
    BY <1>4, <1>5, <1>15, <1>18 DEF Stage, Marks, Terminal
<1>20. Others(s)
    BY <1>4, <1>5 DEF Others, Same, TypeInv
<1> QED
    BY <1>14, <1>17, <1>19, <1>20 DEF Stage

(* What a user who waits does not have on its way at the same time.         *)
Waits(s) ==
    /\ sending[s] \in {0, 1}
    /\ sending[s] = 1 =>
          /\ selected = s /\ s \notin running /\ s \notin deleted /\ loads[s].call = "none"
          /\ ~Asked(s) /\ \A a \in answers : a.session # s
          /\ \A o \in Sessions : deletes[o].call = "none"
    /\ deletes[s].call # "none" =>
          /\ deletes[s].call = "asked" /\ (deletes[s].open <=> selected = s) /\ s \notin deleted
          /\ \A o \in Sessions : sending[o] = 0 /\ (o # s => deletes[o].call = "none")
    /\ loads[s].call # "none" => s \notin running \/ s \in deleted

Place == active = selected /\ selected \in (Sessions \ deleted) \cup {Nobody}

CoreInv == TypeInv /\ Place /\ \A s \in Sessions : Stage(s) /\ Waits(s)

LEMMA AtMostOneSends ==
    ASSUME \A s \in Sessions : Waits(s), NEW s \in Sessions, sending[s] > 0
    PROVE  sending[s] = 1 /\ \A o \in Sessions \ {s} : sending[o] = 0
BY DEF Waits

LEMMA StaysWaiting ==
    ASSUME \A s \in Sessions : Waits(s),
           UNCHANGED <<selected, sending, deletes, deleted>>,
           \A s \in Sessions : loads'[s].call # "none" => loads[s].call # "none",
           \A s \in Sessions \ (running \cup deleted) :
              /\ s \notin running' /\ (\A n \in Prompts : <<s, n>> \in starts' => <<s, n>> \in starts)
              /\ \A a \in answers' : a.session = s => a \in answers
    PROVE  \A s \in Sessions : Waits(s)'
BY DEF Waits, Asked

-----------------------------------------------------------------------------
(* The steps of the window and of the user.                                 *)

Resting ==
    /\ UNCHANGED <<running, canceling, taskOf, starts, answers, deleted, queue, heard>>
    /\ \A s \in Sessions : Work(s)' = Work(s)

LEMMA RestingStage ==
    ASSUME Resting, \A s \in Sessions : Stage(s)
    PROVE  \A s \in Sessions : Stage(s)'
<1> TAKE o \in Sessions
<1>1. Same(o)
    BY DEF Resting, Same
<1> QED
    BY <1>1, SameStage

LEMMA OthersStage ==
    ASSUME NEW s \in Sessions, Others(s), Stage(s)', \A o \in Sessions : Stage(o)
    PROVE  \A o \in Sessions : Stage(o)'
<1> TAKE o \in Sessions
<1>1. CASE o = s
    BY <1>1
<1>2. CASE o # s
    BY <1>2, SameStage DEF Others
<1> QED
    BY <1>1, <1>2

LEMMA SendStage ==
    ASSUME CoreInv, NEW s \in Sessions, Send(s)
    PROVE  Stage(s)' /\ Others(s) /\ prompts + 1 \in Prompts
<1>1. PICK n : n = prompts + 1
    OBVIOUS
<1>2. n \in Prompts
    BY <1>1, TranscriptAssumption DEF Send, CoreInv, TypeInv, Prompts
<1>3. /\ running' = running \cup {s} /\ canceling' = canceling \ {s}
      /\ taskOf' = [taskOf EXCEPT ![s] = 0] /\ starts' = starts \cup {<<s, n>>}
      /\ UNCHANGED <<answers, deleted, kernel, silent, queue, heard>>
    BY <1>1 DEF Send, kernelVars
<1>4. s \notin running /\ s \notin deleted /\ ~Asked(s) /\ \A a \in answers : a.session # s
    BY AtMostOneSends DEF CoreInv, Waits, Send
<1>5. Work(s).task = 0 /\ queue[s] = <<>>
    BY <1>4 DEF CoreInv, Stage, Marks, Busy
<1>6. Asked(s)' /\ ~Refused(s)' /\ \A m \in Prompts : <<s, m>> \in starts' <=> m = n
    BY <1>2, <1>3, <1>4 DEF Asked, Refused
<1>7. taskOf'[s] = 0
    BY <1>3 DEF CoreInv, TypeInv
<1>8. Starting(s)'
    BY <1>3, <1>4, <1>5, <1>6, <1>7 DEF Starting
<1>9. Marks(s)' /\ Line(s)'
    BY <1>3, <1>6 DEF CoreInv, Stage, Marks, Line, Busy
<1>10. Others(s)
    BY <1>2, <1>3 DEF Others, Same, CoreInv, TypeInv
<1> QED
    BY <1>1, <1>2, <1>8, <1>9, <1>10 DEF Stage

LEMMA SessionDeletedStage ==
    ASSUME CoreInv, NEW s \in Sessions, SessionDeleted(s)
    PROVE  Stage(s)' /\ Others(s)
<1>1. /\ running' = running \ {s} /\ canceling' = canceling \ {s} /\ deleted' = deleted \cup {s}
      /\ taskOf' = [taskOf EXCEPT ![s] = 0]
      /\ UNCHANGED <<starts, answers, kernel, silent, queue, heard>>
    BY DEF SessionDeleted
<1>2. taskOf'[s] = 0 /\ (Asked(s)' <=> Asked(s)) /\ (Refused(s)' <=> Refused(s))
    BY <1>1 DEF CoreInv, TypeInv, Asked, Refused
<1>3. Line(s)' /\ Starting(s)' /\ Marks(s)'
    BY <1>1, <1>2 DEF CoreInv, Stage, Line, Starting, Marks, WorksOn
<1>4. Others(s)
    BY <1>1 DEF Others, Same, CoreInv, TypeInv
<1> QED
    BY <1>3, <1>4 DEF Stage

LEMMA StopStage ==
    ASSUME CoreInv, NEW s \in Sessions, Stop(s) \/ StopAnswered(s)
    PROVE  Stage(s)' /\ Others(s)
<1>1. /\ UNCHANGED <<running, taskOf, starts, answers, deleted, kernel, silent, queue, heard>>
      /\ \A o \in Sessions \ {s} : o \in canceling' <=> o \in canceling
      /\ s \in canceling' => s \in canceling \/ Stop(s)
    BY DEF Stop, StopAnswered, kernelVars
<1>2. (Asked(s)' <=> Asked(s)) /\ (Refused(s)' <=> Refused(s)) /\ (Busy(s)' <=> Busy(s))
    BY <1>1 DEF Asked, Refused, Busy
<1>3. Stop(s) => s \in running /\ s \notin deleted /\ ~Asked(s) /\ ~Refused(s)
    BY TranscriptAssumption DEF Stop, StopEnabled, CoreInv, Place, Stage, Starting
<1>4. Line(s)' /\ Starting(s)' /\ Marks(s)'
    BY <1>1, <1>2, <1>3 DEF CoreInv, Stage, Line, Starting, Marks, WorksOn
<1>5. Others(s)
    BY <1>1 DEF Others, Same
<1> QED
    BY <1>4, <1>5 DEF Stage

LEMMA CancelsTells ==
    ASSUME TypeInv, NEW s \in Sessions, Line(s), KernelCancels(s)
    PROVE  /\ \/ /\ Resting /\ WorkTypes'
                 /\ UNCHANGED <<selected, active, view, cache, hidden, sending, prompts, loads, deletes>>
              \/ Tells(s, "canceled", Idle)
           /\ \E call : cancels' = [cancels EXCEPT ![s].call = call]
<1>1. \E call : cancels' = [cancels EXCEPT ![s].call = call]
    BY DEF KernelCancels
<1>2. UNCHANGED <<uiVars, starts, answers, loads, deletes, deleted, turns, heard>>
    BY DEF KernelCancels
<1>3. CASE UNCHANGED <<kernel, silent, queue>>
    BY <1>1, <1>2, <1>3 DEF Resting, uiVars, TypeInv, WorkTypes
<1>4. CASE kernel[s].task = cancels[s].task /\ TaskCanceled(s) /\ ~UNCHANGED <<kernel, silent, queue>>
    <2>1. cancels[s].task \in Prompts
        BY DEF KernelCancels, TypeInv
    <2>2. kernel[s].task # 0
        BY <1>4, <2>1 DEF Prompts
    <2>3. ~EndedSilently(s)
        BY <2>2, IdleIs DEF TypeInv, WorkTypes
    <2>4. CASE kernel' = [kernel EXCEPT ![s] = Idle] /\ Tell(s, "canceled") /\ UNCHANGED silent
        <3>1. Tells(s, "canceled", Idle)
            BY <1>2, <2>2, <2>3, <2>4, IdleIs DEF Tells, Tell, Kinds, AfterDelta, AfterFold, Terminal, uiVars
        <3> QED
            BY <1>1, <3>1
    <2>5. CASE /\ kernel' = [kernel EXCEPT ![s] = Idle]
               /\ silent' = [silent EXCEPT ![s] = kernel[s]] /\ UNCHANGED queue
        <3>1. WorkTypes'
            BY <2>2, <2>5, IdleIs DEF TypeInv, WorkTypes
        <3>2. \A o \in Sessions : Work(o)' = Work(o)
            BY <2>2, <2>3, <2>5 DEF TypeInv, WorkTypes
        <3> QED
            BY <1>1, <1>2, <2>5, <3>1, <3>2 DEF Resting, uiVars
    <2> QED
        BY <1>4, <2>4, <2>5 DEF TaskCanceled
<1> QED
    BY <1>3, <1>4 DEF KernelCancels

-----------------------------------------------------------------------------
(* Every step keeps the types.                                              *)

LEMMA ActsTypes ==
    ASSUME TypeInv, NEW s \in Sessions, NEW kind, NEW k, Tells(s, kind, k),
           NEW call, cancels' = cancels \/ (cancels' = [cancels EXCEPT ![s].call = call] /\ cancels[s].call # "none")
    PROVE  TypeInv'
<1>1. PICK e : e = [kind |-> kind, task |-> kernel[s].task]
    OBVIOUS
<1>2. e \in Events
    <2>1. kernel[s].task \in Prompts
        <3>1. PICK x \in Activity : x = kernel[s]
            BY DEF TypeInv, WorkTypes
        <3>2. x.task \in 0..MaxPrompts /\ x.task # 0
            BY <3>1 DEF Activity, Tells
        <3> QED
            BY <3>1, <3>2, TranscriptAssumption DEF Prompts
    <2> QED
        BY <1>1, <2>1 DEF Events, Tells
<1>3. queue' \in [Sessions -> Seq(Events)]
    <2>1. queue' = [queue EXCEPT ![s] = Append(queue[s], e)]
        BY <1>1 DEF Tells
    <2>2. Append(queue[s], e) \in Seq(Events)
        BY <1>2 DEF TypeInv
    <2> QED
        BY <2>1, <2>2 DEF TypeInv
<1>4. kernel' \in [Sessions -> Activity]
    BY DEF TypeInv, WorkTypes, Tells
<1>5. DOMAIN cancels' = Sessions /\ \A o \in Sessions : cancels'[o].call # "none" => cancels'[o].task \in Prompts
    <2>1. CASE cancels' = cancels
        BY <2>1 DEF TypeInv
    <2>2. CASE cancels' = [cancels EXCEPT ![s].call = call] /\ cancels[s].call # "none"
        <3>1. cancels'[s].task = cancels[s].task /\ cancels[s].task \in Prompts
            BY <2>2 DEF TypeInv
        <3> QED
            BY <2>2, <3>1 DEF TypeInv
    <2> QED
        BY <2>1, <2>2
<1> QED
    BY <1>3, <1>4, <1>5 DEF TypeInv, WorkTypes, Tells

LEMMA StartTypes ==
    ASSUME TypeInv, NEW s \in Sessions,
           \/ \E n \in Prompts : KernelStarts(s, n) \/ KernelRefuses(s, n)
           \/ \E a \in answers : a.session = s /\ StartAnswered(a)
    PROVE  TypeInv'
<1>1. ASSUME NEW n \in Prompts, KernelStarts(s, n)
      PROVE  TypeInv'
    <2>1. PICK k : k = [Idle EXCEPT !.task = n]
        OBVIOUS
    <2>2. k \in Activity
        BY <2>1, IdleIs DEF Activity, Prompts
    <2>3. kernel' \in [Sessions -> Activity]
        BY <1>1, <2>1, <2>2 DEF KernelStarts, TypeInv, WorkTypes
    <2>4. PICK e : e = [kind |-> "task_started", task |-> n]
        OBVIOUS
    <2>5. e \in Events
        BY <2>4 DEF Events, Kinds
    <2>6. queue' \in [Sessions -> Seq(Events)]
        <3>1. queue' = [queue EXCEPT ![s] = Append(queue[s], e)]
            BY <1>1, <2>4 DEF KernelStarts, TypeInv
        <3>2. Append(queue[s], e) \in Seq(Events)
            BY <2>5 DEF TypeInv
        <3> QED
            BY <3>1, <3>2 DEF TypeInv
    <2>7. starts' \subseteq Sessions \X Prompts
        BY <1>1 DEF KernelStarts, TypeInv
    <2>8. answers' \subseteq [session : Sessions, task : Prompts, ok : BOOLEAN]
        <3>1. PICK r : r = [session |-> s, task |-> n, ok |-> TRUE]
            OBVIOUS
        <3>2. r \in [session : Sessions, task : Prompts, ok : BOOLEAN]
            BY <3>1
        <3>3. answers' = answers \cup {r}
            BY <1>1, <3>1 DEF KernelStarts
        <3> QED
            BY <3>2, <3>3 DEF TypeInv
    <2>9. UNCHANGED <<running, canceling, deleted, prompts, heard, taskOf, cancels, sending, loads, deletes>>
        BY <1>1 DEF KernelStarts, uiVars
    <2>10. WorkTypes'
        <3>1. silent' = [silent EXCEPT ![s] = Idle]
            BY <1>1 DEF KernelStarts
        <3>2. silent' \in [Sessions -> Activity] /\ silent'[s].task = 0
            BY <3>1, IdleIs DEF TypeInv, WorkTypes
        <3>3. \A o \in Sessions \ {s} : silent'[o] = silent[o] /\ kernel'[o] = kernel[o]
            BY <1>1, <3>1 DEF KernelStarts, TypeInv, WorkTypes
        <3> QED
            BY <2>3, <3>2, <3>3 DEF TypeInv, WorkTypes
    <2> QED
        BY <2>6, <2>7, <2>8, <2>9, <2>10 DEF TypeInv
<1>2. ASSUME NEW n \in Prompts, KernelRefuses(s, n)
      PROVE  TypeInv'
    <2>1. UNCHANGED <<running, canceling, deleted, prompts, heard, taskOf, cancels, sending, loads, deletes, kernel, silent, queue>>
        BY <1>2 DEF KernelRefuses, uiVars, kernelVars
    <2>2. starts' \subseteq Sessions \X Prompts
        BY <1>2 DEF KernelRefuses, TypeInv
    <2>3. answers' \subseteq [session : Sessions, task : Prompts, ok : BOOLEAN]
        <3>1. PICK r : r = [session |-> s, task |-> n, ok |-> FALSE]
            OBVIOUS
        <3>2. r \in [session : Sessions, task : Prompts, ok : BOOLEAN]
            BY <3>1
        <3>3. answers' = answers \cup {r}
            BY <1>2, <3>1 DEF KernelRefuses
        <3> QED
            BY <3>2, <3>3 DEF TypeInv
    <2> QED
        BY <2>1, <2>2, <2>3 DEF TypeInv, WorkTypes
<1>3. ASSUME NEW a \in answers, a.session = s, StartAnswered(a)
      PROVE  TypeInv'
    <2>1. UNCHANGED <<deleted, prompts, heard, cancels, sending, starts, loads, deletes, kernel, silent, queue>>
        BY <1>3 DEF StartAnswered, kernelVars
    <2>2. taskOf' \in [Sessions -> 0..MaxPrompts]
        <3>1. a.session \in Sessions /\ a.task \in Prompts
            BY DEF TypeInv
        <3>2. \E t \in 0..MaxPrompts : taskOf' = [taskOf EXCEPT ![a.session] = t]
            BY <1>3, <3>1, TranscriptAssumption DEF StartAnswered, Prompts
        <3> QED
            BY <3>2 DEF TypeInv
    <2>3. running' \subseteq running /\ canceling' \subseteq canceling /\ answers' \subseteq answers
        BY <1>3 DEF StartAnswered
    <2> QED
        BY <2>1, <2>2, <2>3 DEF TypeInv, WorkTypes
<1> QED
    BY <1>1, <1>2, <1>3

LEMMA EventTypes ==
    ASSUME TypeInv, NEW s \in Sessions, HandleEvent(s)
    PROVE  TypeInv'
<1>1. PICK q : q = queue[s]
    OBVIOUS
<1>2. PICK e : e = Head(q)
    OBVIOUS
<1>3. q \in Seq(Events) /\ q # <<>> /\ e \in Events
    BY <1>1, <1>2 DEF HandleEvent, TypeInv
<1>4. /\ queue' = [queue EXCEPT ![s] = Tail(q)]
      /\ heard' = [heard EXCEPT ![s] = HeardAfter(heard[s], e)]
      /\ taskOf' = [taskOf EXCEPT ![s] = IF e.kind \in Terminal THEN 0 ELSE e.task]
      /\ running' = RunningAfter(e, s) /\ canceling' = CancelingAfter(e, s)
      /\ UNCHANGED <<starts, answers, deleted, kernel, silent, prompts, cancels, sending, loads, deletes>>
    BY <1>1, <1>2 DEF HandleEvent, callVars, TypeInv
<1>5. running' \subseteq Sessions /\ canceling' \subseteq Sessions
    BY <1>4 DEF RunningAfter, CancelingAfter, Terminal, TypeInv
<1>6. queue' \in [Sessions -> Seq(Events)]
    <2>1. Tail(q) \in Seq(Events)
        BY <1>3, HeadTailProperties
    <2> QED
        BY <1>4, <2>1 DEF TypeInv
<1>7. heard' \in [Sessions -> Activity]
    <2>1. HeardAfter(heard[s], e) \in Activity
        BY <1>3, HeardAfterIs DEF TypeInv
    <2> QED
        BY <1>4, <2>1 DEF TypeInv
<1>8. taskOf' \in [Sessions -> 0..MaxPrompts]
    <2>1. (IF e.kind \in Terminal THEN 0 ELSE e.task) \in 0..MaxPrompts
        BY <1>3, TranscriptAssumption DEF Events, Prompts
    <2> QED
        BY <1>4, <2>1 DEF TypeInv
<1> QED
    BY <1>4, <1>5, <1>6, <1>7, <1>8 DEF TypeInv, WorkTypes

LEMMA UserTypes ==
    ASSUME CoreInv, NEW s \in Sessions,
           Submit(s) \/ SubmitFails(s) \/ Send(s) \/ Stop(s) \/ StopAnswered(s) \/ SessionDeleted(s)
    PROVE  TypeInv'
<1>1. CASE Submit(s) \/ SubmitFails(s)
    BY <1>1 DEF Submit, SubmitFails, CoreInv, TypeInv, WorkTypes, callVars, kernelVars
<1>2. CASE Send(s)
    <2>1. prompts' \in Prompts /\ prompts' = prompts + 1
        BY <1>2, SendStage DEF Send
    <2>2. UNCHANGED <<deleted, heard, cancels, answers, loads, deletes, kernel, silent, queue>>
        BY <1>2 DEF Send, kernelVars
    <2>3. starts' \subseteq Sessions \X Prompts
        BY <1>2, <2>1 DEF Send, CoreInv, TypeInv
    <2>4. taskOf' \in [Sessions -> 0..MaxPrompts]
        BY <1>2, TranscriptAssumption DEF Send, CoreInv, TypeInv
    <2>5. running' \subseteq Sessions /\ canceling' \subseteq Sessions /\ DOMAIN sending' = Sessions
        BY <1>2 DEF Send, CoreInv, TypeInv
    <2>6. prompts' \in 0..MaxPrompts
        BY <2>1, TranscriptAssumption DEF Prompts
    <2> QED
        BY <2>2, <2>3, <2>4, <2>5, <2>6 DEF CoreInv, TypeInv, WorkTypes
<1>3. CASE Stop(s)
    <2>1. UNCHANGED <<running, taskOf, prompts, starts, answers, sending, loads, deletes, deleted, kernel, silent, queue, heard>>
        BY <1>3 DEF Stop, kernelVars
    <2>2. taskOf[s] \in Prompts
        BY <1>3, TranscriptAssumption DEF Stop, CoreInv, TypeInv, Prompts
    <2>3. DOMAIN cancels' = Sessions /\ \A o \in Sessions : cancels'[o].call # "none" => cancels'[o].task \in Prompts
        BY <1>3, <2>2 DEF Stop, CoreInv, TypeInv
    <2>4. canceling' \subseteq Sessions
        BY <1>3 DEF Stop, CoreInv, TypeInv
    <2> QED
        BY <2>1, <2>3, <2>4 DEF CoreInv, TypeInv, WorkTypes
<1>4. CASE StopAnswered(s)
    <2>1. UNCHANGED <<running, taskOf, prompts, starts, answers, sending, loads, deletes, deleted, kernel, silent, queue, heard>>
        BY <1>4 DEF StopAnswered, kernelVars
    <2>2. cancels' = [cancels EXCEPT ![s] = NoCancel] /\ NoCancel.call = "none" /\ canceling' \subseteq canceling
        BY <1>4 DEF StopAnswered, NoCancel
    <2>3. DOMAIN cancels' = Sessions /\ \A o \in Sessions : cancels'[o].call # "none" => cancels'[o].task \in Prompts
        BY <2>2 DEF CoreInv, TypeInv
    <2> QED
        BY <2>1, <2>2, <2>3 DEF CoreInv, TypeInv, WorkTypes
<1>5. CASE SessionDeleted(s)
    <2>1. UNCHANGED <<prompts, starts, answers, sending, cancels, kernel, silent, queue, heard>>
        BY <1>5 DEF SessionDeleted
    <2>2. taskOf' \in [Sessions -> 0..MaxPrompts]
        BY <1>5, TranscriptAssumption DEF SessionDeleted, CoreInv, TypeInv
    <2>3. running' \subseteq running /\ canceling' \subseteq canceling /\ deleted' \subseteq Sessions
        BY <1>5 DEF SessionDeleted, CoreInv, TypeInv
    <2>4. DOMAIN loads' = Sessions /\ DOMAIN deletes' = Sessions
        BY <1>5 DEF SessionDeleted, ShowOpened, CoreInv, TypeInv
    <2> QED
        BY <2>1, <2>2, <2>3, <2>4 DEF CoreInv, TypeInv, WorkTypes
<1> QED
    BY <1>1, <1>2, <1>3, <1>4, <1>5

-----------------------------------------------------------------------------
(* Every step keeps the user waiting, and the open session the open one.    *)

LEMMA QuietWaits ==
    ASSUME CoreInv, NEW s \in Sessions,
           ReadTurns(s) \/ TurnsLoaded(s) \/ LoadFails(s) \/ Stop(s) \/ StopAnswered(s)
    PROVE  Place' /\ \A o \in Sessions : Waits(o)'
<1>1. UNCHANGED <<selected, active, sending, deletes, deleted, running, starts, answers>>
    BY DEF ReadTurns, TurnsLoaded, LoadFails, Stop, StopAnswered, uiVars, kernelVars
<1>2. loads' = loads \/ \E c : loads' = [loads EXCEPT ![s] = c] /\ loads[s].call # "none"
    BY DEF ReadTurns, TurnsLoaded, LoadFails, Stop, StopAnswered
<1>3. \A o \in Sessions : loads'[o].call # "none" => loads[o].call # "none"
    BY <1>2 DEF CoreInv, TypeInv
<1>4. \A o \in Sessions : Waits(o)'
    BY <1>1, <1>3, StaysWaiting DEF CoreInv
<1> QED
    BY <1>1, <1>4 DEF CoreInv, Place

LEMMA BusyIsRunning ==
    ASSUME CoreInv, NEW s \in Sessions, Busy(s)
    PROVE  s \in running \cup deleted
BY DEF CoreInv, Stage, Marks

LEMMA KernelWaits ==
    ASSUME CoreInv, NEW s \in Sessions,
           \/ KernelActs(s) \/ KernelCancels(s)
           \/ \E n \in Prompts : KernelStarts(s, n) \/ KernelRefuses(s, n)
    PROVE  Place' /\ \A o \in Sessions : Waits(o)'
<1>1. UNCHANGED <<selected, active, sending, deletes, deleted, running, loads>>
    BY DEF KernelActs, KernelDelta, KernelRetry, KernelRound, KernelFolds, KernelFolded, KernelEnds,
           KernelCancels, KernelStarts, KernelRefuses, uiVars, callVars, kernelVars
<1>2. starts' \subseteq starts
    BY DEF KernelActs, KernelDelta, KernelRetry, KernelRound, KernelFolds, KernelFolded, KernelEnds,
           KernelCancels, KernelStarts, KernelRefuses, callVars
<1>3. \A a \in answers' : a \in answers \/ (a.session = s /\ Asked(s))
    <2>1. CASE KernelActs(s) \/ KernelCancels(s)
        BY <2>1 DEF KernelActs, KernelDelta, KernelRetry, KernelRound, KernelFolds, KernelFolded,
                    KernelEnds, KernelCancels, callVars
    <2>2. CASE \E n \in Prompts : KernelStarts(s, n) \/ KernelRefuses(s, n)
        BY <2>2 DEF KernelStarts, KernelRefuses, Asked
    <2> QED
        BY <2>1, <2>2
<1>4. Asked(s) => s \in running \cup deleted
    BY BusyIsRunning DEF Busy
<1>5. \A o \in Sessions : Waits(o)'
    BY <1>1, <1>2, <1>3, <1>4, StaysWaiting DEF CoreInv
<1> QED
    BY <1>1, <1>5 DEF CoreInv, Place

LEMMA AnswerWaits ==
    ASSUME CoreInv, NEW a \in answers, StartAnswered(a)
    PROVE  Place' /\ \A o \in Sessions : Waits(o)'
<1>1. UNCHANGED <<selected, active, sending, deletes, deleted, starts, loads>>
    BY DEF StartAnswered, kernelVars
<1>2. running' \subseteq running /\ answers' \subseteq answers
    BY DEF StartAnswered
<1>3. \A o \in Sessions : Waits(o)'
    BY <1>1, <1>2, StaysWaiting DEF CoreInv
<1> QED
    BY <1>1, <1>3 DEF CoreInv, Place

LEMMA EventWaits ==
    ASSUME CoreInv, NEW s \in Sessions, HandleEvent(s)
    PROVE  Place' /\ \A o \in Sessions : Waits(o)'
<1>1. UNCHANGED <<selected, active, sending, deletes, deleted, starts, answers, loads>>
    BY DEF HandleEvent, callVars
<1>2. running' \subseteq running \cup {s} /\ s \in running \cup deleted
    <2>1. s \in running \cup deleted
        BY BusyIsRunning DEF HandleEvent, Busy
    <2>2. running' = RunningAfter(Head(queue[s]), s)
        BY DEF HandleEvent
    <2> QED
        BY <2>1, <2>2 DEF RunningAfter, Terminal
<1>3. \A o \in Sessions : Waits(o)'
    BY <1>1, <1>2, StaysWaiting DEF CoreInv
<1> QED
    BY <1>1, <1>3 DEF CoreInv, Place

LEMMA UserWaits ==
    ASSUME CoreInv, Patient, NEW s \in Sessions,
           OpenSession(s) \/ Submit(s) \/ SubmitFails(s) \/ Send(s) \/ DeleteSession(s) \/ SessionDeleted(s)
    PROVE  Place' /\ \A o \in Sessions : Waits(o)'
<1>0. Nobody \notin Sessions
    BY TranscriptAssumption
<1>a. /\ DOMAIN sending = Sessions /\ DOMAIN loads = Sessions /\ DOMAIN deletes = Sessions
      /\ deleted \subseteq Sessions
    BY DEF CoreInv, TypeInv
<1>1. CASE OpenSession(s)
    <2>1. /\ selected' = s /\ active' = s /\ s \notin deleted
          /\ UNCHANGED <<running, sending, starts, answers, deletes, deleted>>
          /\ \A o \in Sessions : sending[o] = 0 /\ deletes[o].call = "none"
        BY <1>1 DEF OpenSession, MaySwitch, kernelVars
    <2>2. \A o \in Sessions : loads'[o].call # "none" => loads[o].call # "none" \/ o \notin running
        BY <1>1, <1>a DEF OpenSession, ShowOpened
    <2>3. \A o \in Sessions : Waits(o)'
        BY <2>1, <2>2 DEF CoreInv, Waits
    <2> QED
        BY <2>1, <2>3 DEF Place
<1>2. CASE Submit(s)
    <2>1. /\ sending' = [sending EXCEPT ![s] = @ + 1]
          /\ UNCHANGED <<selected, active, running, starts, answers, deletes, deleted, loads>>
          /\ selected = s /\ s \notin running /\ sending[s] = 0 /\ loads[s].call = "none"
          /\ \A a \in answers : a.session # s
          /\ \A o \in Sessions : deletes[o].call = "none"
        BY <1>2 DEF Submit, MaySend, callVars, kernelVars
    <2>2. s \notin deleted /\ ~Asked(s)
        BY <2>1, <1>0 DEF CoreInv, Place, Stage, Marks, Busy
    <2>3. sending'[s] = 1 /\ \A o \in Sessions \ {s} : sending'[o] = sending[o] /\ sending[o] = 0
        BY <2>1, <1>a DEF CoreInv, Waits
    <2>4. \A o \in Sessions : Waits(o)'
        BY <2>1, <2>2, <2>3 DEF CoreInv, Waits, Asked
    <2> QED
        BY <2>1, <2>4 DEF CoreInv, Place
<1>3. CASE SubmitFails(s)
    <2>1. /\ sending' = [sending EXCEPT ![s] = @ - 1] /\ sending[s] > 0
          /\ UNCHANGED <<selected, active, running, starts, answers, deletes, deleted, loads>>
        BY <1>3 DEF SubmitFails, callVars, kernelVars
    <2>2. \A o \in Sessions : sending'[o] = 0
        BY <2>1, <1>a, AtMostOneSends DEF CoreInv
    <2>3. \A o \in Sessions : Waits(o)'
        BY <2>1, <2>2 DEF CoreInv, Waits, Asked
    <2> QED
        BY <2>1, <2>3 DEF CoreInv, Place
<1>4. CASE Send(s)
    <2>1. /\ sending' = [sending EXCEPT ![s] = @ - 1] /\ sending[s] > 0
          /\ active' = s /\ running' = running \cup {s}
          /\ UNCHANGED <<selected, answers, deletes, deleted, loads>>
        BY <1>4 DEF Send, kernelVars
    <2>2. \A o \in Sessions : sending'[o] = 0
        BY <2>1, <1>a, AtMostOneSends DEF CoreInv
    <2>3. selected = s /\ s \notin deleted /\ loads[s].call = "none"
          /\ \A o \in Sessions : deletes[o].call = "none"
        BY <2>1, AtMostOneSends DEF CoreInv, Waits
    <2>4. \A o \in Sessions : Waits(o)'
        BY <2>1, <2>2, <2>3 DEF CoreInv, Waits
    <2> QED
        BY <2>1, <2>3, <2>4 DEF Place
<1>5. CASE DeleteSession(s)
    <2>1. /\ deletes' = [deletes EXCEPT ![s] = [call |-> "asked", open |-> selected = s]]
          /\ UNCHANGED <<selected, active, running, sending, starts, answers, loads, deleted>>
          /\ s \notin deleted
          /\ \A o \in Sessions : sending[o] = 0 /\ deletes[o].call = "none"
        BY <1>5 DEF DeleteSession, MaySwitch, uiVars, kernelVars
    <2>2. /\ deletes'[s].call = "asked" /\ (deletes'[s].open <=> selected = s)
          /\ \A o \in Sessions \ {s} : deletes'[o].call = "none"
        BY <2>1, <1>a
    <2>3. \A o \in Sessions : Waits(o)'
        BY <2>1, <2>2 DEF CoreInv, Waits
    <2> QED
        BY <2>1, <2>3 DEF CoreInv, Place
<1>6. CASE SessionDeleted(s)
    <2>1. /\ deletes[s].call = "asked" /\ deletes' = [deletes EXCEPT ![s] = NoDelete]
          /\ deleted' = deleted \cup {s} /\ running' = running \ {s}
          /\ UNCHANGED <<sending, starts, answers>>
        BY <1>6 DEF SessionDeleted
    <2>2. /\ \A o \in Sessions : sending[o] = 0
          /\ \A o \in Sessions \ {s} : deletes[o].call = "none"
          /\ deletes[s].open <=> selected = s
        BY <2>1 DEF CoreInv, Waits
    <2>3. \A o \in Sessions : deletes'[o].call = "none"
        BY <2>1, <2>2, <1>a DEF NoDelete
    <2>4. /\ active' = selected' /\ selected' \in (Sessions \ deleted') \cup {Nobody}
          /\ \A o \in Sessions : loads'[o].call # "none" => loads[o].call # "none" \/ o \notin running
        BY <1>6, <2>1, <2>2, <1>0, <1>a DEF SessionDeleted, ShowOpened, CoreInv, Place
    <2>5. \A o \in Sessions : Waits(o)'
        BY <2>1, <2>2, <2>3, <2>4 DEF CoreInv, Waits
    <2> QED
        BY <2>4, <2>5 DEF Place
<1> QED
    BY <1>1, <1>2, <1>3, <1>4, <1>5, <1>6

-----------------------------------------------------------------------------
LEMMA CoreInit == Init => CoreInv
<1> SUFFICES ASSUME Init PROVE CoreInv
    OBVIOUS
<1>1. TypeInv
    BY IdleIs, TranscriptAssumption DEF Init, TypeInv, WorkTypes, NoCancel
<1>2. Place
    BY DEF Init, Place
<1>3. ASSUME NEW s \in Sessions PROVE Stage(s) /\ Waits(s)
    BY IdleIs DEF Init, Stage, Line, Starting, Marks, Waits, Asked, Refused, Busy, NoCall, NoDelete
<1> QED
    BY <1>1, <1>2, <1>3 DEF CoreInv

LEMMA CoreStep ==
    ASSUME CoreInv, Patient, [Next]_vars
    PROVE  CoreInv'
<1>1. CASE UNCHANGED vars
    <2>1. Resting /\ UNCHANGED <<selected, active, cancels, loads, deletes, prompts, sending, kernel, silent>>
        BY <1>1 DEF vars, uiVars, callVars, kernelVars, Resting
    <2>2. TypeInv' /\ Place'
        BY <2>1 DEF CoreInv, TypeInv, WorkTypes, Place, Resting
    <2>3. \A s \in Sessions : Waits(s)'
        BY <2>1, StaysWaiting DEF CoreInv, Resting
    <2> QED
        BY <2>1, <2>2, <2>3, RestingStage DEF CoreInv
<1>2. ASSUME NEW s \in Sessions, KernelActs(s) PROVE CoreInv'
    <2>1. PICK kind, k : Tells(s, kind, k) /\ UNCHANGED cancels
        BY <1>2, KernelTells DEF CoreInv, Stage
    <2>2. TypeInv'
        BY <2>1, ActsTypes DEF CoreInv
    <2>3. Stage(s)' /\ Others(s)
        BY <2>1, TellsStage, TellsOthers DEF CoreInv
    <2>4. \A o \in Sessions : Stage(o)'
        BY <2>3, OthersStage DEF CoreInv
    <2> QED
        BY <1>2, <2>2, <2>4, KernelWaits DEF CoreInv
<1>3. ASSUME NEW s \in Sessions, KernelCancels(s) PROVE CoreInv'
    <2>1. PICK call : cancels' = [cancels EXCEPT ![s].call = call]
        BY <1>3, CancelsTells DEF CoreInv, Stage
    <2>2. cancels[s].call # "none"
        BY <1>3 DEF KernelCancels
    <2>3. CASE Tells(s, "canceled", Idle)
        <3>1. TypeInv'
            BY <2>1, <2>2, <2>3, ActsTypes DEF CoreInv
        <3>2. Stage(s)' /\ Others(s)
            BY <2>3, TellsStage, TellsOthers DEF CoreInv
        <3>3. \A o \in Sessions : Stage(o)'
            BY <3>2, OthersStage DEF CoreInv
        <3> QED
            BY <1>3, <3>1, <3>3, KernelWaits DEF CoreInv
    <2>4. CASE Resting /\ WorkTypes' /\ UNCHANGED <<selected, active, view, cache, hidden, sending, prompts, loads, deletes>>
        <3>1. DOMAIN cancels' = Sessions /\ \A o \in Sessions : cancels'[o].call # "none" => cancels'[o].task \in Prompts
            BY <2>1, <2>2 DEF CoreInv, TypeInv
        <3>2. TypeInv'
            BY <2>4, <3>1 DEF Resting, CoreInv, TypeInv
        <3> QED
            BY <1>3, <2>4, <3>2, RestingStage, KernelWaits DEF CoreInv
    <2> QED
        BY <1>3, <2>3, <2>4, CancelsTells DEF CoreInv, Stage
<1>4. ASSUME NEW s \in Sessions, NEW n \in Prompts, KernelStarts(s, n) \/ KernelRefuses(s, n) PROVE CoreInv'
    <2>1. Stage(s)' /\ Others(s)
        BY <1>4, TaskStartsStage, TaskRefusedStage DEF CoreInv
    <2>2. \A o \in Sessions : Stage(o)'
        BY <2>1, OthersStage DEF CoreInv
    <2> QED
        BY <1>4, <2>2, StartTypes, KernelWaits DEF CoreInv
<1>5. ASSUME NEW a \in answers, StartAnswered(a) PROVE CoreInv'
    <2>1. a.session \in Sessions
        BY DEF CoreInv, TypeInv
    <2>2. Stage(a.session)' /\ Others(a.session)
        BY <1>5, <2>1, StartAnsweredStage DEF CoreInv
    <2>3. \A o \in Sessions : Stage(o)'
        BY <2>1, <2>2, OthersStage DEF CoreInv
    <2> QED
        BY <1>5, <2>1, <2>3, StartTypes, AnswerWaits DEF CoreInv
<1>6. ASSUME NEW s \in Sessions, HandleEvent(s) PROVE CoreInv'
    <2>1. Stage(s)' /\ Others(s)
        BY <1>6, HandleEventStage DEF CoreInv
    <2>2. \A o \in Sessions : Stage(o)'
        BY <2>1, OthersStage DEF CoreInv
    <2> QED
        BY <1>6, <2>2, EventTypes, EventWaits DEF CoreInv
<1>7. ASSUME NEW s \in Sessions, Send(s) \/ SessionDeleted(s) PROVE CoreInv'
    <2>1. Stage(s)' /\ Others(s)
        BY <1>7, SendStage, SessionDeletedStage
    <2>2. \A o \in Sessions : Stage(o)'
        BY <2>1, OthersStage DEF CoreInv
    <2> QED
        BY <1>7, <2>2, UserTypes, UserWaits DEF CoreInv
<1>8. ASSUME NEW s \in Sessions, Stop(s) \/ StopAnswered(s) PROVE CoreInv'
    <2>1. Stage(s)' /\ Others(s)
        BY <1>8, StopStage
    <2>2. \A o \in Sessions : Stage(o)'
        BY <2>1, OthersStage DEF CoreInv
    <2> QED
        BY <1>8, <2>2, UserTypes, QuietWaits DEF CoreInv
<1>9. ASSUME NEW s \in Sessions, Submit(s) \/ SubmitFails(s) PROVE CoreInv'
    <2>1. Resting
        BY <1>9 DEF Submit, SubmitFails, Resting, callVars, kernelVars
    <2> QED
        BY <1>9, <2>1, RestingStage, UserTypes, UserWaits DEF CoreInv
<1>10. ASSUME NEW s \in Sessions,
              OpenSession(s) \/ DeleteSession(s) \/ ReadTurns(s) \/ TurnsLoaded(s) \/ LoadFails(s)
       PROVE  CoreInv'
    <2>1. Resting /\ UNCHANGED <<sending, cancels, prompts, kernel, silent>>
        BY <1>10 DEF OpenSession, DeleteSession, ReadTurns, TurnsLoaded, LoadFails, Resting, uiVars, callVars, kernelVars
    <2>2. DOMAIN loads' = Sessions /\ DOMAIN deletes' = Sessions
        BY <1>10 DEF OpenSession, ShowOpened, DeleteSession, ReadTurns, TurnsLoaded, LoadFails, CoreInv, TypeInv
    <2>3. TypeInv'
        BY <2>1, <2>2 DEF Resting, CoreInv, TypeInv, WorkTypes
    <2> QED
        BY <1>10, <2>1, <2>3, RestingStage, UserWaits, QuietWaits DEF CoreInv
<1>11. ASSUME NEW s \in Sessions, Settle(s) PROVE CoreInv'
    BY <1>2, <1>3, <1>4, <1>5, <1>6, <1>7, <1>8, <1>10, <1>11 DEF Settle, KernelActs, Prompts
<1> QED
    BY <1>1, <1>2, <1>7, <1>8, <1>9, <1>10, <1>11 DEF Next, KernelActs

(* Scenes only bound the model: a step of one is a step of the window.      *)
LEMMA CoreInvariant ==
    ASSUME Patient
    PROVE  MCSpec => []CoreInv
<1>1. MCInit => CoreInv
    BY CoreInit DEF MCInit
<1>2. CoreInv /\ [MCNext]_<<vars, pageVars, scene>> => CoreInv'
    <2>1. [MCNext]_<<vars, pageVars, scene>> => [Next]_vars
        BY DEF MCNext
    <2> QED
        BY <2>1, CoreStep
<1> QED
    BY <1>1, <1>2, PTL DEF MCSpec

(* Whatever the counts of sessions, prompts, rounds and deltas: with a user *)
(* who waits, the window shows a session as running exactly while there is  *)
(* something of it to come, and as nothing is, exactly while its task runs  *)
(* or, once that has ended without telling, for good (setSessionRunning,    *)
(* applyAgentEvent).                                                        *)
THEOREM RunningMatchesKernelTheorem ==
    ASSUME Patient
    PROVE  MCSpec => []RunningMatchesKernel
<1>1. CoreInv => RunningMatchesKernel
    BY DEF CoreInv, Stage, Marks, Busy, Asked, Refused, RunningMatchesKernel, Pending
<1> QED
    BY <1>1, CoreInvariant, PTL

(* A click on stop comes to an end: while a session is shown as stopping,   *)
(* the call, its answer, an event of the task or the task's end is to come, *)
(* and only a task that has ended without telling leaves it there           *)
(* (stopActiveTask).                                                        *)
THEOREM StopGoesOnTheorem ==
    ASSUME Patient
    PROVE  MCSpec => []StopGoesOn
<1>1. CoreInv => StopGoesOn
    BY DEF CoreInv, TypeInv, Stage, Marks, Busy, StopGoesOn
<1> QED
    BY <1>1, CoreInvariant, PTL

-----------------------------------------------------------------------------
(* What is on the screen.                                                   *)

ScreenInv == DOMAIN cache = Sessions /\ ViewIsSelected

LEMMA ShowScreen ==
    ASSUME ScreenInv, CoreInv, NEW s \in Sessions, NEW items,
           Show(s, items) \/ UNCHANGED <<cache, view>>,
           selected' = selected, running' \subseteq running \cup deleted
    PROVE  ScreenInv'
<1>1. selected \in running' => selected \in running /\ selected \in Sessions
    BY TranscriptAssumption DEF CoreInv, Place, TypeInv
<1>2. CASE Show(s, items)
    <2>1. active = selected
        BY DEF CoreInv, Place
    <2> QED
        BY <1>1, <1>2, <2>1 DEF Show, ScreenInv, ViewIsSelected
<1>3. CASE UNCHANGED <<cache, view>>
    BY <1>1, <1>3 DEF ScreenInv, ViewIsSelected
<1> QED
    BY <1>2, <1>3

LEMMA ScreenStep ==
    ASSUME ScreenInv, CoreInv, [Next]_vars
    PROVE  ScreenInv'
<1>1. CASE UNCHANGED vars
    BY <1>1 DEF vars, uiVars, ScreenInv, ViewIsSelected
<1>2. ASSUME NEW s \in Sessions,
             \/ KernelActs(s) \/ KernelCancels(s)
             \/ Submit(s) \/ SubmitFails(s) \/ DeleteSession(s) \/ Stop(s)
             \/ ReadTurns(s) \/ LoadFails(s)
             \/ \E n \in Prompts : KernelStarts(s, n) \/ KernelRefuses(s, n)
      PROVE  ScreenInv'
    <2>1. UNCHANGED <<cache, view, selected, running>>
        BY <1>2 DEF KernelActs, KernelDelta, KernelRetry, KernelRound, KernelFolds, KernelFolded,
                    KernelEnds, KernelCancels, Submit, SubmitFails, DeleteSession, Stop, ReadTurns,
                    LoadFails, KernelStarts, KernelRefuses, uiVars
    <2> QED
        BY <2>1 DEF ScreenInv, ViewIsSelected
<1>3. ASSUME NEW s \in Sessions, OpenSession(s) PROVE ScreenInv'
    BY <1>3 DEF OpenSession, ShowOpened, ScreenInv, ViewIsSelected
<1>4. ASSUME NEW s \in Sessions, TurnsLoaded(s) PROVE ScreenInv'
    <2>1. \E items : Show(s, items) \/ UNCHANGED <<cache, view>>
        BY <1>4 DEF TurnsLoaded
    <2>2. UNCHANGED <<selected, running>>
        BY <1>4 DEF TurnsLoaded
    <2> QED
        BY <2>1, <2>2, ShowScreen
<1>5. ASSUME NEW s \in Sessions, StopAnswered(s) PROVE ScreenInv'
    <2>1. \E items : Show(s, items) \/ UNCHANGED <<cache, view>>
        BY <1>5 DEF StopAnswered
    <2>2. UNCHANGED <<selected, running>>
        BY <1>5 DEF StopAnswered
    <2> QED
        BY <2>1, <2>2, ShowScreen
<1>6. ASSUME NEW a \in answers, StartAnswered(a) PROVE ScreenInv'
    <2>1. \E items : Show(a.session, items)
        BY <1>6 DEF StartAnswered
    <2>2. selected' = selected /\ running' \subseteq running
        BY <1>6 DEF StartAnswered
    <2>3. a.session \in Sessions
        BY DEF CoreInv, TypeInv
    <2> QED
        BY <2>1, <2>2, <2>3, ShowScreen
<1>7. ASSUME NEW s \in Sessions, HandleEvent(s) PROVE ScreenInv'
    <2>1. \E items : Show(s, items) \/ UNCHANGED <<cache, view>>
        BY <1>7 DEF HandleEvent
    <2>2. running' = RunningAfter(Head(queue[s]), s) /\ selected' = selected
        BY <1>7 DEF HandleEvent
    <2>3. s \in running \cup deleted
        BY <1>7, BusyIsRunning DEF HandleEvent, Busy
    <2>4. running' \subseteq running \cup deleted
        BY <2>2, <2>3 DEF RunningAfter, Terminal
    <2> QED
        BY <2>1, <2>2, <2>4, ShowScreen
<1>8. ASSUME NEW s \in Sessions, Send(s) PROVE ScreenInv'
    <2>1. selected = s
        BY <1>8, AtMostOneSends DEF CoreInv, Send, Waits
    <2> QED
        BY <1>8, <2>1 DEF Send, ScreenInv, ViewIsSelected
<1>9. ASSUME NEW s \in Sessions, SessionDeleted(s) PROVE ScreenInv'
    <2>1. /\ cache' = [cache EXCEPT ![s] = <<>>] /\ running' = running \ {s}
          /\ deleted' = deleted \cup {s}
        BY <1>9 DEF SessionDeleted
    <2>2. deletes[s].open <=> selected = s
        BY <1>9 DEF SessionDeleted, CoreInv, Waits
    <2>3. CASE UNCHANGED <<selected, view>> /\ selected # s
        BY <2>1, <2>3 DEF ScreenInv, ViewIsSelected
    <2>4. CASE selected' = Nobody
        BY <2>1, <2>4, TranscriptAssumption DEF ScreenInv, ViewIsSelected, CoreInv, TypeInv
    <2>5. CASE \E o \in Sessions \ deleted' : selected' = o /\ ShowOpened(o)
        BY <2>1, <2>5 DEF ScreenInv, ViewIsSelected, ShowOpened
    <2> QED
        BY <1>9, <2>2, <2>3, <2>4, <2>5 DEF SessionDeleted
<1>10. ASSUME NEW s \in Sessions, Settle(s) PROVE ScreenInv'
    BY <1>2, <1>4, <1>5, <1>6, <1>7, <1>9, <1>10 DEF Settle, KernelActs, Prompts
<1> QED
    BY <1>1, <1>2, <1>3, <1>8, <1>10 DEF Next, KernelActs

(* If the selected session runs, its transcript is what is on the screen,   *)
(* whichever session an answer or an event is about                         *)
(* (updateMessagesForSession, openSession).                                 *)
THEOREM ViewIsSelectedTheorem ==
    ASSUME Patient
    PROVE  MCSpec => []ViewIsSelected
<1>1. MCInit => ScreenInv
    BY DEF MCInit, Init, ScreenInv, ViewIsSelected
<1>2. ScreenInv /\ CoreInv /\ [MCNext]_<<vars, pageVars, scene>> => ScreenInv'
    <2>1. [MCNext]_<<vars, pageVars, scene>> => [Next]_vars
        BY DEF MCNext
    <2> QED
        BY <2>1, ScreenStep
<1>3. ScreenInv => ViewIsSelected
    BY DEF ScreenInv
<1> QED
    BY <1>1, <1>2, <1>3, CoreInvariant, PTL DEF MCSpec

-----------------------------------------------------------------------------
(* What FlattenSeq computes.                                                *)

LEMMA InductionOverSet ==
    ASSUME NEW S, 0 \in S, \A n \in Nat : n \in S => n + 1 \in S
    PROVE  Nat \subseteq S
<1> DEFINE T == Nat \ S  R == {x \in Nat \X Nat : x[1] < x[2]}
<1> SUFFICES ASSUME T # {} PROVE FALSE
    OBVIOUS
<1>1. IsWellFoundedOn(R, Nat)
    BY NatLessThanWellFounded DEF OpToRel
<1>2. PICK x \in T : \A y \in T : ~ (<<y, x>> \in R)
    <2> HIDE DEF R
    <2> QED
    BY <1>1, WFMin
<1>3. x # 0 /\ x - 1 \in Nat
    OBVIOUS
<1>4. <<x - 1, x>> \in R
    BY <1>3
<1>5. x - 1 \in S
    BY <1>2, <1>3, <1>4
<1> QED
    BY <1>3, <1>5

Grows(f, seqs, n) == \A i \in 1..n : f[i] = IF i = 1 THEN seqs[i] ELSE f[i-1] \o seqs[i]

LEMMA FlattenIs ==
    ASSUME NEW S, NEW seqs \in Seq(Seq(S)), seqs # <<>>
    PROVE  \E f \in [1..Len(seqs) -> Seq(S)] :
              Grows(f, seqs, Len(seqs)) /\ FlattenSeq(seqs) = f[Len(seqs)]
<1> DEFINE N == Len(seqs)
           Some == {n \in Nat : n <= N => \E f \in [1..n -> Seq(S)] : Grows(f, seqs, n)}
<1>0. N \in Nat \ {0} /\ \A i \in 1..N : seqs[i] \in Seq(S)
    BY EmptySeq
<1>1. 0 \in Some
    <2>1. [i \in 1..0 |-> seqs[i]] \in [1..0 -> Seq(S)] /\ 1..0 = {}
        OBVIOUS
    <2> QED
        BY <2>1 DEF Grows
<1>2. ASSUME NEW n \in Nat, n \in Some PROVE n + 1 \in Some
    <2> SUFFICES ASSUME n + 1 <= N PROVE \E f \in [1..(n + 1) -> Seq(S)] : Grows(f, seqs, n + 1)
        OBVIOUS
    <2>1. PICK f \in [1..n -> Seq(S)] : Grows(f, seqs, n)
        BY <1>0, <1>2
    <2> DEFINE v == IF n = 0 THEN seqs[1] ELSE f[n] \o seqs[n + 1]
               g == [i \in 1..(n + 1) |-> IF i = n + 1 THEN v ELSE f[i]]
    <2>2. v \in Seq(S)
        <3>1. n + 1 \in 1..N
            BY <1>0
        <3>2. n # 0 => f[n] \in Seq(S)
            OBVIOUS
        <3> QED
            BY <1>0, <3>1, <3>2, ConcatProperties
    <2> HIDE DEF v
    <2>3. g \in [1..(n + 1) -> Seq(S)]
        BY <2>2
    <2>4. ASSUME NEW i \in 1..(n + 1) PROVE g[i] = IF i = 1 THEN seqs[i] ELSE g[i-1] \o seqs[i]
        <3>1. CASE i = n + 1
            BY <3>1 DEF v
        <3>2. CASE i # n + 1
            <4>1. i \in 1..n /\ g[i] = f[i]
                BY <3>2
            <4>2. i # 1 => i - 1 \in 1..n /\ g[i - 1] = f[i - 1]
                BY <3>2
            <4>3. f[i] = IF i = 1 THEN seqs[i] ELSE f[i-1] \o seqs[i]
                BY <2>1, <4>1 DEF Grows
            <4> HIDE DEF g
            <4> QED
                BY <4>1, <4>2, <4>3
        <3> QED
            BY <3>1, <3>2
    <2> QED
        BY <2>3, <2>4 DEF Grows
<1>3. N \in Some
    <2>1. Nat \subseteq Some
        <3> HIDE DEF Some
        <3> QED
            BY <1>1, <1>2, InductionOverSet
    <2> QED
        BY <1>0, <2>1
<1>4. PICK f \in [1..N -> Seq(S)] : Grows(f, seqs, N)
    BY <1>0, <1>3
<1>5. f = [i \in 1..N |-> IF i = 1 THEN seqs[i] ELSE f[i-1] \o seqs[i]]
    BY <1>4 DEF Grows
<1> DEFINE flatten == CHOOSE h : h = [i \in 1..N |-> IF i = 1 THEN seqs[i] ELSE h[i-1] \o seqs[i]]
<1>6. flatten = [i \in 1..N |-> IF i = 1 THEN seqs[i] ELSE flatten[i-1] \o seqs[i]]
    BY <1>5
<1>7. FlattenSeq(seqs) = flatten[N]
    BY <1>0 DEF FlattenSeq
<1> HIDE DEF flatten
<1>8. Grows(flatten, seqs, N) /\ DOMAIN flatten = 1..N
    BY <1>6 DEF Grows
<1> DEFINE Agree == {n \in Nat : n \in 1..N => flatten[n] = f[n]}
<1>9. 0 \in Agree
    OBVIOUS
<1>10. ASSUME NEW n \in Nat, n \in Agree PROVE n + 1 \in Agree
    <2> SUFFICES ASSUME NEW m \in 1..N, m = n + 1 PROVE flatten[m] = f[m]
        OBVIOUS
    <2>1. flatten[m] = IF m = 1 THEN seqs[m] ELSE flatten[m-1] \o seqs[m]
        BY <1>8 DEF Grows
    <2>2. f[m] = IF m = 1 THEN seqs[m] ELSE f[m-1] \o seqs[m]
        BY <1>4 DEF Grows
    <2>3. m # 1 => m - 1 = n /\ n \in 1..N
        BY <1>0
    <2>4. m # 1 => flatten[m - 1] = f[m - 1]
        BY <2>3, <1>10
    <2> HIDE DEF Agree
    <2> QED
        BY <2>1, <2>2, <2>4
<1>11. flatten[N] = f[N]
    <2>1. Nat \subseteq Agree
        <3> HIDE DEF Agree
        <3> QED
            BY <1>9, <1>10, InductionOverSet
    <2>2. N \in Agree
        BY <1>0, <2>1
    <2>3. N \in 1..N
        BY <1>0
    <2> QED
        BY <2>2, <2>3
<1> QED
    BY <1>4, <1>7, <1>11

-----------------------------------------------------------------------------
(* What is left of a transcript without the dividers of a task: f names the *)
(* places of what stays, in order.                                          *)

Leaves(items, t, r, f) ==
    /\ f \in Seq(DOMAIN items) /\ r \in Seq(Range(items)) /\ Len(r) = Len(f)
    /\ \A k \in 1..Len(f) : r[k] = items[f[k]] /\ ~IsDivider(r[k], t)
    /\ \A j, k \in 1..Len(f) : j < k => f[j] < f[k]
    /\ \A i \in DOMAIN items : ~IsDivider(items[i], t) => \E k \in 1..Len(f) : f[k] = i

Upto(items, t, n, r, f) ==
    /\ f \in Seq(1..n) /\ Len(r) = Len(f)
    /\ \A k \in 1..Len(f) : r[k] = items[f[k]] /\ ~IsDivider(r[k], t)
    /\ \A j, k \in 1..Len(f) : j < k => f[j] < f[k]
    /\ \A i \in 1..n : ~IsDivider(items[i], t) => \E k \in 1..Len(f) : f[k] = i

LEMMA UptoNext ==
    ASSUME NEW S, NEW items, NEW t, NEW n \in Nat, NEW r \in Seq(S), NEW f, NEW x \in Seq(S),
           Upto(items, t, n, r, f),
           x = IF IsDivider(items[n + 1], t) THEN <<>> ELSE <<items[n + 1]>>
    PROVE  \E g : Upto(items, t, n + 1, r \o x, g)
<1> DEFINE L == Len(f)
<1>1. /\ f \in Seq(1..n) /\ Len(r) = L
      /\ \A k \in 1..L : r[k] = items[f[k]] /\ ~IsDivider(r[k], t)
      /\ \A j, k \in 1..L : j < k => f[j] < f[k]
      /\ \A i \in 1..n : ~IsDivider(items[i], t) => \E k \in 1..L : f[k] = i
    BY DEF Upto
<1>2. L \in Nat /\ (\A k \in 1..L : f[k] \in 1..n) /\ f \in Seq(1..(n + 1))
    BY <1>1
<1>3. CASE IsDivider(items[n + 1], t)
    <2>1. r \o x = r
        BY <1>3
    <2>2. \A i \in 1..(n + 1) : ~IsDivider(items[i], t) => \E k \in 1..L : f[k] = i
        BY <1>1, <1>3
    <2>3. Upto(items, t, n + 1, r, f)
        BY <1>1, <1>2, <2>2 DEF Upto
    <2> QED
        BY <2>1, <2>3
<1>4. CASE ~IsDivider(items[n + 1], t)
    <2>1. PICK g : g = Append(f, n + 1)
        OBVIOUS
    <2>2. PICK w : w = r \o x
        OBVIOUS
    <2>3. /\ g \in Seq(1..(n + 1)) /\ Len(g) = L + 1 /\ g[L + 1] = n + 1
          /\ \A k \in 1..L : g[k] = f[k]
        BY <1>2, <2>1
    <2>4. /\ Len(w) = L + 1 /\ w[L + 1] = items[n + 1]
          /\ \A k \in 1..L : w[k] = r[k]
        <3>1. x = <<items[n + 1]>> /\ Len(x) = 1 /\ x[1] = items[n + 1]
            BY <1>4
        <3>2. /\ Len(w) = Len(r) + Len(x)
              /\ \A k \in 1..(Len(r) + Len(x)) : w[k] = IF k <= Len(r) THEN r[k] ELSE x[k - Len(r)]
            BY <2>2, ConcatProperties
        <3>3. PICK m \in 1..(L + 1) : m = L + 1 /\ ~(m <= L) /\ m - L = 1
            BY <1>2
        <3>4. Len(w) = L + 1 /\ \A k \in 1..(L + 1) : w[k] = IF k <= L THEN r[k] ELSE x[k - L]
            BY <1>1, <3>1, <3>2
        <3> HIDE DEF L
        <3>5. w[L + 1] = items[n + 1]
            BY <3>1, <3>3, <3>4
        <3> QED
            BY <1>2, <3>4, <3>5
    <2> HIDE DEF L
    <2>5. \A k \in 1..(L + 1) : w[k] = items[g[k]] /\ ~IsDivider(w[k], t)
        <3> TAKE k \in 1..(L + 1)
        <3>1. CASE k = L + 1
            BY <1>4, <2>3, <2>4, <3>1
        <3>2. CASE k \in 1..L
            BY <1>1, <2>3, <2>4, <3>2
        <3> QED
            BY <1>2, <3>1, <3>2
    <2>6. \A j, k \in 1..(L + 1) : j < k => g[j] < g[k]
        <3> SUFFICES ASSUME NEW j \in 1..(L + 1), NEW k \in 1..(L + 1), j < k PROVE g[j] < g[k]
            OBVIOUS
        <3>0. j \in 1..L /\ g[j] = f[j] /\ f[j] \in 1..n
            BY <1>2, <2>3
        <3>1. CASE k = L + 1
            BY <2>3, <3>0, <3>1
        <3>2. CASE k \in 1..L
            BY <1>1, <2>3, <3>0, <3>2
        <3> QED
            BY <1>2, <3>1, <3>2
    <2>7. \A i \in 1..(n + 1) : ~IsDivider(items[i], t) => \E k \in 1..(L + 1) : g[k] = i
        <3> TAKE i \in 1..(n + 1)
        <3>1. CASE i = n + 1
            <4>1. L + 1 \in 1..(L + 1)
                BY <1>2
            <4> QED
                BY <2>3, <3>1, <4>1
        <3>2. CASE i \in 1..n
            <4>1. 1..L \subseteq 1..(L + 1)
                BY <1>2
            <4> QED
                BY <1>1, <2>3, <3>2, <4>1
        <3> QED
            BY <3>1, <3>2
    <2>8. Upto(items, t, n + 1, w, g)
        BY <2>3, <2>4, <2>5, <2>6, <2>7 DEF Upto
    <2> QED
        BY <2>2, <2>8
<1> QED
    BY <1>3, <1>4

LEMMA WithoutIs ==
    ASSUME NEW S, NEW items \in Seq(S), NEW t
    PROVE  \E f : Leaves(items, t, Without(items, t), f)
<1> DEFINE N == Len(items)
           seqs == [i \in DOMAIN items |-> IF IsDivider(items[i], t) THEN <<>> ELSE <<items[i]>>]
<1>1. N \in Nat /\ DOMAIN items = 1..N /\ items \in Seq(Range(items))
    BY DEF Range
<1>2. seqs \in Seq(Seq(Range(items))) /\ Len(seqs) = N
    <2>1. \A i \in DOMAIN items : seqs[i] \in Seq(Range(items))
        <3> TAKE i \in DOMAIN items
        <3>1. items[i] \in Range(items) /\ <<items[i]>> \in Seq(Range(items)) /\ <<>> \in Seq(Range(items))
            BY DEF Range
        <3>2. seqs[i] = IF IsDivider(items[i], t) THEN <<>> ELSE <<items[i]>>
            OBVIOUS
        <3> HIDE DEF seqs
        <3> QED
            BY <3>1, <3>2
    <2> HIDE DEF seqs
    <2>2. seqs \in [1..N -> Seq(Range(items))]
        BY <1>1, <2>1 DEF seqs
    <2> QED
        BY <1>1, <2>2
<1>3. Without(items, t) = FlattenSeq(seqs)
    BY DEF Without
<1>4. CASE N = 0
    <2>1. FlattenSeq(seqs) = <<>>
        BY <1>2, <1>4, EmptySeq DEF FlattenSeq
    <2>2. Leaves(items, t, <<>>, <<>>)
        BY <1>1, <1>4 DEF Leaves
    <2> QED
        BY <1>3, <2>1, <2>2
<1>5. CASE N # 0
    <2>1. seqs # <<>>
        BY <1>2, <1>5
    <2> HIDE DEF seqs
    <2>2. PICK h \in [1..N -> Seq(Range(items))] : Grows(h, seqs, N) /\ FlattenSeq(seqs) = h[N]
        BY <1>2, <2>1, FlattenIs
    <2> DEFINE Done == {n \in Nat : n \in 1..N => \E f : Upto(items, t, n, h[n], f)}
    <2>3. 0 \in Done
        OBVIOUS
    <2>4. ASSUME NEW n \in Nat, n \in Done PROVE n + 1 \in Done
        <3> SUFFICES ASSUME NEW m \in 1..N, m = n + 1 PROVE \E f : Upto(items, t, m, h[m], f)
            OBVIOUS
        <3>1. h[m] = IF m = 1 THEN seqs[m] ELSE h[m-1] \o seqs[m]
            BY <2>2 DEF Grows
        <3>2. seqs[m] \in Seq(Range(items)) /\ seqs[m] = IF IsDivider(items[n + 1], t) THEN <<>> ELSE <<items[n + 1]>>
            BY <1>1, <1>2 DEF seqs
        <3>3. CASE m = 1
            <4>1. Upto(items, t, 0, <<>>, <<>>)
                BY DEF Upto
            <4>2. <<>> \o seqs[m] = seqs[m] /\ <<>> \in Seq(Range(items))
                BY <3>2
            <4>3. n = 0
                BY <3>3
            <4>4. \E f : Upto(items, t, n + 1, <<>> \o seqs[m], f)
                BY <3>2, <4>1, <4>2, <4>3, UptoNext
            <4>5. h[m] = <<>> \o seqs[m]
                BY <3>1, <3>3, <4>2
            <4> QED
                BY <4>4, <4>5
        <3>4. CASE m # 1
            <4>1. m - 1 = n /\ n \in 1..N
                BY <3>4
            <4>2. PICK f : Upto(items, t, n, h[n], f)
                BY <2>4, <4>1
            <4> HIDE DEF Done
            <4>3. h[n] \in Seq(Range(items))
                BY <4>1
            <4>4. \E g : Upto(items, t, n + 1, h[n] \o seqs[m], g)
                BY <3>2, <4>2, <4>3, UptoNext
            <4>5. h[m] = h[n] \o seqs[m]
                BY <3>1, <3>4, <4>1
            <4> QED
                BY <4>4, <4>5
        <3> QED
            BY <3>3, <3>4
    <2>5. N \in Done
        <3>1. Nat \subseteq Done
            <4> HIDE DEF Done
            <4> QED
                BY <2>3, <2>4, InductionOverSet
        <3> QED
            BY <1>1, <3>1
    <2>6. PICK f : Upto(items, t, N, h[N], f)
        BY <1>1, <1>5, <2>5
    <2>7. h[N] \in Seq(Range(items))
        BY <1>1, <1>5
    <2>8. Leaves(items, t, h[N], f)
        BY <1>1, <2>6, <2>7 DEF Upto, Leaves
    <2> QED
        BY <1>3, <2>2, <2>8
<1> QED
    BY <1>4, <1>5

-----------------------------------------------------------------------------
(* Messages.                                                                *)

Items == [role : {"user", "assistant", "compaction"}, turn : Nat, task : Nat,
          rounds : Nat, got : Nat, notice : BOOLEAN]

(* What a transcript shows once p prompts have been sent.                   *)
Shows(p) == {m \in Items :
    /\ m.task <= p
    /\ m.role = "user" => m.turn <= p
    /\ m.role = "compaction" => m.task # 0 /\ m.turn = m.task /\ m.rounds = 0 /\ m.got = 0
    /\ IsAnswer(m) /\ m.task = 0 => m.got = 0}

IsRunning(m) == m.role = "compaction" /\ ~m.notice

LEMMA SameItem ==
    ASSUME NEW m \in Items, NEW w \in Items,
           m.role = w.role, m.turn = w.turn, m.task = w.task, m.rounds = w.rounds,
           m.got = w.got, m.notice = w.notice
    PROVE  m = w
BY DEF Items

LEMMA MessageIs ==
    ASSUME NEW role \in {"user", "assistant", "compaction"}, NEW n \in Nat
    PROVE  LET m == Message(role, n) IN
           /\ m \in Items /\ m.role = role /\ m.turn = n /\ m.task = 0
           /\ m.rounds = 0 /\ m.got = 0 /\ m.notice = FALSE
BY DEF Message, Items

LEMMA DividerIs ==
    ASSUME NEW t \in Nat \ {0}, NEW done \in BOOLEAN
    PROVE  LET m == [Divider(t) EXCEPT !.notice = done] IN
           /\ m \in Items /\ m.role = "compaction" /\ m.turn = t /\ m.task = t
           /\ m.rounds = 0 /\ m.got = 0 /\ m.notice = done
           /\ \A p \in Nat : t <= p => m \in Shows(p)
<1>1. PICK w : w = Message("compaction", t)
    OBVIOUS
<1>2. w \in Items /\ w.role = "compaction" /\ w.turn = t /\ w.rounds = 0 /\ w.got = 0
    BY <1>1, MessageIs
<1>3. PICK d : d = [w EXCEPT !.task = t]
    OBVIOUS
<1>4. d \in Items /\ d.role = "compaction" /\ d.turn = t /\ d.rounds = 0 /\ d.got = 0 /\ d.task = t
    BY <1>2, <1>3 DEF Items
<1>5. PICK m : m = [d EXCEPT !.notice = done]
    OBVIOUS
<1>6. /\ m \in Items /\ m.role = "compaction" /\ m.turn = t /\ m.rounds = 0 /\ m.got = 0
      /\ m.task = t /\ m.notice = done
    BY <1>4, <1>5 DEF Items
<1>7. m = [Divider(t) EXCEPT !.notice = done]
    BY <1>1, <1>3, <1>5 DEF Divider
<1>8. \A p \in Nat : t <= p => m \in Shows(p)
    BY <1>6 DEF Shows, IsAnswer
<1> QED
    BY <1>6, <1>7, <1>8

LEMMA PlainDividerIs ==
    ASSUME NEW t \in Nat \ {0}
    PROVE  /\ Divider(t) \in Items /\ Divider(t).role = "compaction" /\ Divider(t).turn = t
           /\ Divider(t).task = t /\ Divider(t).rounds = 0 /\ Divider(t).got = 0
           /\ Divider(t).notice = FALSE
<1>1. PICK w : w = Message("compaction", t)
    OBVIOUS
<1>2. /\ w \in Items /\ w.role = "compaction" /\ w.turn = t /\ w.rounds = 0 /\ w.got = 0
      /\ w.notice = FALSE
    BY <1>1, MessageIs
<1>3. PICK d : d = [w EXCEPT !.task = t]
    OBVIOUS
<1>4. /\ d \in Items /\ d.role = "compaction" /\ d.turn = t /\ d.rounds = 0 /\ d.got = 0
      /\ d.task = t /\ d.notice = FALSE
    BY <1>2, <1>3 DEF Items
<1> QED
    BY <1>1, <1>3, <1>4 DEF Divider

(* A divider that is shown as running is the divider of its task.           *)
LEMMA RunningIsDivider ==
    ASSUME NEW p \in Nat, NEW m \in Shows(p), IsRunning(m)
    PROVE  m = Divider(m.task) /\ m.task \in 1..p
<1>1. m \in Items /\ m.task \in Nat \ {0} /\ m.task <= p
    BY DEF Shows, IsRunning, Items
<1>2. m.notice = FALSE
    BY DEF IsRunning, Shows, Items
<1>3. m = Divider(m.task)
    <2>1. PICK t \in Nat \ {0} : t = m.task
        BY <1>1
    <2>2. PICK d : d = Divider(t)
        OBVIOUS
    <2>3. /\ d \in Items /\ d.role = "compaction" /\ d.turn = t /\ d.task = t
          /\ d.rounds = 0 /\ d.got = 0 /\ d.notice = FALSE
        BY <2>2, PlainDividerIs
    <2>4. m.role = "compaction" /\ m.turn = t /\ m.rounds = 0 /\ m.got = 0
        BY <2>1 DEF Shows, IsRunning
    <2>5. m = d
        BY <1>1, <1>2, <2>1, <2>3, <2>4, SameItem
    <2> QED
        BY <2>1, <2>2, <2>5
<1> QED
    BY <1>1, <1>3

LEMMA PlaceholderIs ==
    ASSUME NEW n \in Nat, NEW t \in Nat
    PROVE  LET m == [Placeholder(n) EXCEPT !.task = t] IN
           /\ m \in Items /\ IsAnswer(m) /\ m.task = t /\ m.got = 0
           /\ \A p \in Nat : t <= p => m \in Shows(p)
<1>1. PICK w : w = Placeholder(n)
    OBVIOUS
<1>2. w \in Items /\ w.role = "assistant" /\ w.got = 0
    BY <1>1, MessageIs DEF Placeholder
<1>3. PICK m : m = [w EXCEPT !.task = t]
    OBVIOUS
<1>4. m \in Items /\ m.role = "assistant" /\ m.got = 0 /\ m.task = t
    BY <1>2, <1>3 DEF Items
<1>5. \A p \in Nat : t <= p => m \in Shows(p)
    BY <1>4 DEF Shows, IsAnswer
<1> QED
    BY <1>1, <1>3, <1>4, <1>5 DEF IsAnswer

-----------------------------------------------------------------------------
(* The prompt of a task and its answer on a transcript.                     *)

Fresh(items, n) == \E i \in DOMAIN items :
    /\ items[i] = UserMessage(n)
    /\ \A j \in DOMAIN items : j # i => items[j] # UserMessage(n)
    /\ \A j \in DOMAIN items : IF j < i THEN items[j].task # n ELSE items[j].task \in {0, n}

Lit(items, t, d) ==
    /\ \A i \in DOMAIN items : items[i].task = t /\ items[i].got > 0 => i = Len(items) /\ d > 0
    /\ d > 0 => /\ items # <<>> /\ IsAnswer(Last(items))
                /\ Last(items).task = t /\ Last(items).got = d

(* No running divider that was not there.                                   *)
NoMoreRunning(items, r) ==
    \A i \in DOMAIN r : IsRunning(r[i]) => \E j \in DOMAIN items : items[j] = r[i]

LEMMA ChangeLastIs ==
    ASSUME NEW S, NEW items \in Seq(S), items # <<>>, NEW m \in S
    PROVE  /\ ChangeLast(items, m) \in Seq(S)
           /\ Len(ChangeLast(items, m)) = Len(items)
           /\ ChangeLast(items, m)[Len(items)] = m
           /\ \A i \in 1..(Len(items) - 1) : ChangeLast(items, m)[i] = items[i]
<1>1. Len(items) \in Nat \ {0}
    BY EmptySeq
<1>2. PICK f : f = SubSeq(items, 1, Len(items) - 1)
    OBVIOUS
<1>3. /\ f \in Seq(S) /\ Len(f) = Len(items) - 1
      /\ \A i \in 1..(Len(items) - 1) : f[i] = items[i]
    <2>1. \A i \in 1..(Len(items) - 1) : items[i] \in S
        BY <1>1
    <2>2. PICK n \in Int : n = Len(items) - 1
        BY <1>1
    <2>3. /\ f \in Seq(S) /\ Len(f) = IF 1 <= n THEN n - 1 + 1 ELSE 0
          /\ \A i \in 1..(n - 1 + 1) : f[i] = items[1 + i - 1]
        BY <1>2, <2>1, <2>2, SubSeqProperties
    <2>4. Len(f) = n
        BY <1>1, <2>2, <2>3
    <2>5. \A i \in 1..n : f[i] = items[i]
        <3> TAKE i \in 1..n
        <3>1. i \in 1..(n - 1 + 1) /\ 1 + i - 1 = i
            OBVIOUS
        <3> QED
            BY <2>3, <3>1
    <2> QED
        BY <2>2, <2>3, <2>4, <2>5
<1>4. PICK r : r = Append(f, m)
    OBVIOUS
<1>5. /\ r \in Seq(S) /\ Len(r) = Len(items) /\ r[Len(items)] = m
      /\ \A i \in 1..(Len(items) - 1) : r[i] = items[i]
    BY <1>1, <1>3, <1>4
<1>6. r = ChangeLast(items, m)
    BY <1>2, <1>4 DEF ChangeLast, Front
<1> QED
    BY <1>5, <1>6

LEMMA ChangeLastKeeps ==
    ASSUME NEW S, NEW items \in Seq(S), items # <<>>, NEW m \in S
    PROVE  \A i \in 1..(Len(items) - 1) : ChangeLast(items, m)[i] = items[i]
BY ChangeLastIs

(* The answer at the end of a transcript is replaced by what is no prompt.   *)
LEMMA LastChanged ==
    ASSUME NEW p \in Nat, NEW items \in Seq(Shows(p)), NEW t \in 1..p, NEW m \in Shows(p),
           items # <<>>, IsAnswer(Last(items)), m.role # "user", NEW r, r = ChangeLast(items, m)
    PROVE  /\ r \in Seq(Shows(p))
           /\ \A i \in DOMAIN r : r[i] = m \/ \E j \in DOMAIN items : items[j] = r[i]
           /\ ~IsRunning(m) => NoMoreRunning(items, r)
           /\ m.task \in {0, t} /\ Fresh(items, t) => Fresh(r, t)
<1> DEFINE N == Len(items)
<1>2. N \in Nat \ {0} /\ DOMAIN items = 1..N
    BY EmptySeq
<1>3. /\ r \in Seq(Shows(p)) /\ Len(r) = N /\ DOMAIN r = 1..N /\ r[N] = m
      /\ \A i \in 1..(N - 1) : r[i] = items[i]
    <2>1. ChangeLast(items, m) \in Seq(Shows(p)) /\ Len(ChangeLast(items, m)) = Len(items)
        BY ChangeLastIs
    <2>2. ChangeLast(items, m)[Len(items)] = m
        BY ChangeLastIs
    <2>3. \A i \in 1..(Len(items) - 1) : ChangeLast(items, m)[i] = items[i]
        BY ChangeLastKeeps
    <2> QED
        BY <2>1, <2>2, <2>3
<1>4. \A i \in DOMAIN r : r[i] = m \/ \E j \in DOMAIN items : items[j] = r[i]
    BY <1>2, <1>3
<1>5. ASSUME m.task \in {0, t}, Fresh(items, t) PROVE Fresh(r, t)
    <2>1. PICK i \in 1..N :
              /\ items[i] = UserMessage(t)
              /\ \A j \in 1..N : j # i => items[j] # UserMessage(t)
              /\ \A j \in 1..N : IF j < i THEN items[j].task # t ELSE items[j].task \in {0, t}
        BY <1>2, <1>5 DEF Fresh
    <2>2. UserMessage(t).role = "user"
        BY MessageIs, t \in Nat DEF UserMessage
    <2>3. i # N /\ items[N].role = "assistant"
        BY <2>1, <2>2 DEF IsAnswer, Last
    <2> HIDE DEF N
    <2>4. \A j \in 1..N : j # N => r[j] = items[j]
        BY <1>2, <1>3
    <2>5. r[i] = UserMessage(t)
        BY <2>1, <2>3, <2>4
    <2>6. \A j \in 1..N : j # i => r[j] # UserMessage(t)
        BY <1>3, <2>1, <2>2, <2>3, <2>4
    <2>7. \A j \in 1..N : IF j < i THEN r[j].task # t ELSE r[j].task \in {0, t}
        BY <1>2, <1>3, <1>5, <2>1, <2>3, <2>4
    <2> QED
        BY <1>3, <2>5, <2>6, <2>7 DEF Fresh
<1> QED
    BY <1>3, <1>4, <1>5 DEF NoMoreRunning

LEMMA AnswerLit ==
    ASSUME NEW p \in Nat, NEW items \in Seq(Shows(p)), NEW t \in 1..p, NEW m \in Shows(p), NEW d \in Nat,
           items # <<>>, IsAnswer(m) \/ m.got = 0, m.task = t, Lit(items, t, d)
    PROVE  Lit(ChangeLast(items, m), t, m.got)
<1>1. PICK r : r = ChangeLast(items, m)
    OBVIOUS
<1> DEFINE N == Len(items)
<1>2. N \in Nat \ {0} /\ DOMAIN items = 1..N /\ m.got \in Nat
    BY EmptySeq DEF Shows, Items
<1>3. /\ r \in Seq(Shows(p)) /\ Len(r) = N /\ DOMAIN r = 1..N /\ r[N] = m
      /\ \A i \in 1..(N - 1) : r[i] = items[i]
    <2>1. ChangeLast(items, m) \in Seq(Shows(p)) /\ Len(ChangeLast(items, m)) = Len(items)
        BY ChangeLastIs
    <2>2. ChangeLast(items, m)[Len(items)] = m
        BY ChangeLastIs
    <2>3. \A i \in 1..(Len(items) - 1) : ChangeLast(items, m)[i] = items[i]
        BY ChangeLastKeeps
    <2> QED
        BY <1>1, <2>1, <2>2, <2>3
<1> HIDE DEF N
<1>4. \A i \in 1..N : r[i].task = t /\ r[i].got > 0 => i = N /\ m.got > 0
    <2> TAKE i \in 1..N
    <2>1. CASE i = N
        BY <1>3, <2>1
    <2>2. CASE i \in 1..(N - 1)
        <3>1. items[i].task = t /\ items[i].got > 0 => i = N
            BY <1>2, <2>2 DEF Lit, N
        <3> QED
            BY <1>2, <1>3, <2>2, <3>1
    <2> QED
        BY <1>2, <2>1, <2>2
<1>5. r # <<>> /\ Last(r) = m
    BY <1>2, <1>3, EmptySeq DEF Last
<1> QED
    BY <1>1, <1>3, <1>4, <1>5 DEF Lit

(* A message is added that is no prompt.                                    *)
LEMMA AppendShown ==
    ASSUME NEW p \in Nat, NEW items \in Seq(Shows(p)), NEW t \in 1..p, NEW m \in Shows(p),
           m.role # "user", m.task = t, m.got = 0
    PROVE  /\ Append(items, m) \in Seq(Shows(p)) /\ Append(items, m) # <<>> /\ Last(Append(items, m)) = m
           /\ \A i \in DOMAIN Append(items, m) :
                 IsRunning(Append(items, m)[i]) =>
                     (Append(items, m)[i] = m \/ \E j \in DOMAIN items : items[j] = Append(items, m)[i])
           /\ Fresh(items, t) => Fresh(Append(items, m), t)
           /\ Lit(items, t, 0) => Lit(Append(items, m), t, 0)
<1>1. PICK r : r = Append(items, m)
    OBVIOUS
<1> DEFINE N == Len(items)
<1>2. N \in Nat /\ DOMAIN items = 1..N
    OBVIOUS
<1>3. /\ r \in Seq(Shows(p)) /\ Len(r) = N + 1 /\ DOMAIN r = 1..(N + 1) /\ r[N + 1] = m
      /\ \A i \in 1..N : r[i] = items[i]
    BY <1>1
<1> HIDE DEF N
<1>4. r # <<>> /\ Last(r) = m
    BY <1>2, <1>3, EmptySeq DEF Last
<1>5. \A i \in DOMAIN r : r[i] = m \/ \E j \in DOMAIN items : items[j] = r[i]
    <2> TAKE i \in DOMAIN r
    <2>1. i = N + 1 \/ i \in 1..N
        BY <1>2, <1>3
    <2> QED
        BY <1>2, <1>3, <2>1
<1>6. ASSUME Fresh(items, t) PROVE Fresh(r, t)
    <2>1. PICK i \in 1..N :
              /\ items[i] = UserMessage(t)
              /\ \A j \in 1..N : j # i => items[j] # UserMessage(t)
              /\ \A j \in 1..N : IF j < i THEN items[j].task # t ELSE items[j].task \in {0, t}
        BY <1>2, <1>6 DEF Fresh
    <2>2. UserMessage(t).role = "user"
        BY MessageIs, t \in Nat DEF UserMessage
    <2>3. ASSUME NEW j \in 1..(N + 1)
          PROVE  /\ j # i => r[j] # UserMessage(t)
                 /\ IF j < i THEN r[j].task # t ELSE r[j].task \in {0, t}
        <3>1. CASE j = N + 1
            BY <1>2, <1>3, <2>2, <3>1
        <3>2. CASE j \in 1..N
            BY <1>3, <2>1, <3>2
        <3> QED
            BY <1>2, <3>1, <3>2
    <2>4. i \in 1..(N + 1) /\ r[i] = UserMessage(t)
        BY <1>2, <1>3, <2>1
    <2> QED
        BY <1>3, <2>3, <2>4 DEF Fresh
<1>7. ASSUME Lit(items, t, 0) PROVE Lit(r, t, 0)
    <2>1. ASSUME NEW i \in 1..(N + 1) PROVE ~(r[i].task = t /\ r[i].got > 0)
        <3>1. CASE i = N + 1
            BY <1>3, <3>1
        <3>2. CASE i \in 1..N
            BY <1>2, <1>3, <1>7, <3>2 DEF Lit
        <3> QED
            BY <1>2, <3>1, <3>2
    <2> QED
        BY <1>3, <2>1 DEF Lit
<1> QED
    BY <1>1, <1>3, <1>4, <1>5, <1>6, <1>7

LEMMA WithAnswerIs ==
    ASSUME NEW p \in Nat, NEW items \in Seq(Shows(p)), NEW t \in 1..p,
           NEW r, r = WithAnswer(items, t)
    PROVE  /\ r \in Seq(Shows(p)) /\ r # <<>> /\ Last(r) \in Shows(p)
           /\ IsAnswer(Last(r)) /\ Last(r).task = t
           /\ NoMoreRunning(items, r)
           /\ Fresh(items, t) => Fresh(r, t)
           /\ \A d \in Nat : Lit(items, t, d) => Lit(r, t, d) /\ Last(r).got = d
<1>1. CASE items # <<>> /\ IsAnswer(Last(items)) /\ Last(items).task = t
    <2>1. r = items
        BY <1>1 DEF WithAnswer
    <2>2. Len(items) \in DOMAIN items
        BY <1>1, EmptySeq
    <2>3. Last(items) \in Shows(p) /\ Last(items).got \in Nat
        BY <2>2 DEF Last, Shows, Items
    <2>4. \A d \in Nat : Lit(items, t, d) => Last(items).got = d
        BY <1>1, <2>2, <2>3 DEF Lit, Last
    <2> QED
        BY <1>1, <2>1, <2>3, <2>4 DEF NoMoreRunning
<1>2. CASE ~(items # <<>> /\ IsAnswer(Last(items)) /\ Last(items).task = t)
    <2>1. PICK m : m = [Placeholder(t) EXCEPT !.task = t]
        OBVIOUS
    <2>2. r = Append(items, m)
        BY <1>2, <2>1 DEF WithAnswer
    <2>3. m \in Shows(p) /\ IsAnswer(m) /\ m.task = t /\ m.got = 0 /\ m.role # "user" /\ ~IsRunning(m)
        BY <2>1, PlaceholderIs DEF IsAnswer, IsRunning
    <2>4. /\ Append(items, m) \in Seq(Shows(p)) /\ Append(items, m) # <<>> /\ Last(Append(items, m)) = m
          /\ Fresh(items, t) => Fresh(Append(items, m), t)
          /\ Lit(items, t, 0) => Lit(Append(items, m), t, 0)
        BY <2>3, AppendShown
    <2>5. NoMoreRunning(items, r)
        <3>1. \A i \in DOMAIN Append(items, m) :
                 IsRunning(Append(items, m)[i]) =>
                     (Append(items, m)[i] = m \/ \E j \in DOMAIN items : items[j] = Append(items, m)[i])
            BY <2>3, AppendShown
        <3> QED
            BY <2>2, <2>3, <3>1 DEF NoMoreRunning
    <2>6. \A d \in Nat : Lit(items, t, d) => d = 0
        BY <1>2 DEF Lit
    <2> QED
        BY <2>2, <2>3, <2>4, <2>5, <2>6
<1> QED
    BY <1>1, <1>2

(* What an event of the answer leaves on the transcript.                    *)
LEMMA AnswerEventIs ==
    ASSUME NEW p \in Nat, NEW items \in Seq(Shows(p)), NEW t \in 1..p,
           NEW its, its = WithAnswer(items, t), NEW m \in Shows(p), IsAnswer(m), m.task = t,
           NEW r, r = ChangeLast(its, m)
    PROVE  /\ r \in Seq(Shows(p)) /\ NoMoreRunning(items, r)
           /\ Fresh(items, t) => Fresh(r, t)
           /\ \A d \in Nat : Lit(items, t, d) => Lit(r, t, m.got)
<1>1. /\ its \in Seq(Shows(p)) /\ its # <<>> /\ IsAnswer(Last(its))
      /\ NoMoreRunning(items, its)
      /\ Fresh(items, t) => Fresh(its, t)
      /\ \A d \in Nat : Lit(items, t, d) => Lit(its, t, d)
    BY WithAnswerIs
<1>2. /\ r \in Seq(Shows(p)) /\ NoMoreRunning(its, r)
      /\ Fresh(its, t) => Fresh(r, t)
    <2>1. m.role # "user" /\ ~IsRunning(m)
        BY DEF IsAnswer, IsRunning
    <2> QED
        BY <1>1, <2>1, LastChanged
<1>3. \A d \in Nat : Lit(its, t, d) => Lit(r, t, m.got)
    BY <1>1, AnswerLit
<1>4. NoMoreRunning(items, r)
    BY <1>1, <1>2 DEF NoMoreRunning
<1> QED
    BY <1>1, <1>2, <1>3, <1>4

LEMMA DeltaIs ==
    ASSUME NEW p \in Nat, NEW items \in Seq(Shows(p)), NEW t \in 1..p, NEW r, r = DeltaShown(items, t)
    PROVE  /\ r \in Seq(Shows(p)) /\ NoMoreRunning(items, r)
           /\ Fresh(items, t) => Fresh(r, t)
           /\ \A d \in Nat : Lit(items, t, d) => Lit(r, t, d + 1)
<1>1. PICK its : its = WithAnswer(items, t)
    OBVIOUS
<1>2. PICK w : w = Last(its)
    OBVIOUS
<1>3. /\ w \in Shows(p) /\ IsAnswer(w) /\ w.task = t
      /\ \A d \in Nat : Lit(items, t, d) => w.got = d
    BY <1>1, <1>2, WithAnswerIs
<1>4. PICK m : m = [w EXCEPT !.got = @ + 1]
    OBVIOUS
<1>5. m \in Shows(p) /\ IsAnswer(m) /\ m.task = t /\ m.got = w.got + 1
    <2>1. w \in Items /\ w.role = "assistant" /\ w.task <= p
        BY <1>3 DEF Shows, IsAnswer
    <2>2. m \in Items /\ m.role = "assistant" /\ m.task = w.task /\ m.got = w.got + 1
        BY <1>4, <2>1 DEF Items
    <2> QED
        BY <1>3, <2>1, <2>2 DEF Shows, IsAnswer
<1>6. r = ChangeLast(its, m)
    BY <1>1, <1>2, <1>4 DEF DeltaShown
<1>7. /\ r \in Seq(Shows(p)) /\ NoMoreRunning(items, r)
      /\ Fresh(items, t) => Fresh(r, t)
      /\ \A d \in Nat : Lit(items, t, d) => Lit(r, t, m.got)
    BY <1>1, <1>5, <1>6, AnswerEventIs
<1> QED
    BY <1>3, <1>5, <1>7

LEMMA RetryIs ==
    ASSUME NEW p \in Nat, NEW items \in Seq(Shows(p)), NEW t \in 1..p, NEW r, r = RetryShown(items, t)
    PROVE  /\ r \in Seq(Shows(p)) /\ NoMoreRunning(items, r)
           /\ Fresh(items, t) => Fresh(r, t)
           /\ \A d \in Nat : Lit(items, t, d) => Lit(r, t, 0)
<1>1. PICK its : its = WithAnswer(items, t)
    OBVIOUS
<1>2. PICK w : w = Last(its)
    OBVIOUS
<1>3. w \in Shows(p) /\ IsAnswer(w) /\ w.task = t
    BY <1>1, <1>2, WithAnswerIs
<1>4. PICK w1 : w1 = [w EXCEPT !.got = 0]
    OBVIOUS
<1>5. w1 \in Shows(p) /\ IsAnswer(w1) /\ w1.task = t /\ w1.got = 0
    BY <1>3, <1>4 DEF Shows, Items, IsAnswer
<1>6. PICK w2 : w2 = [w1 EXCEPT !.rounds = 0]
    OBVIOUS
<1>7. w2 \in Shows(p) /\ IsAnswer(w2) /\ w2.task = t /\ w2.got = 0
    BY <1>5, <1>6 DEF Shows, Items, IsAnswer
<1>8. PICK m : m = [w2 EXCEPT !.notice = TRUE]
    OBVIOUS
<1>9. m \in Shows(p) /\ IsAnswer(m) /\ m.task = t /\ m.got = 0
    <2>1. w2 \in Items /\ w2.role = "assistant" /\ w2.task <= p
        BY <1>7 DEF Shows, IsAnswer
    <2>2. m \in Items /\ m.role = "assistant" /\ m.task = w2.task /\ m.got = w2.got
        BY <1>8, <2>1 DEF Items
    <2> QED
        BY <1>7, <2>1, <2>2 DEF Shows, IsAnswer
<1>10. r = ChangeLast(its, m)
    BY <1>1, <1>2, <1>4, <1>6, <1>8 DEF RetryShown
<1>11. /\ r \in Seq(Shows(p)) /\ NoMoreRunning(items, r)
       /\ Fresh(items, t) => Fresh(r, t)
       /\ \A d \in Nat : Lit(items, t, d) => Lit(r, t, m.got)
    BY <1>1, <1>9, <1>10, AnswerEventIs
<1> QED
    BY <1>9, <1>11

LEMMA RoundIs ==
    ASSUME NEW p \in Nat, NEW items \in Seq(Shows(p)), NEW t \in 1..p, NEW r, r = RoundShown(items, t)
    PROVE  /\ r \in Seq(Shows(p)) /\ NoMoreRunning(items, r)
           /\ Fresh(items, t) => Fresh(r, t)
           /\ \A d \in Nat : Lit(items, t, d) => Lit(r, t, 0)
<1>1. PICK its : its = WithAnswer(items, t)
    OBVIOUS
<1>2. PICK w : w = Last(its)
    OBVIOUS
<1>3. w \in Shows(p) /\ IsAnswer(w) /\ w.task = t
    BY <1>1, <1>2, WithAnswerIs
<1>4. PICK w1 : w1 = [w EXCEPT !.got = 0]
    OBVIOUS
<1>5. w1 \in Shows(p) /\ IsAnswer(w1) /\ w1.task = t /\ w1.got = 0
    BY <1>3, <1>4 DEF Shows, Items, IsAnswer
<1>6. PICK m : m = [w1 EXCEPT !.rounds = @ + 1]
    OBVIOUS
<1>7. m \in Shows(p) /\ IsAnswer(m) /\ m.task = t /\ m.got = 0
    <2>1. w1 \in Items /\ w1.role = "assistant" /\ w1.task <= p
        BY <1>5 DEF Shows, IsAnswer
    <2>2. m \in Items /\ m.role = "assistant" /\ m.task = w1.task /\ m.got = w1.got
        BY <1>6, <2>1 DEF Items
    <2> QED
        BY <1>5, <2>1, <2>2 DEF Shows, IsAnswer
<1>8. r = ChangeLast(its, m)
    BY <1>1, <1>2, <1>4, <1>6 DEF RoundShown
<1>9. /\ r \in Seq(Shows(p)) /\ NoMoreRunning(items, r)
      /\ Fresh(items, t) => Fresh(r, t)
      /\ \A d \in Nat : Lit(items, t, d) => Lit(r, t, m.got)
    BY <1>1, <1>7, <1>8, AnswerEventIs
<1> QED
    BY <1>7, <1>9

LEMMA LastIs ==
    ASSUME NEW S, NEW items \in Seq(S), items # <<>>
    PROVE  Last(items) \in S /\ Len(items) \in DOMAIN items /\ Last(items) = items[Len(items)]
BY EmptySeq DEF Last

LEMMA TaggedIs ==
    ASSUME NEW p \in Nat, NEW items \in Seq(Shows(p)), NEW t \in 1..p, NEW r, r = Tagged(items, t)
    PROVE  /\ r \in Seq(Shows(p)) /\ NoMoreRunning(items, r)
           /\ Fresh(items, t) => Fresh(r, t)
           /\ \A d \in Nat : Fresh(items, t) /\ Lit(items, t, d) => Lit(r, t, d)
<1>1. CASE items # <<>> /\ IsAnswer(Last(items))
    <2>1. PICK w : w = Last(items)
        OBVIOUS
    <2>2. w \in Shows(p) /\ IsAnswer(w) /\ w = items[Len(items)] /\ Len(items) \in DOMAIN items
        BY <1>1, <2>1, LastIs
    <2>3. PICK m : m = [w EXCEPT !.task = t]
        OBVIOUS
    <2>4. m \in Shows(p) /\ IsAnswer(m) /\ m.task = t /\ m.got = w.got
        <3>1. w \in Items /\ w.role = "assistant"
            BY <2>2 DEF Shows, IsAnswer
        <3>2. m \in Items /\ m.role = "assistant" /\ m.task = t /\ m.got = w.got
            BY <2>3, <3>1 DEF Items
        <3> QED
            BY <3>2 DEF Shows, IsAnswer
    <2>5. r = ChangeLast(items, m)
        BY <1>1, <2>1, <2>3 DEF Tagged
    <2>6. r \in Seq(Shows(p)) /\ NoMoreRunning(items, r) /\ (Fresh(items, t) => Fresh(r, t))
        <3>1. m.role # "user" /\ ~IsRunning(m)
            BY <2>4 DEF IsAnswer, IsRunning
        <3> QED
            BY <1>1, <2>4, <2>5, <3>1, LastChanged
    <2>7. ASSUME NEW d \in Nat, Fresh(items, t), Lit(items, t, d) PROVE Lit(r, t, d)
        <3>1. w.task \in {0, t}
            <4>1. PICK i \in DOMAIN items :
                      /\ items[i] = UserMessage(t)
                      /\ \A j \in DOMAIN items : IF j < i THEN items[j].task # t ELSE items[j].task \in {0, t}
                BY <2>7 DEF Fresh
            <4>2. ~(Len(items) < i)
                OBVIOUS
            <4> QED
                BY <2>2, <4>1, <4>2
        <3>2. w.got = d
            <4>1. w.task = 0 => w.got = 0
                BY <2>2 DEF Shows
            <4>2. d > 0 => w.got = d
                BY <2>1, <2>7 DEF Lit
            <4>3. w.task = t /\ w.got > 0 => d > 0
                BY <2>2, <2>7 DEF Lit
            <4>4. w.got \in Nat
                BY <2>2 DEF Shows, Items
            <4> QED
                BY <3>1, <4>1, <4>2, <4>3, <4>4
        <3>3. Lit(r, t, m.got)
            BY <1>1, <2>4, <2>5, <2>7, AnswerLit
        <3> QED
            BY <2>4, <3>2, <3>3
    <2> QED
        BY <2>6, <2>7
<1>2. CASE ~(items # <<>> /\ IsAnswer(Last(items)))
    BY <1>2 DEF Tagged, NoMoreRunning
<1> QED
    BY <1>1, <1>2

LEMMA WithoutPlaceholderIs ==
    ASSUME NEW S, NEW items \in Seq(S), NEW r, r = WithoutPlaceholder(items)
    PROVE  r \in Seq(S) /\ NoMoreRunning(items, r)
<1>1. CASE items # <<>> /\ r = Front(items)
    <2>1. Len(items) \in Nat \ {0} /\ DOMAIN items = 1..Len(items)
        BY <1>1, EmptySeq
    <2>2. PICK f : f = SubSeq(items, 1, Len(items) - 1)
        OBVIOUS
    <2>3. /\ f \in Seq(S) /\ DOMAIN f = 1..(Len(items) - 1)
          /\ \A i \in 1..(Len(items) - 1) : f[i] = items[i]
        BY <2>1, <2>2
    <2>4. r = f
        BY <1>1, <2>2 DEF Front
    <2> QED
        BY <2>1, <2>3, <2>4 DEF NoMoreRunning
<1>2. CASE r = items
    BY <1>2 DEF NoMoreRunning
<1> QED
    BY <1>1, <1>2 DEF WithoutPlaceholder

(* A divider is put on the transcript, or told to be done.                  *)
LEMMA DividerShownIs ==
    ASSUME NEW p \in Nat, NEW items \in Seq(Shows(p)), NEW t \in 1..p, NEW done \in BOOLEAN,
           NEW r, r = DividerShown(items, t, done)
    PROVE  /\ r \in Seq(Shows(p))
           /\ \A i \in DOMAIN r : IsRunning(r[i]) =>
                 IF r[i].task = t THEN ~done ELSE \E j \in DOMAIN items : items[j] = r[i]
           /\ Fresh(items, t) => Fresh(r, t)
           /\ Lit(items, t, 0) => Lit(r, t, 0)
<1>1. PICK w : w = [Divider(t) EXCEPT !.notice = done]
    OBVIOUS
<1>2. /\ w \in Shows(p) /\ w.role = "compaction" /\ w.task = t /\ w.got = 0 /\ w.notice = done
    BY <1>1, DividerIs
<1>3. IsRunning(w) <=> ~done
    BY <1>2 DEF IsRunning
<1>4. CASE HasDivider(items, t)
    <2>1. r = [i \in DOMAIN items |-> IF IsDivider(items[i], t) THEN w ELSE items[i]]
        BY <1>1, <1>4 DEF DividerShown
    <2>2. /\ r \in Seq(Shows(p)) /\ DOMAIN r = DOMAIN items /\ Len(r) = Len(items)
        BY <1>2, <2>1
    <2>3. \A i \in DOMAIN items : r[i] = IF IsDivider(items[i], t) THEN w ELSE items[i]
        BY <2>1
    <2> HIDE <2>1
    <2>4. ASSUME NEW i \in DOMAIN r, IsRunning(r[i])
          PROVE  IF r[i].task = t THEN ~done ELSE \E j \in DOMAIN items : items[j] = r[i]
        BY <1>2, <1>3, <2>2, <2>3, <2>4 DEF IsRunning, IsDivider
    <2>5. ASSUME Fresh(items, t) PROVE Fresh(r, t)
        <3>1. PICK i \in DOMAIN items :
                  /\ items[i] = UserMessage(t)
                  /\ \A j \in DOMAIN items : j # i => items[j] # UserMessage(t)
                  /\ \A j \in DOMAIN items : IF j < i THEN items[j].task # t ELSE items[j].task \in {0, t}
            BY <2>5 DEF Fresh
        <3>2. UserMessage(t).role = "user"
            BY MessageIs, t \in Nat DEF UserMessage
        <3>3. r[i] = UserMessage(t)
            BY <2>3, <3>1, <3>2 DEF IsDivider
        <3>4. \A j \in DOMAIN r : j # i => r[j] # UserMessage(t)
            BY <1>2, <2>2, <2>3, <3>1, <3>2
        <3>5. \A j \in DOMAIN r : IF j < i THEN r[j].task # t ELSE r[j].task \in {0, t}
            BY <1>2, <2>2, <2>3, <3>1 DEF IsDivider
        <3> QED
            BY <2>2, <3>3, <3>4, <3>5 DEF Fresh
    <2>6. ASSUME Lit(items, t, 0) PROVE Lit(r, t, 0)
        BY <1>2, <2>2, <2>3, <2>6 DEF Lit
    <2> QED
        BY <2>2, <2>4, <2>5, <2>6
<1>5. CASE ~HasDivider(items, t) /\ items # <<>> /\ IsAnswer(Last(items)) /\ Last(items).task \in {0, t}
            /\ IsEmptyMessage(Last(items))
    <2>1. PICK v : v = Last(items)
        OBVIOUS
    <2>2. v \in Shows(p) /\ v.role = "assistant" /\ v.got = 0
        BY <1>5, <2>1, LastIs DEF IsAnswer, IsEmptyMessage
    <2>3. PICK m : m = [v EXCEPT !.task = t]
        OBVIOUS
    <2>4. m \in Shows(p) /\ m.role # "user" /\ m.task = t /\ m.got = 0 /\ ~IsRunning(m)
        <3>1. v \in Items
            BY <2>2 DEF Shows
        <3>2. m \in Items /\ m.role = "assistant" /\ m.task = t /\ m.got = 0
            BY <2>2, <2>3, <3>1 DEF Items
        <3> QED
            BY <3>2 DEF Shows, IsAnswer, IsRunning
    <2>5. PICK c : c = ChangeLast(items, w)
        OBVIOUS
    <2>6. r = Append(c, m)
        <3>1. r = Front(items) \o <<w, m>>
            BY <1>1, <1>5, <2>1, <2>3 DEF DividerShown
        <3>2. Front(items) \in Seq(Shows(p))
            <4>1. Len(items) \in Nat \ {0}
                BY <1>5, EmptySeq
            <4> QED
                BY <4>1 DEF Front
        <3>3. PICK f \in Seq(Shows(p)) : f = Front(items)
            BY <3>2
        <3>4. f \o <<w, m>> = Append(Append(f, w), m)
            BY <1>2, <2>4
        <3> QED
            BY <2>5, <3>1, <3>3, <3>4 DEF ChangeLast
    <2>7. /\ c \in Seq(Shows(p))
          /\ \A i \in DOMAIN c : c[i] = w \/ \E j \in DOMAIN items : items[j] = c[i]
          /\ Fresh(items, t) => Fresh(c, t)
        BY <1>2, <1>5, <2>5, LastChanged
    <2>8. Lit(items, t, 0) => Lit(c, t, 0)
        BY <1>2, <1>5, <2>5, AnswerLit
    <2>9. /\ Append(c, m) \in Seq(Shows(p))
          /\ Fresh(c, t) => Fresh(Append(c, m), t)
          /\ Lit(c, t, 0) => Lit(Append(c, m), t, 0)
        BY <2>4, <2>7, AppendShown
    <2>10. \A i \in DOMAIN Append(c, m) : IsRunning(Append(c, m)[i]) =>
              (Append(c, m)[i] = m \/ \E j \in DOMAIN c : c[j] = Append(c, m)[i])
        BY <2>4, <2>7, AppendShown
    <2>11. ASSUME NEW i \in DOMAIN r, IsRunning(r[i])
           PROVE  IF r[i].task = t THEN ~done ELSE \E j \in DOMAIN items : items[j] = r[i]
        <3>1. PICK j \in DOMAIN c : c[j] = r[i]
            BY <2>4, <2>6, <2>10, <2>11
        <3>2. r[i] = w \/ \E l \in DOMAIN items : items[l] = r[i]
            BY <2>7, <3>1
        <3>3. \A l \in DOMAIN items : ~IsDivider(items[l], t)
            BY <1>5 DEF HasDivider
        <3> QED
            BY <1>2, <1>3, <2>11, <3>2, <3>3 DEF IsDivider, IsRunning
    <2> QED
        BY <2>6, <2>7, <2>8, <2>9, <2>11
<1>6. CASE ~HasDivider(items, t) /\ r = Append(items, w)
    <2>1. /\ Append(items, w) \in Seq(Shows(p))
          /\ Fresh(items, t) => Fresh(Append(items, w), t)
          /\ Lit(items, t, 0) => Lit(Append(items, w), t, 0)
        BY <1>2, AppendShown
    <2>2. \A i \in DOMAIN Append(items, w) : IsRunning(Append(items, w)[i]) =>
              (Append(items, w)[i] = w \/ \E j \in DOMAIN items : items[j] = Append(items, w)[i])
        BY <1>2, AppendShown
    <2>3. ASSUME NEW i \in DOMAIN r, IsRunning(r[i])
          PROVE  IF r[i].task = t THEN ~done ELSE \E j \in DOMAIN items : items[j] = r[i]
        <3>2. r[i] = w \/ \E l \in DOMAIN items : items[l] = r[i]
            BY <1>6, <2>2, <2>3
        <3>3. \A l \in DOMAIN items : ~IsDivider(items[l], t)
            BY <1>6 DEF HasDivider
        <3> QED
            BY <1>2, <1>3, <2>3, <3>2, <3>3 DEF IsDivider, IsRunning
    <2> QED
        BY <1>6, <2>1, <2>3
<1> QED
    BY <1>1, <1>4, <1>5, <1>6 DEF DividerShown

LEMMA ShowsMonotonic ==
    ASSUME NEW p \in Nat, NEW q \in Nat, p <= q
    PROVE  Shows(p) \subseteq Shows(q)
BY DEF Shows, Items

(* A divider is taken away unless it is done.                               *)
LEMMA DividerHiddenIs ==
    ASSUME NEW p \in Nat, NEW items \in Seq(Shows(p)), NEW t, NEW r, r = DividerHidden(items, t)
    PROVE  /\ r \in Seq(Shows(p)) /\ NoMoreRunning(items, r)
           /\ \A i \in DOMAIN r : IsRunning(r[i]) => r[i].task # t
           /\ \A n \in Nat : Fresh(items, n) => Fresh(r, n)
           /\ \A n \in Nat, d \in Nat : Lit(items, n, d) => Lit(r, n, d)
<1>1. CASE IsDone(items, t)
    <2>1. r = items
        BY <1>1 DEF DividerHidden
    <2>2. ASSUME NEW i \in DOMAIN items, IsRunning(items[i]), items[i].task = t PROVE FALSE
        <3>1. PICK m \in Shows(p) : m = items[i]
            OBVIOUS
        <3>2. m = Divider(t)
            BY <2>2, <3>1, RunningIsDivider
        <3> QED
            BY <1>1, <3>1, <3>2 DEF IsDone, Range
    <2> QED
        BY <2>1, <2>2 DEF NoMoreRunning
<1>2. CASE ~IsDone(items, t)
    <2>1. r = Without(items, t)
        BY <1>2 DEF DividerHidden
    <2>2. PICK f : Leaves(items, t, r, f)
        BY <2>1, WithoutIs
    <2> DEFINE N == Len(items)  L == Len(f)
    <2>3. N \in Nat /\ DOMAIN items = 1..N /\ (N = 0 <=> items = <<>>)
        BY EmptySeq
    <2>4. /\ f \in Seq(1..N) /\ Len(r) = L
          /\ \A k \in 1..L : r[k] = items[f[k]] /\ ~IsDivider(r[k], t)
          /\ \A j, k \in 1..L : j < k => f[j] < f[k]
          /\ \A i \in 1..N : ~IsDivider(items[i], t) => \E k \in 1..L : f[k] = i
        BY <2>2, <2>3 DEF Leaves
    <2>5. r \in Seq(Shows(p))
        <3>1. r \in Seq(Range(items))
            BY <2>2 DEF Leaves
        <3>2. Range(items) \subseteq Shows(p)
            BY DEF Range
        <3> QED
            BY <3>1, <3>2, SeqMonotonic
    <2>6. L \in Nat /\ DOMAIN r = 1..L /\ \A k \in 1..L : f[k] \in 1..N
        BY <2>4, <2>5
    <2> HIDE DEF N, L
    <2>7. NoMoreRunning(items, r)
        BY <2>3, <2>4, <2>6 DEF NoMoreRunning
    <2>8. \A i \in DOMAIN r : IsRunning(r[i]) => r[i].task # t
        BY <2>4, <2>6 DEF IsRunning, IsDivider
    <2>9. ASSUME NEW n \in Nat, Fresh(items, n) PROVE Fresh(r, n)
        <3>1. PICK i \in 1..N :
                  /\ items[i] = UserMessage(n)
                  /\ \A j \in 1..N : j # i => items[j] # UserMessage(n)
                  /\ \A j \in 1..N : IF j < i THEN items[j].task # n ELSE items[j].task \in {0, n}
            BY <2>3, <2>9 DEF Fresh
        <3>2. UserMessage(n).role = "user"
            BY MessageIs DEF UserMessage
        <3>3. PICK k \in 1..L : f[k] = i
            BY <2>4, <3>1, <3>2 DEF IsDivider
        <3>4. ASSUME NEW j \in 1..L
              PROVE  /\ j # k => r[j] # UserMessage(n)
                     /\ IF j < k THEN r[j].task # n ELSE r[j].task \in {0, n}
            <4>1. f[j] \in 1..N /\ r[j] = items[f[j]]
                BY <2>4, <2>6
            <4>2. CASE j < k
                <5>1. f[j] < i
                    BY <2>4, <3>3, <4>2
                <5> QED
                    BY <3>1, <4>1, <4>2, <5>1
            <4>3. CASE j = k
                BY <3>1, <3>3, <4>1, <4>3
            <4>4. CASE k < j
                <5>1. i < f[j]
                    BY <2>4, <3>3, <4>4
                <5> QED
                    BY <3>1, <4>1, <4>4, <5>1
            <4> QED
                BY <2>6, <4>2, <4>3, <4>4
        <3>5. r[k] = UserMessage(n)
            BY <2>4, <3>1, <3>3
        <3> QED
            BY <2>6, <3>4, <3>5 DEF Fresh
    <2>10. ASSUME NEW k \in 1..L, f[k] = N PROVE k = L
        <3>1. CASE k < L
            <4>1. L \in 1..L /\ f[k] < f[L] /\ f[L] \in 1..N
                BY <2>4, <2>6, <3>1
            <4> QED
                BY <2>3, <2>10, <4>1
        <3> QED
            BY <2>6, <3>1
    <2>11. ASSUME NEW n \in Nat, NEW d \in Nat, Lit(items, n, d) PROVE Lit(r, n, d)
        <3>1. \A k \in 1..L : r[k].task = n /\ r[k].got > 0 => k = L /\ d > 0
            <4> SUFFICES ASSUME NEW k \in 1..L, r[k].task = n, r[k].got > 0 PROVE k = L /\ d > 0
                OBVIOUS
            <4>1. f[k] \in 1..N /\ r[k] = items[f[k]]
                BY <2>4, <2>6
            <4>2. f[k] = N /\ d > 0
                BY <2>3, <2>11, <4>1 DEF Lit, N
            <4> QED
                BY <2>10, <4>2
        <3>2. ASSUME d > 0
              PROVE  r # <<>> /\ IsAnswer(Last(r)) /\ Last(r).task = n /\ Last(r).got = d
            <4>1. items # <<>> /\ IsAnswer(items[N]) /\ items[N].task = n /\ items[N].got = d
                BY <2>11, <3>2 DEF Lit, Last, N
            <4>2. N \in 1..N /\ ~IsDivider(items[N], t)
                BY <2>3, <4>1 DEF IsAnswer, IsDivider
            <4>3. PICK k \in 1..L : f[k] = N
                BY <2>4, <4>2
            <4>4. k = L
                BY <2>10, <4>3
            <4>5. r[L] = items[N] /\ Len(r) = L /\ r # <<>>
                BY <2>4, <2>6, <4>3, <4>4
            <4> QED
                BY <4>1, <4>5 DEF Last
        <3> QED
            BY <2>4, <2>6, <3>1, <3>2 DEF Lit
    <2> QED
        BY <2>5, <2>7, <2>8, <2>9, <2>11
<1> QED
    BY <1>1, <1>2

(* Storage's turns, as the window shows them.                               *)
Rows(p) == [turn : 0..p, rounds : Nat]

LEMMA MappedIs ==
    ASSUME NEW p \in Nat, NEW ts \in Seq(Rows(p)), NEW r, r = Mapped(ts)
    PROVE  r \in Seq(Shows(p)) /\ \A i \in DOMAIN r : ~IsRunning(r[i])
<1> DEFINE S == {m \in Shows(p) : ~IsRunning(m)}
           Pair(i) == <<UserMessage(ts[i].turn)>> \o
                        (IF ts[i].rounds = 0 THEN <<>>
                         ELSE <<[Placeholder(ts[i].turn) EXCEPT !.rounds = ts[i].rounds]>>)
           seqs == [i \in 1..Len(ts) |-> Pair(i)]
<1>1. r = FlattenSeq(seqs) /\ Len(ts) \in Nat
    BY DEF Mapped
<1>2. ASSUME NEW i \in 1..Len(ts) PROVE Pair(i) \in Seq(S)
    <2>1. ts[i] \in Rows(p)
        BY <1>2
    <2>2. PICK n \in Nat : n = ts[i].turn /\ n <= p
        BY <2>1 DEF Rows
    <2>3. PICK k \in Nat : k = ts[i].rounds
        BY <2>1 DEF Rows
    <2>4. PICK u : u = UserMessage(n)
        OBVIOUS
    <2>5. u \in Items /\ u.role = "user" /\ u.turn = n /\ u.task = 0
        BY <2>4, MessageIs DEF UserMessage
    <2>6. u \in S
        BY <2>2, <2>5 DEF Shows, IsRunning, IsAnswer
    <2>7. PICK a : a = Placeholder(n)
        OBVIOUS
    <2>8. a \in Items /\ a.role = "assistant" /\ a.task = 0 /\ a.got = 0
        BY <2>7, MessageIs DEF Placeholder
    <2>9. PICK b : b = [a EXCEPT !.rounds = k]
        OBVIOUS
    <2>10. b \in Items /\ b.role = "assistant" /\ b.task = 0 /\ b.got = 0
        BY <2>8, <2>9 DEF Items
    <2>11. b \in S
        BY <2>10 DEF Shows, IsRunning, IsAnswer
    <2>12. Pair(i) = <<u>> \o (IF k = 0 THEN <<>> ELSE <<b>>)
        BY <2>2, <2>3, <2>4, <2>7, <2>9
    <2> HIDE DEF S, Pair
    <2>13. <<u>> \in Seq(S) /\ <<b>> \in Seq(S) /\ <<>> \in Seq(S)
        BY <2>6, <2>11
    <2> QED
        BY <2>12, <2>13, ConcatProperties
<1> HIDE DEF S, Pair
<1>3. seqs \in Seq(Seq(S)) /\ Len(seqs) = Len(ts)
    <2>1. seqs \in [1..Len(ts) -> Seq(S)]
        BY <1>2
    <2> HIDE DEF seqs
    <2> QED
        BY <1>1, <2>1
<1>4. r \in Seq(S)
    <2>1. CASE Len(ts) = 0
        <3>1. seqs = <<>>
            BY <1>3, <2>1, EmptySeq
        <3> HIDE DEF seqs
        <3>2. r = seqs
            BY <1>1, <1>3, <2>1 DEF FlattenSeq
        <3> QED
            BY <3>1, <3>2
    <2>2. CASE Len(ts) # 0
        <3>1. seqs # <<>>
            BY <1>3, <2>2
        <3> HIDE DEF seqs
        <3>2. PICK f \in [1..Len(seqs) -> Seq(S)] : FlattenSeq(seqs) = f[Len(seqs)]
            BY <1>3, <3>1, FlattenIs
        <3>3. Len(seqs) \in 1..Len(seqs)
            BY <1>1, <1>3, <2>2
        <3> QED
            BY <1>1, <3>2, <3>3
    <2> QED
        BY <2>1, <2>2
<1>5. S \subseteq Shows(p) /\ \A m \in S : ~IsRunning(m)
    BY DEF S
<1>6. r \in Seq(Shows(p))
    BY <1>4, <1>5, SeqMonotonic
<1>7. \A i \in DOMAIN r : r[i] \in S
    BY <1>4
<1> QED
    BY <1>5, <1>6, <1>7

(* A prompt that is sent is on the transcript, with room for its answer.    *)
LEMMA SentIs ==
    ASSUME NEW p \in Nat, NEW items \in Seq(Shows(p)), NEW n, n = p + 1,
           NEW r, r = items \o <<UserMessage(n), Placeholder(n)>>
    PROVE  r \in Seq(Shows(n)) /\ NoMoreRunning(items, r) /\ Fresh(r, n) /\ Lit(r, n, 0)
<1>1. n \in Nat /\ p < n
    OBVIOUS
<1>2. PICK u : u = UserMessage(n)
    OBVIOUS
<1>3. u \in Items /\ u.role = "user" /\ u.turn = n /\ u.task = 0 /\ u.got = 0
    BY <1>1, <1>2, MessageIs DEF UserMessage
<1>4. PICK a : a = Placeholder(n)
    OBVIOUS
<1>5. a \in Items /\ a.role = "assistant" /\ a.task = 0 /\ a.got = 0
    BY <1>1, <1>4, MessageIs DEF Placeholder
<1>6. u \in Shows(n) /\ a \in Shows(n) /\ ~IsRunning(u) /\ ~IsRunning(a)
    BY <1>1, <1>3, <1>5 DEF Shows, IsRunning, IsAnswer
<1>7. items \in Seq(Shows(n))
    BY <1>1, ShowsMonotonic, SeqMonotonic
<1> DEFINE N == Len(items)
<1>8. /\ r \in Seq(Shows(n)) /\ Len(r) = N + 2 /\ N \in Nat /\ DOMAIN r = 1..(N + 2) /\ DOMAIN items = 1..N
      /\ r[N + 1] = u /\ r[N + 2] = a /\ \A i \in 1..N : r[i] = items[i]
    <2>1. r = Append(Append(items, u), a)
        BY <1>2, <1>4, <1>6, <1>7
    <2> QED
        BY <1>6, <1>7, <2>1
<1>9. \A i \in 1..N : items[i].task <= p /\ items[i].task \in Nat /\ items[i] # u
    BY <1>1, <1>3 DEF Shows, Items
<1> HIDE DEF N
<1>10. \A i \in 1..(N + 2) : i \in 1..N \/ i = N + 1 \/ i = N + 2
    BY <1>8
<1>11. NoMoreRunning(items, r)
    BY <1>6, <1>8, <1>10 DEF NoMoreRunning
<1>12. Fresh(r, n)
    <2>1. N + 1 \in 1..(N + 2)
        BY <1>8
    <2>2. \A j \in 1..(N + 2) : j # N + 1 => r[j] # u
        BY <1>3, <1>5, <1>8, <1>9, <1>10
    <2>3. \A j \in 1..(N + 2) : IF j < N + 1 THEN r[j].task # n ELSE r[j].task \in {0, n}
        BY <1>1, <1>3, <1>5, <1>8, <1>9, <1>10
    <2>4. PICK k \in DOMAIN r : k = N + 1
        BY <1>8, <2>1
    <2>5. /\ r[k] = UserMessage(n)
          /\ \A j \in DOMAIN r : j # k => r[j] # UserMessage(n)
          /\ \A j \in DOMAIN r : IF j < k THEN r[j].task # n ELSE r[j].task \in {0, n}
        BY <1>2, <1>8, <2>2, <2>3, <2>4
    <2> QED
        BY <2>5 DEF Fresh
<1>13. Lit(r, n, 0)
    <2>1. \A i \in 1..(N + 2) : ~(r[i].task = n /\ r[i].got > 0)
        BY <1>1, <1>3, <1>5, <1>8, <1>9, <1>10
    <2> QED
        BY <1>8, <2>1 DEF Lit
<1> QED
    BY <1>8, <1>11, <1>12, <1>13

-----------------------------------------------------------------------------
(* A task belongs to one session, and to a prompt that has been sent.       *)

Has(s, t) ==
    \/ <<s, t>> \in starts
    \/ \E a \in answers : a.session = s /\ a.task = t
    \/ Work(s).task = t
    \/ heard[s].task = t
    \/ taskOf[s] = t
    \/ cancels[s].call # "none" /\ cancels[s].task = t
    \/ queue[s] # <<>> /\ queue[s][1].task = t

OwnInv == \A s \in Sessions, t \in Prompts : Has(s, t) =>
    t <= prompts /\ \A o \in Sessions : Has(o, t) => o = s

(* A step about s that gives no session a task it did not have.             *)
NoNewTask(s) ==
    /\ \A t \in Prompts : Has(s, t)' => Has(s, t)
    /\ \A o \in Sessions \ {s} : Same(o) /\ cancels'[o] = cancels[o]
    /\ prompts' = prompts

LEMMA OthersHave ==
    ASSUME NEW o \in Sessions, Same(o), cancels'[o] = cancels[o], NEW t \in Prompts, Has(o, t)'
    PROVE  Has(o, t)
BY DEF Same, Has

LEMMA NoNewTaskOwn ==
    ASSUME OwnInv, NEW s \in Sessions, NoNewTask(s)
    PROVE  OwnInv'
<1>1. \A o \in Sessions, t \in Prompts : Has(o, t)' => Has(o, t)
    BY OthersHave DEF NoNewTask
<1> QED
    BY <1>1 DEF OwnInv, NoNewTask

LEMMA TellsTask ==
    ASSUME CoreInv, NEW s \in Sessions, NEW kind, NEW k, Tells(s, kind, k),
           NEW call, cancels' = cancels \/ (cancels' = [cancels EXCEPT ![s].call = call] /\ cancels[s].call # "none")
    PROVE  NoNewTask(s)
<1>1. Others(s) /\ prompts' = prompts
    BY TellsOthers DEF CoreInv, Tells
<1>2. \A o \in Sessions \ {s} : cancels'[o] = cancels[o]
    BY DEF CoreInv, TypeInv
<1>3. cancels'[s].call # "none" => cancels[s].call # "none" /\ cancels'[s].task = cancels[s].task
    <2>1. CASE cancels' = cancels
        BY <2>1
    <2>2. CASE cancels' = [cancels EXCEPT ![s].call = call] /\ cancels[s].call # "none"
        BY <2>2 DEF CoreInv, TypeInv
    <2> QED
        BY <2>1, <2>2
<1>4. Work(s) = kernel[s] /\ Work(s)'.task \in {0, kernel[s].task}
    BY TellsWork DEF Tells, CoreInv
<1>5. queue'[s][1].task = kernel[s].task \/ (queue[s] # <<>> /\ queue'[s][1].task = queue[s][1].task)
    <2>1. PICK e : e = [kind |-> kind, task |-> kernel[s].task]
        OBVIOUS
    <2>2. queue'[s] = Append(queue[s], e) /\ queue[s] \in Seq(Events) /\ e.task = kernel[s].task
        BY <2>1 DEF Tells, CoreInv, TypeInv
    <2>3. queue[s] = <<>> => Append(queue[s], e)[1] = e
        BY <2>2
    <2>4. queue[s] # <<>> => Append(queue[s], e)[1] = queue[s][1]
        BY <2>2
    <2> QED
        BY <2>2, <2>3, <2>4
<1>6. UNCHANGED <<starts, answers, heard, taskOf>>
    BY DEF Tells
<1>7. \A t \in Prompts : Has(s, t)' => Has(s, t)
    BY <1>3, <1>4, <1>5, <1>6 DEF Has, Prompts
<1> QED
    BY <1>1, <1>2, <1>7 DEF NoNewTask, Others

LEMMA StartTask ==
    ASSUME CoreInv, NEW s \in Sessions, NEW n \in Prompts, KernelStarts(s, n) \/ KernelRefuses(s, n)
    PROVE  NoNewTask(s)
<1>1. Others(s)
    BY TaskStartsStage, TaskRefusedStage DEF CoreInv
<1>2. UNCHANGED <<prompts, cancels, heard, taskOf>>
    BY DEF KernelStarts, KernelRefuses, uiVars, kernelVars
<1>3. <<s, n>> \in starts /\ starts' \subseteq starts
      /\ \A a \in answers' : a \in answers \/ a.task = n
    BY DEF KernelStarts, KernelRefuses
<1>4. Work(s)'.task = Work(s).task \/ Work(s)'.task = n
    <2>1. CASE KernelStarts(s, n)
        <3>1. PICK k : k = [Idle EXCEPT !.task = n]
            OBVIOUS
        <3>2. k.task = n
            BY <3>1 DEF Idle
        <3> QED
            BY <2>1, <3>1, <3>2, IdleIs DEF KernelStarts, CoreInv, TypeInv, WorkTypes
    <2>2. CASE KernelRefuses(s, n)
        BY <2>2 DEF KernelRefuses, kernelVars
    <2> QED
        BY <2>1, <2>2
<1>5. queue'[s] = queue[s] \/ queue'[s][1].task = n
    <2>1. CASE KernelStarts(s, n)
        <3>1. queue[s] = <<>>
            BY <2>1 DEF KernelStarts, CoreInv, Stage, Starting, Asked
        <3>2. queue'[s] = <<[kind |-> "task_started", task |-> n]>>
            BY <2>1, <3>1 DEF KernelStarts, CoreInv, TypeInv
        <3> QED
            BY <3>2
    <2>2. CASE KernelRefuses(s, n)
        BY <2>2 DEF KernelRefuses, kernelVars
    <2> QED
        BY <2>1, <2>2
<1>6. \A t \in Prompts : Has(s, t)' => Has(s, t)
    BY <1>2, <1>3, <1>4, <1>5 DEF Has
<1> QED
    BY <1>1, <1>2, <1>6 DEF NoNewTask, Others

LEMMA AnswerTask ==
    ASSUME CoreInv, NEW a \in answers, StartAnswered(a)
    PROVE  NoNewTask(a.session)
<1>1. PICK s \in Sessions : s = a.session
    BY DEF CoreInv, TypeInv
<1>2. Others(s)
    BY <1>1, StartAnsweredStage DEF CoreInv
<1>3. UNCHANGED <<prompts, cancels, heard, kernel, silent, queue, starts>> /\ answers' \subseteq answers
    BY DEF StartAnswered, kernelVars
<1>4. taskOf'[s] \in {0, a.task}
    BY <1>1 DEF StartAnswered, CoreInv, TypeInv
<1>5. \A t \in Prompts : Has(s, t)' => Has(s, t)
    BY <1>1, <1>3, <1>4 DEF Has, Prompts
<1> QED
    BY <1>1, <1>2, <1>3, <1>5 DEF NoNewTask, Others

LEMMA EventTask ==
    ASSUME CoreInv, NEW s \in Sessions, HandleEvent(s)
    PROVE  NoNewTask(s)
<1>1. Others(s)
    BY HandleEventStage DEF CoreInv
<1>2. PICK q : q = queue[s]
    OBVIOUS
<1>3. PICK e : e = q[1]
    OBVIOUS
<1>4. q \in Seq(Events) /\ q # <<>> /\ e \in Events /\ e = Head(q)
    BY <1>2, <1>3 DEF HandleEvent, CoreInv, TypeInv
<1>5. /\ queue'[s] = Tail(q)
      /\ heard'[s] = HeardAfter(heard[s], e)
      /\ taskOf'[s] \in {0, e.task}
      /\ UNCHANGED <<prompts, cancels, kernel, silent, starts, answers>>
    BY <1>2, <1>4 DEF HandleEvent, CoreInv, TypeInv, callVars
<1>6. heard'[s].task \in {0, e.task, heard[s].task}
    <2>1. PICK h \in Activity : h = heard[s]
        BY DEF CoreInv, TypeInv
    <2>2. HeardAfter(h, e).task \in {0, e.task, h.task}
        BY <1>4, HeardAfterIs
    <2> QED
        BY <1>5, <2>1, <2>2
<1>7. queue'[s] # <<>> => queue'[s][1].task = e.task
    <2>1. Tail(q) # <<>> => Tail(q)[1] = q[2] /\ 2 \in DOMAIN q
        BY <1>4, HeadTailProperties, EmptySeq
    <2>2. \A i \in DOMAIN q : q[i].task = e.task
        BY <1>2, <1>3 DEF CoreInv, Stage, Line
    <2> QED
        BY <1>5, <2>1, <2>2
<1>8. \A t \in Prompts : Has(s, t)' => Has(s, t)
    BY <1>2, <1>3, <1>4, <1>5, <1>6, <1>7 DEF Has, Prompts
<1> QED
    BY <1>1, <1>5, <1>8 DEF NoNewTask, Others

LEMMA UserTask ==
    ASSUME CoreInv, NEW s \in Sessions, Stop(s) \/ StopAnswered(s) \/ SessionDeleted(s)
    PROVE  NoNewTask(s)
<1>1. Others(s)
    BY StopStage, SessionDeletedStage
<1>2. UNCHANGED <<prompts, heard, kernel, silent, queue, starts, answers>>
    BY DEF Stop, StopAnswered, SessionDeleted, kernelVars
<1>3. taskOf'[s] \in {0, taskOf[s]}
    BY DEF Stop, StopAnswered, SessionDeleted, CoreInv, TypeInv
<1>4. cancels'[s].call # "none" => cancels'[s] = cancels[s] \/ cancels'[s].task = taskOf[s]
    BY DEF Stop, StopAnswered, SessionDeleted, CoreInv, TypeInv, NoCancel
<1>5. \A o \in Sessions \ {s} : cancels'[o] = cancels[o]
    BY DEF Stop, StopAnswered, SessionDeleted, CoreInv, TypeInv
<1>6. \A t \in Prompts : Has(s, t)' => Has(s, t)
    BY <1>2, <1>3, <1>4 DEF Has, Prompts
<1> QED
    BY <1>1, <1>2, <1>5, <1>6 DEF NoNewTask, Others

LEMMA SendOwn ==
    ASSUME CoreInv, OwnInv, NEW s \in Sessions, Send(s)
    PROVE  OwnInv'
<1>1. PICK n : n = prompts + 1
    OBVIOUS
<1>2. n \in Prompts /\ prompts \in Nat /\ Others(s)
    BY <1>1, SendStage, TranscriptAssumption DEF CoreInv, TypeInv
<1>3. /\ prompts' = n /\ starts' = starts \cup {<<s, n>>} /\ taskOf'[s] = 0
      /\ UNCHANGED <<cancels, heard, kernel, silent, queue, answers>>
    BY <1>1 DEF Send, kernelVars, CoreInv, TypeInv
<1>4. \A t \in Prompts : Has(s, t)' => Has(s, t) \/ t = n
    BY <1>3 DEF Has, Prompts
<1>5. \A o \in Sessions \ {s}, t \in Prompts : Has(o, t)' => Has(o, t)
    BY <1>2, <1>3, OthersHave DEF Others
<1>6. \A o \in Sessions, t \in Prompts : Has(o, t) => t <= prompts
    BY DEF OwnInv
<1>7. \A t \in Prompts : t <= prompts => t <= n /\ t # n
    BY <1>1, <1>2 DEF Prompts
<1> SUFFICES ASSUME NEW r \in Sessions, NEW t \in Prompts, Has(r, t)'
             PROVE  t <= prompts' /\ \A o \in Sessions : Has(o, t)' => o = r
    BY DEF OwnInv
<1>8. CASE t = n
    <2>1. \A o \in Sessions : Has(o, t)' => o = s
        BY <1>5, <1>6, <1>7, <1>8
    <2> QED
        BY <1>2, <1>3, <1>8, <2>1 DEF Prompts
<1>9. CASE t # n
    <2>1. \A o \in Sessions : Has(o, t)' => Has(o, t)
        BY <1>4, <1>5, <1>9
    <2>2. t <= prompts /\ \A o \in Sessions : Has(o, t) => o = r
        BY <2>1 DEF OwnInv
    <2> QED
        BY <1>3, <1>7, <2>1, <2>2
<1> QED
    BY <1>8, <1>9

LEMMA OwnStep ==
    ASSUME CoreInv, OwnInv, [Next]_vars
    PROVE  OwnInv'
<1>1. CASE UNCHANGED vars
    BY <1>1 DEF vars, uiVars, callVars, kernelVars, OwnInv, Has
<1>2. ASSUME NEW s \in Sessions, KernelActs(s) PROVE OwnInv'
    <2>1. PICK kind, k : Tells(s, kind, k) /\ UNCHANGED cancels
        BY <1>2, KernelTells DEF CoreInv, Stage
    <2> QED
        BY <2>1, TellsTask, NoNewTaskOwn
<1>3. ASSUME NEW s \in Sessions, KernelCancels(s) PROVE OwnInv'
    <2>1. PICK call : cancels' = [cancels EXCEPT ![s].call = call] /\ cancels[s].call # "none"
        BY <1>3, CancelsTells DEF CoreInv, Stage, KernelCancels
    <2>2. CASE Tells(s, "canceled", Idle)
        BY <2>1, <2>2, TellsTask, NoNewTaskOwn
    <2>3. CASE Resting /\ UNCHANGED prompts
        <3>1. \A o \in Sessions : cancels'[o].task = cancels[o].task
                                  /\ (cancels'[o].call # "none" => cancels[o].call # "none")
            BY <2>1 DEF CoreInv, TypeInv
        <3> QED
            BY <2>3, <3>1 DEF Resting, OwnInv, Has
    <2> QED
        BY <1>3, <2>2, <2>3, CancelsTells DEF CoreInv, Stage
<1>4. ASSUME NEW s \in Sessions, NEW n \in Prompts, KernelStarts(s, n) \/ KernelRefuses(s, n) PROVE OwnInv'
    BY <1>4, StartTask, NoNewTaskOwn
<1>5. ASSUME NEW a \in answers, StartAnswered(a) PROVE OwnInv'
    <2>1. a.session \in Sessions
        BY DEF CoreInv, TypeInv
    <2> QED
        BY <1>5, <2>1, AnswerTask, NoNewTaskOwn
<1>6. ASSUME NEW s \in Sessions, HandleEvent(s) PROVE OwnInv'
    BY <1>6, EventTask, NoNewTaskOwn
<1>7. ASSUME NEW s \in Sessions, Stop(s) \/ StopAnswered(s) \/ SessionDeleted(s) PROVE OwnInv'
    BY <1>7, UserTask, NoNewTaskOwn
<1>8. ASSUME NEW s \in Sessions,
             \/ OpenSession(s) \/ DeleteSession(s) \/ ReadTurns(s) \/ TurnsLoaded(s) \/ LoadFails(s)
             \/ Submit(s) \/ SubmitFails(s)
      PROVE  OwnInv'
    <2>1. UNCHANGED <<prompts, starts, answers, kernel, silent, heard, taskOf, cancels, queue>>
        BY <1>8 DEF OpenSession, DeleteSession, ReadTurns, TurnsLoaded, LoadFails, Submit, SubmitFails,
                    uiVars, callVars, kernelVars
    <2> QED
        BY <2>1 DEF OwnInv, Has
<1>9. ASSUME NEW s \in Sessions, Settle(s) PROVE OwnInv'
    BY <1>2, <1>3, <1>4, <1>5, <1>6, <1>7, <1>8, <1>9 DEF Settle, KernelActs, Prompts
<1> QED
    BY <1>1, <1>2, <1>7, <1>8, <1>9, SendOwn DEF Next, KernelActs

LEMMA OwnInit == Init => OwnInv
BY IdleIs DEF Init, OwnInv, Has, NoCancel, Prompts

-----------------------------------------------------------------------------
(* The pace of the events: behind the start of a compaction there is only   *)
(* its end, behind a delta nothing of a compaction.                         *)

Pace(s) == LET q == queue[s]  k == Work(s)  h == heard[s] IN
    /\ \A i \in DOMAIN q : q[i].kind = "context_compaction_started" =>
          IF i = Len(q) THEN k.folding ELSE q[i + 1].kind \in AfterFold
    /\ \A i \in DOMAIN q : q[i].kind = "assistant_message_delta" =>
          IF i = Len(q) THEN k.deltas > 0 ELSE q[i + 1].kind \in AfterDelta
    /\ h.deltas > 0 => IF q = <<>> THEN k.deltas > 0 ELSE q[1].kind \in AfterDelta

(* A compaction that is shown as running is the one the window has heard of,*)
(* and its end is the next it will hear of.                                 *)
Dividing(s) == \A i \in DOMAIN cache[s] : IsRunning(cache[s][i]) =>
    /\ cache[s][i].task = heard[s].task /\ cache[s][i].task \notin hidden
    /\ IF queue[s] = <<>> THEN Work(s).folding ELSE queue[s][1].kind \in AfterFold

(* The transcript tells of the task its session is at work on.              *)
Told(s) == s \notin deleted => \A n \in Prompts : WorksOn(s, n) =>
    Fresh(cache[s], n) /\ Lit(cache[s], n, heard[s].deltas)

Showing(s) == Pace(s) /\ Dividing(s) /\ Told(s)

Caches ==
    /\ cache \in [Sessions -> Seq(Shows(prompts))]
    /\ turns \in [Sessions -> Seq(Rows(prompts))]
    /\ \A s \in Sessions : loads[s].turns \in Seq(Rows(prompts))

LEMMA SamePace ==
    ASSUME NEW s \in Sessions, Pace(s),
           Work(s)' = Work(s), queue'[s] = queue[s], heard'[s] = heard[s]
    PROVE  Pace(s)'
BY DEF Pace

LEMMA SameDividing ==
    ASSUME CoreInv, Caches, NEW s \in Sessions, Dividing(s),
           Work(s)' = Work(s), queue'[s] = queue[s], heard'[s] = heard[s],
           NoMoreRunning(cache[s], cache'[s]),
           \A t \in hidden' \ hidden : t \in Prompts => heard[s].task # t
    PROVE  Dividing(s)'
<1> SUFFICES ASSUME NEW i \in DOMAIN cache'[s], IsRunning(cache'[s][i])
             PROVE  /\ cache'[s][i].task = heard[s].task /\ cache'[s][i].task \notin hidden'
                    /\ IF queue[s] = <<>> THEN Work(s).folding ELSE queue[s][1].kind \in AfterFold
    BY DEF Dividing
<1>1. PICK j \in DOMAIN cache[s] : cache[s][j] = cache'[s][i] /\ IsRunning(cache[s][j])
    BY DEF NoMoreRunning
<1>2. PICK m \in Shows(prompts) : m = cache[s][j]
    BY DEF Caches
<1>3. m.task \in Prompts
    BY <1>1, <1>2, RunningIsDivider, TranscriptAssumption DEF CoreInv, TypeInv, Prompts
<1> QED
    BY <1>1, <1>2, <1>3 DEF Dividing

LEMMA SameTold ==
    ASSUME NEW s \in Sessions, Told(s), cache'[s] = cache[s], heard'[s].deltas = heard[s].deltas,
           \A n \in Prompts : WorksOn(s, n)' => WorksOn(s, n), s \in deleted => s \in deleted'
    PROVE  Told(s)'
BY DEF Told

(* Sessions whose transcript and task a step leaves alone.                  *)
Alike(o) == Same(o) /\ cache'[o] = cache[o]

LEMMA AlikeShown ==
    ASSUME CoreInv, Caches, NEW o \in Sessions, Showing(o), Alike(o),
           \A t \in hidden' \ hidden : t \in Prompts => heard[o].task # t
    PROVE  Showing(o)'
<1>1. NoMoreRunning(cache[o], cache'[o])
    BY DEF Alike, NoMoreRunning
<1>2. \A n \in Prompts : WorksOn(o, n)' => WorksOn(o, n)
    BY DEF Alike, Same, WorksOn
<1> QED
    BY <1>1, <1>2, SamePace, SameDividing, SameTold DEF Alike, Same, Showing

LEMMA TellsShown ==
    ASSUME CoreInv, NEW s \in Sessions, Showing(s), NEW kind, NEW k, Tells(s, kind, k)
    PROVE  Showing(s)'
<1>1. PICK q : q = queue[s]
    OBVIOUS
<1>2. PICK e : e = [kind |-> kind, task |-> kernel[s].task]
    OBVIOUS
<1>3. /\ q \in Seq(Events) /\ e.kind = kind /\ e.task = kernel[s].task
      /\ queue'[s] = Append(q, e) /\ kernel'[s] = k /\ heard'[s] = heard[s] /\ cache'[s] = cache[s]
      /\ UNCHANGED <<hidden, deleted, starts>> /\ Work(s) = kernel[s] /\ Work(s)' = k
    BY <1>1, <1>2, TellsWork DEF CoreInv, TypeInv, WorkTypes, Tells
<1>4. PICK r : r = Append(q, e)
    OBVIOUS
<1> DEFINE N == Len(q)
<1>5. /\ N \in Nat /\ DOMAIN q = 1..N /\ DOMAIN r = 1..(N + 1) /\ Len(r) = N + 1 /\ r # <<>>
      /\ r[N + 1] = e /\ \A i \in 1..N : r[i] = q[i]
      /\ q = <<>> <=> N = 0
    BY <1>3, <1>4, EmptySeq
<1> HIDE DEF N
<1>6. r[1] = IF q = <<>> THEN e ELSE q[1]
    BY <1>5
<1>7. /\ kind = "context_compaction_started" => k.folding
      /\ kind = "assistant_message_delta" => k.deltas > 0
      /\ kernel[s].folding => kind \in AfterFold
      /\ kernel[s].deltas > 0 => kind \in AfterDelta
    BY DEF Tells
<1>8. Pace(s)'
    <2>1. ASSUME NEW i \in 1..(N + 1)
          PROVE  /\ r[i].kind = "context_compaction_started" =>
                        IF i = N + 1 THEN k.folding ELSE r[i + 1].kind \in AfterFold
                 /\ r[i].kind = "assistant_message_delta" =>
                        IF i = N + 1 THEN k.deltas > 0 ELSE r[i + 1].kind \in AfterDelta
        <3>1. CASE i = N + 1
            BY <1>3, <1>5, <1>7, <3>1
        <3>2. CASE i = N
            BY <1>1, <1>3, <1>5, <1>7, <3>2 DEF Showing, Pace, N
        <3>3. CASE i \in 1..(N - 1)
            <4>1. PICK l \in 1..N : l = i + 1
                BY <1>5, <3>3
            <4>2. r[l] = q[l] /\ r[i] = q[i] /\ i \in 1..N /\ i # N /\ i # N + 1
                BY <1>5, <3>3, <4>1
            <4>3. /\ q[i].kind = "context_compaction_started" => q[l].kind \in AfterFold
                  /\ q[i].kind = "assistant_message_delta" => q[l].kind \in AfterDelta
                BY <1>1, <1>5, <4>1, <4>2 DEF Showing, Pace, N
            <4> QED
                BY <4>1, <4>2, <4>3
        <3> QED
            BY <1>5, <3>1, <3>2, <3>3
    <2>2. heard[s].deltas > 0 => r[1].kind \in AfterDelta
        BY <1>1, <1>3, <1>6, <1>7 DEF Showing, Pace
    <2> QED
        BY <1>3, <1>4, <1>5, <2>1, <2>2 DEF Pace
<1>9. Dividing(s)'
    BY <1>1, <1>3, <1>4, <1>5, <1>6, <1>7 DEF Showing, Dividing
<1>10. Told(s)'
    <2>1. k.task \in {0, kernel[s].task}
        BY DEF Tells
    <2>2. \A n \in Prompts : WorksOn(s, n)' => WorksOn(s, n)
        BY <1>1, <1>3, <1>4, <1>6, <2>1 DEF WorksOn, Prompts
    <2> QED
        BY <1>3, <2>2, SameTold DEF Showing
<1> QED
    BY <1>8, <1>9, <1>10 DEF Showing

-----------------------------------------------------------------------------
(* The event at the head of a session's queue.                              *)
LEMMA HeadIs ==
    ASSUME CoreInv, OwnInv, NEW s \in Sessions, HandleEvent(s),
           NEW q, q = queue[s], NEW e, e = q[1]
    PROVE  /\ q \in Seq(Events) /\ q # <<>> /\ e = Head(q) /\ e \in Events /\ e.task \in 1..prompts
           /\ queue'[s] = Tail(q) /\ heard'[s] = HeardAfter(heard[s], e) /\ heard[s] \in Activity
           /\ hidden' = HiddenAfter(cache[s], e)
           /\ UNCHANGED <<kernel, silent, starts, deleted, turns, loads, prompts>>
           /\ heard[s].task = IF e.kind = "task_started" THEN 0 ELSE e.task
           /\ \A n \in Prompts : WorksOn(s, n)' => WorksOn(s, n) /\ n = e.task /\ e.kind \notin Terminal
<1>1. q \in Seq(Events) /\ q # <<>> /\ e = Head(q) /\ e \in Events
    BY DEF HandleEvent, CoreInv, TypeInv
<1>2. /\ queue'[s] = Tail(q) /\ heard'[s] = HeardAfter(heard[s], e) /\ heard[s] \in Activity
      /\ hidden' = HiddenAfter(cache[s], e)
      /\ UNCHANGED <<kernel, silent, starts, deleted, turns, loads, prompts>>
    BY <1>1 DEF HandleEvent, CoreInv, TypeInv, callVars
<1>3. heard[s].task = IF e.kind = "task_started" THEN 0 ELSE e.task
    BY <1>1 DEF CoreInv, Stage, Line
<1>4. e.task \in 1..prompts
    <2>1. e.task \in Prompts
        BY <1>1 DEF Events
    <2>2. Has(s, e.task)
        BY <1>1 DEF Has
    <2>3. e.task <= prompts
        BY <2>1, <2>2 DEF OwnInv
    <2> QED
        BY <2>1, <2>3, TranscriptAssumption DEF Prompts, CoreInv, TypeInv
<1>5. ~Asked(s)
    BY <1>1 DEF CoreInv, Stage, Starting, Asked
<1>6. /\ \A i \in 1..Len(q) : q[i].task = e.task /\ (i # Len(q) => q[i].kind \notin Terminal)
      /\ Work(s).task = IF q[Len(q)].kind \in Terminal THEN 0 ELSE e.task
      /\ Len(q) \in Nat \ {0}
    BY <1>1, EmptySeq DEF CoreInv, Stage, Line
<1>7. Tail(q) # <<>> => Len(q) # 1 /\ Tail(q)[1] = q[2] /\ 2 \in 1..Len(q)
    BY <1>1, HeadTailProperties, EmptySeq
<1>8. ASSUME NEW n \in Prompts, WorksOn(s, n)' PROVE WorksOn(s, n) /\ n = e.task /\ e.kind \notin Terminal
    <2>1. CASE Tail(q) # <<>>
        <3>1. e.kind \notin Terminal /\ Tail(q)[1].task = e.task
            BY <1>1, <1>6, <1>7, <2>1
        <3> QED
            BY <1>1, <1>2, <1>5, <1>6, <1>8, <3>1 DEF WorksOn, Asked, Prompts
    <2>2. CASE Tail(q) = <<>>
        <3>0. Len(Tail(q)) = Len(q) - 1 /\ Len(Tail(q)) = 0
            BY <1>1, <2>2, HeadTailProperties, EmptySeq
        <3>1. Len(q) = 1
            BY <1>6, <3>0
        <3>2. Work(s).task = n
            BY <1>2, <1>5, <1>8, <2>2 DEF WorksOn, Asked
        <3> QED
            BY <1>1, <1>6, <3>1, <3>2 DEF WorksOn, Prompts
    <2> QED
        BY <2>1, <2>2
<1> QED
    BY <1>1, <1>2, <1>3, <1>4, <1>8

LEMMA EventPace ==
    ASSUME CoreInv, OwnInv, NEW s \in Sessions, Showing(s), HandleEvent(s)
    PROVE  Pace(s)'
<1>1. PICK q : q = queue[s]
    OBVIOUS
<1>2. PICK e : e = q[1]
    OBVIOUS
<1>3. /\ q \in Seq(Events) /\ q # <<>> /\ e \in Events
      /\ queue'[s] = Tail(q) /\ heard'[s] = HeardAfter(heard[s], e) /\ heard[s] \in Activity
      /\ UNCHANGED <<kernel, silent>>
    <2>1. q \in Seq(Events) /\ q # <<>> /\ e \in Events
        BY <1>1, <1>2, HeadIs
    <2>2. queue'[s] = Tail(q) /\ heard'[s] = HeardAfter(heard[s], e) /\ heard[s] \in Activity
        BY <1>1, <1>2, <2>1 DEF HandleEvent, CoreInv, TypeInv
    <2>3. UNCHANGED <<kernel, silent>>
        BY DEF HandleEvent
    <2> QED
        BY <2>1, <2>2, <2>3
<1>4. PICK r : r = Tail(q)
    OBVIOUS
<1> DEFINE N == Len(q) - 1
<1>5. N \in Nat /\ Len(q) = N + 1 /\ DOMAIN q = 1..(N + 1)
    BY <1>3, EmptySeq
<1>6. /\ r \in Seq(Events) /\ Len(r) = N /\ DOMAIN r = 1..N /\ (r = <<>> <=> N = 0)
      /\ \A i \in 1..N : r[i] = q[i + 1]
    <2>1. r \in Seq(Events) /\ Len(r) = N /\ \A i \in 1..Len(r) : r[i] = q[i + 1]
        BY <1>3, <1>4, HeadTailProperties
    <2>2. DOMAIN r = 1..N /\ (r = <<>> <=> N = 0)
        BY <2>1, <1>5, EmptySeq
    <2> QED
        BY <2>1, <2>2
<1> HIDE DEF N
<1>7. /\ \A i \in 1..(N + 1) : q[i].kind = "context_compaction_started" =>
            IF i = N + 1 THEN Work(s).folding ELSE q[i + 1].kind \in AfterFold
      /\ \A i \in 1..(N + 1) : q[i].kind = "assistant_message_delta" =>
            IF i = N + 1 THEN Work(s).deltas > 0 ELSE q[i + 1].kind \in AfterDelta
      /\ heard[s].deltas > 0 => e.kind \in AfterDelta
    BY <1>1, <1>2, <1>3, <1>5 DEF Showing, Pace
<1>8. ASSUME NEW i \in 1..N
      PROVE  /\ r[i].kind = "context_compaction_started" =>
                   IF i = N THEN Work(s).folding ELSE r[i + 1].kind \in AfterFold
             /\ r[i].kind = "assistant_message_delta" =>
                   IF i = N THEN Work(s).deltas > 0 ELSE r[i + 1].kind \in AfterDelta
    <2>1. PICK j \in 1..(N + 1) : j = i + 1
        BY <1>5
    <2>2. r[i] = q[j] /\ (j = N + 1 <=> i = N) /\ (i # N => r[j] = q[j + 1])
        BY <1>5, <1>6, <2>1
    <2> QED
        BY <1>7, <2>1, <2>2
<1>9. PICK h : h = HeardAfter(heard[s], e)
    OBVIOUS
<1>10. h.deltas > 0 => e.kind = "assistant_message_delta"
    <2>1. h.deltas = IF e.kind = "assistant_message_delta" THEN heard[s].deltas + 1
                     ELSE IF e.kind \in {"task_started", "model_request_retrying", "model_round_finished"}
                               \cup Terminal THEN 0
                     ELSE heard[s].deltas
        BY <1>3, <1>9, HeardAfterIs
    <2>2. heard[s].deltas > 0 => e.kind \in {"assistant_message_delta", "model_request_retrying",
                                             "model_round_finished"} \cup Terminal
        BY <1>7 DEF AfterDelta
    <2> HIDE <1>9
    <2> QED
        BY <2>1, <2>2
<1>11. h.deltas > 0 => IF r = <<>> THEN Work(s).deltas > 0 ELSE r[1].kind \in AfterDelta
    <2>1. 1 \in 1..(N + 1) /\ (r # <<>> => r[1] = q[1 + 1])
        BY <1>5, <1>6
    <2> QED
        BY <1>2, <1>5, <1>6, <1>7, <1>10, <2>1
<1> QED
    BY <1>3, <1>4, <1>6, <1>8, <1>9, <1>11 DEF Pace

(* The deltas shown behind an event.                                        *)
DeltasAfter(kind, d) ==
    IF kind = "assistant_message_delta" THEN d + 1
    ELSE IF kind \in {"model_request_retrying", "model_round_finished"} THEN 0 ELSE d

Folding == {"context_compaction_started", "context_compaction_finished", "context_compaction_canceled"}

(* What an event leaves of a transcript.                                    *)
LeftBy(e, items, r, p) ==
    /\ r \in Seq(Shows(p))
    /\ \A i \in DOMAIN r : IsRunning(r[i]) =>
          \/ \E j \in DOMAIN items : items[j] = r[i]
          \/ e.kind = "context_compaction_started" /\ e.task \notin hidden /\ r[i].task = e.task
    /\ e.kind \in AfterFold => \A i \in DOMAIN r : IsRunning(r[i]) => r[i].task # e.task
    /\ e.kind \notin Terminal =>
          /\ Fresh(items, e.task) => Fresh(r, e.task)
          /\ \A d \in Nat : Lit(items, e.task, d) /\ (e.kind \in Folding => d = 0)
                           => Lit(r, e.task, DeltasAfter(e.kind, d))

LEMMA EventLeaves ==
    ASSUME NEW p \in Nat, NEW items \in Seq(Shows(p)), NEW e \in Events, e.task \in 1..p,
           NEW r, r = IF e.kind \in {"task_started", "finished"} THEN items ELSE ItemsAfter(items, e)
    PROVE  LeftBy(e, items, r, p)
<1>0. PICK t \in 1..p : t = e.task
    OBVIOUS
<1>1. CASE e.kind \in {"task_started", "finished"}
    <2>1. r = items /\ e.kind \notin AfterFold
        BY <1>1 DEF AfterFold
    <2>2. \A d \in Nat : DeltasAfter(e.kind, d) = d
        BY <1>1 DEF DeltasAfter
    <2> QED
        BY <2>1, <2>2 DEF LeftBy
<1>2. CASE e.kind = "assistant_message_delta"
    <2>1. r = DeltaShown(items, t) /\ e.kind \notin AfterFold
        BY <1>0, <1>2 DEF ItemsAfter, AfterFold
    <2>2. \A d \in Nat : DeltasAfter(e.kind, d) = d + 1
        BY <1>2 DEF DeltasAfter
    <2>3. /\ r \in Seq(Shows(p)) /\ NoMoreRunning(items, r)
          /\ Fresh(items, t) => Fresh(r, t)
          /\ \A d \in Nat : Lit(items, t, d) => Lit(r, t, d + 1)
        BY <2>1, DeltaIs
    <2> QED
        BY <1>0, <2>1, <2>2, <2>3 DEF LeftBy, NoMoreRunning
<1>3. CASE e.kind = "model_request_retrying"
    <2>1. r = RetryShown(items, t) /\ e.kind \notin AfterFold
        BY <1>0, <1>3 DEF ItemsAfter, AfterFold
    <2>2. \A d \in Nat : DeltasAfter(e.kind, d) = 0
        BY <1>3 DEF DeltasAfter
    <2>3. /\ r \in Seq(Shows(p)) /\ NoMoreRunning(items, r)
          /\ Fresh(items, t) => Fresh(r, t)
          /\ \A d \in Nat : Lit(items, t, d) => Lit(r, t, 0)
        BY <2>1, RetryIs
    <2> QED
        BY <1>0, <2>1, <2>2, <2>3 DEF LeftBy, NoMoreRunning
<1>4. CASE e.kind = "model_round_finished"
    <2>1. r = RoundShown(items, t) /\ e.kind \notin AfterFold
        BY <1>0, <1>4 DEF ItemsAfter, AfterFold
    <2>2. \A d \in Nat : DeltasAfter(e.kind, d) = 0
        BY <1>4 DEF DeltasAfter
    <2>3. /\ r \in Seq(Shows(p)) /\ NoMoreRunning(items, r)
          /\ Fresh(items, t) => Fresh(r, t)
          /\ \A d \in Nat : Lit(items, t, d) => Lit(r, t, 0)
        BY <2>1, RoundIs
    <2> QED
        BY <1>0, <2>1, <2>2, <2>3 DEF LeftBy, NoMoreRunning
<1>5. CASE e.kind = "context_compaction_started"
    <2>1. r = (IF t \in hidden THEN items ELSE DividerShown(items, t, FALSE)) /\ e.kind \notin AfterFold
        BY <1>0, <1>5 DEF ItemsAfter, AfterFold
    <2>2. \A d \in Nat : DeltasAfter(e.kind, d) = d
        BY <1>5 DEF DeltasAfter
    <2>3. CASE t \in hidden
        BY <1>0, <2>1, <2>2, <2>3 DEF LeftBy
    <2>4. CASE t \notin hidden
        <3>0. FALSE \in BOOLEAN /\ r = DividerShown(items, t, FALSE)
            BY <2>1, <2>4
        <3>1. /\ r \in Seq(Shows(p))
              /\ \A i \in DOMAIN r : IsRunning(r[i]) =>
                    IF r[i].task = t THEN ~FALSE ELSE \E j \in DOMAIN items : items[j] = r[i]
              /\ Fresh(items, t) => Fresh(r, t)
              /\ Lit(items, t, 0) => Lit(r, t, 0)
            BY <3>0, DividerShownIs
        <3>2. e.kind \in Folding
            BY <1>5 DEF Folding
        <3> QED
            BY <1>0, <1>5, <2>1, <2>2, <2>4, <3>1, <3>2 DEF LeftBy
    <2> QED
        BY <2>3, <2>4
<1>6. CASE e.kind = "context_compaction_finished"
    <2>1. r = DividerShown(items, t, TRUE)
        BY <1>0, <1>6 DEF ItemsAfter
    <2>2. (\A d \in Nat : DeltasAfter(e.kind, d) = d) /\ e.kind \in Folding
        BY <1>6 DEF DeltasAfter, Folding
    <2>0. TRUE \in BOOLEAN
        OBVIOUS
    <2>3. /\ r \in Seq(Shows(p))
          /\ \A i \in DOMAIN r : IsRunning(r[i]) =>
                IF r[i].task = t THEN ~TRUE ELSE \E j \in DOMAIN items : items[j] = r[i]
          /\ Fresh(items, t) => Fresh(r, t)
          /\ Lit(items, t, 0) => Lit(r, t, 0)
        BY <2>0, <2>1, DividerShownIs
    <2> QED
        BY <1>0, <2>2, <2>3 DEF LeftBy
<1>7. CASE e.kind \in {"canceled", "context_compaction_canceled"}
    <2>1. r = DividerHidden(items, t)
        BY <1>0, <1>7 DEF ItemsAfter
    <2>2. \A d \in Nat : DeltasAfter(e.kind, d) = d
        BY <1>7 DEF DeltasAfter
    <2>3. /\ r \in Seq(Shows(p)) /\ NoMoreRunning(items, r)
          /\ \A i \in DOMAIN r : IsRunning(r[i]) => r[i].task # t
          /\ \A n \in Nat : Fresh(items, n) => Fresh(r, n)
          /\ \A n \in Nat, d \in Nat : Lit(items, n, d) => Lit(r, n, d)
        BY <2>1, DividerHiddenIs
    <2> QED
        BY <1>0, <2>2, <2>3 DEF LeftBy, NoMoreRunning
<1>8. CASE e.kind = "failed"
    <2>1. PICK x : x = DividerHidden(items, t)
        OBVIOUS
    <2>2. r = WithoutPlaceholder(x) /\ e.kind \in Terminal
        BY <1>0, <1>8, <2>1 DEF ItemsAfter, Terminal
    <2>3. /\ x \in Seq(Shows(p)) /\ NoMoreRunning(items, x)
          /\ \A i \in DOMAIN x : IsRunning(x[i]) => x[i].task # t
        BY <2>1, DividerHiddenIs
    <2>4. r \in Seq(Shows(p)) /\ NoMoreRunning(x, r)
        BY <2>2, <2>3, WithoutPlaceholderIs
    <2>5. /\ NoMoreRunning(items, r)
          /\ \A i \in DOMAIN r : IsRunning(r[i]) => r[i].task # t
        BY <2>3, <2>4 DEF NoMoreRunning
    <2> QED
        BY <1>0, <2>2, <2>4, <2>5 DEF LeftBy, NoMoreRunning
<1>9. e.kind \in {"task_started", "finished", "assistant_message_delta", "model_request_retrying",
                 "model_round_finished", "context_compaction_started", "context_compaction_finished",
                 "canceled", "context_compaction_canceled", "failed"}
    BY DEF Events, Kinds, AfterFold, AfterDelta, Terminal
<1> QED
    BY <1>1, <1>2, <1>3, <1>4, <1>5, <1>6, <1>7, <1>8, <1>9

(* What a step does to one transcript, the others left as they are.         *)
ChangesOnly(s, r) == cache' = [cache EXCEPT ![s] = r]

LEMMA EventCache ==
    ASSUME CoreInv, OwnInv, Caches, NEW s \in Sessions, HandleEvent(s), NEW e, e = queue[s][1]
    PROVE  \E r : LeftBy(e, cache[s], r, prompts) /\ ChangesOnly(s, r)
<1>1. PICK items : items = cache[s]
    OBVIOUS
<1>2. PICK r : r = IF e.kind \in {"task_started", "finished"} THEN items ELSE ItemsAfter(items, e)
    OBVIOUS
<1>3. items \in Seq(Shows(prompts)) /\ prompts \in Nat
    BY <1>1, TranscriptAssumption DEF Caches, CoreInv, TypeInv
<1>4. e \in Events /\ e.task \in 1..prompts /\ e = Head(queue[s])
    BY HeadIs
<1>5. LeftBy(e, items, r, prompts)
    BY <1>2, <1>3, <1>4, EventLeaves
<1>6. ChangesOnly(s, r)
    <2>1. CASE e.kind \in {"task_started", "finished"}
        BY <1>1, <1>2, <1>4, <2>1 DEF HandleEvent, ChangesOnly, Caches
    <2>2. CASE e.kind \notin {"task_started", "finished"}
        BY <1>1, <1>2, <1>4, <2>2 DEF HandleEvent, ChangesOnly, Show
    <2> QED
        BY <2>1, <2>2
<1> QED
    BY <1>1, <1>5, <1>6

LEMMA HiddenAfterIs ==
    ASSUME NEW items, NEW e \in Events
    PROVE  /\ HiddenAfter(items, e) \subseteq hidden \cup {e.task}
           /\ e.kind \notin AfterFold => HiddenAfter(items, e) = hidden
BY DEF HiddenAfter, HiddenAfterHide, AfterFold

LEMMA EventShown ==
    ASSUME CoreInv, OwnInv, Caches, NEW s \in Sessions, Showing(s), HandleEvent(s)
    PROVE  Showing(s)' /\ hidden' \subseteq hidden \cup {queue[s][1].task}
<1>1. PICK q : q = queue[s]
    OBVIOUS
<1>2. PICK e : e = q[1]
    OBVIOUS
<1>3. PICK r : LeftBy(e, cache[s], r, prompts) /\ ChangesOnly(s, r)
    BY <1>1, <1>2, EventCache
<1>4. PICK items : items = cache[s]
    OBVIOUS
<1>5. cache'[s] = r
    BY <1>3 DEF ChangesOnly, Caches
<1>6. /\ q # <<>> /\ e \in Events /\ e.task \in 1..prompts
      /\ hidden' = HiddenAfter(items, e)
    BY <1>1, <1>2, <1>4, HeadIs
<1>7. q \in Seq(Events) /\ queue'[s] = Tail(q) /\ heard'[s] = HeardAfter(heard[s], e) /\ heard[s] \in Activity
    BY <1>1, <1>2, <1>6 DEF HandleEvent, CoreInv, TypeInv
<1>8. UNCHANGED <<kernel, silent, deleted>>
    BY DEF HandleEvent
<1>9. heard[s].task = IF e.kind = "task_started" THEN 0 ELSE e.task
    BY <1>1, <1>2, HeadIs
<1>10. \A n \in Prompts : WorksOn(s, n)' => WorksOn(s, n) /\ n = e.task /\ e.kind \notin Terminal
    BY <1>1, <1>2, HeadIs
<1>11. hidden' \subseteq hidden \cup {e.task} /\ (e.kind \notin AfterFold => hidden' = hidden)
    BY <1>6, HiddenAfterIs
<1>12. Pace(s)'
    BY EventPace
<1>13. PICK h : h = HeardAfter(heard[s], e)
    OBVIOUS
<1>14. Dividing(s)'
    <2>1. \A i \in DOMAIN items : IsRunning(items[i]) => items[i].task = e.task /\ e.kind \in AfterFold
        <3>1. \A i \in DOMAIN items : IsRunning(items[i]) =>
                  items[i].task = heard[s].task /\ e.kind \in AfterFold
            BY <1>1, <1>2, <1>4, <1>6 DEF Showing, Dividing
        <3> QED
            BY <1>9, <3>1 DEF AfterFold
    <2>2. ASSUME NEW i \in DOMAIN r, IsRunning(r[i])
          PROVE  e.kind = "context_compaction_started" /\ e.task \notin hidden /\ r[i].task = e.task
        <3>1. CASE \E j \in DOMAIN items : items[j] = r[i]
            <4>1. r[i].task = e.task /\ e.kind \in AfterFold
                BY <2>1, <2>2, <3>1
            <4> QED
                BY <1>3, <2>2, <4>1 DEF LeftBy
        <3> QED
            BY <1>3, <1>4, <2>2, <3>1 DEF LeftBy
    <2>3. ASSUME e.kind = "context_compaction_started"
          PROVE  /\ h.task = e.task /\ hidden' = hidden
                 /\ IF Tail(q) = <<>> THEN Work(s).folding ELSE Tail(q)[1].kind \in AfterFold
        <3>1. h = heard[s] /\ e.kind \notin AfterFold
            BY <1>13, <2>3 DEF HeardAfter, Terminal, AfterFold
        <3>2. /\ Len(q) \in Nat \ {0} /\ DOMAIN q = 1..Len(q) /\ (Tail(q) = <<>> <=> Len(q) = 1)
              /\ Tail(q) # <<>> => Tail(q)[1] = q[2]
            <4>1. Len(Tail(q)) = Len(q) - 1 /\ \A i \in 1..Len(Tail(q)) : Tail(q)[i] = q[i + 1]
                BY <1>6, <1>7, HeadTailProperties
            <4>2. Len(q) \in Nat \ {0} /\ DOMAIN q = 1..Len(q) /\ Tail(q) \in Seq(Events)
                BY <1>6, <1>7, HeadTailProperties, EmptySeq
            <4>5. PICK x \in Seq(Events) : x = Tail(q)
                BY <4>2
            <4>6. x = <<>> <=> Len(x) = 0
                BY EmptySeq
            <4>3. Tail(q) = <<>> <=> Len(q) = 1
                BY <4>1, <4>2, <4>5, <4>6
            <4>4. Tail(q) # <<>> => 1 \in 1..Len(Tail(q))
                BY <4>1, <4>2, <4>3
            <4> QED
                BY <4>1, <4>2, <4>3, <4>4
        <3>3. IF 1 = Len(q) THEN Work(s).folding ELSE q[1 + 1].kind \in AfterFold
            <4>1. 1 \in DOMAIN q
                BY <3>2
            <4> QED
                BY <1>1, <1>2, <2>3, <4>1 DEF Showing, Pace
        <3> QED
            BY <1>9, <1>11, <2>3, <3>1, <3>2, <3>3
    <2>4. ASSUME NEW i \in DOMAIN r, IsRunning(r[i])
          PROVE  /\ r[i].task = h.task /\ r[i].task \notin hidden'
                 /\ IF Tail(q) = <<>> THEN Work(s).folding ELSE Tail(q)[1].kind \in AfterFold
        BY <2>2, <2>3, <2>4
    <2> QED
        BY <1>5, <1>7, <1>8, <1>13, <2>4 DEF Dividing
<1>15. Told(s)'
    <2> SUFFICES ASSUME s \notin deleted, NEW n \in Prompts, WorksOn(s, n)'
                 PROVE  Fresh(r, n) /\ Lit(r, n, h.deltas)
        BY <1>5, <1>7, <1>8, <1>13 DEF Told
    <2>1. n = e.task /\ e.kind \notin Terminal /\ WorksOn(s, n)
        BY <1>10
    <2>2. PICK d : d = heard[s].deltas
        OBVIOUS
    <2>3. Fresh(items, n) /\ Lit(items, n, d) /\ d \in Nat
        BY <1>4, <1>7, <2>1, <2>2 DEF Showing, Told, Activity
    <2>4. e.kind \in Folding => d = 0
        <3>1. d > 0 => e.kind \in AfterDelta
            BY <1>1, <1>2, <1>6, <2>2 DEF Showing, Pace
        <3> QED
            BY <2>3, <3>1 DEF Folding, AfterDelta, Terminal
    <2>5. h.deltas = DeltasAfter(e.kind, d)
        <3>1. h.deltas = IF e.kind = "assistant_message_delta" THEN d + 1
                         ELSE IF e.kind \in {"task_started", "model_request_retrying", "model_round_finished"}
                                   \cup Terminal THEN 0
                         ELSE d
            BY <1>6, <1>7, <1>13, <2>2, HeardAfterIs
        <3>2. e.kind = "task_started" => d = 0
            BY <1>9, <2>2 DEF CoreInv, Stage, Line
        <3> HIDE <1>13, <2>2
        <3> QED
            BY <2>1, <3>1, <3>2 DEF DeltasAfter
    <2> QED
        BY <1>3, <1>4, <2>1, <2>3, <2>4, <2>5 DEF LeftBy
<1> QED
    BY <1>1, <1>2, <1>11, <1>12, <1>14, <1>15 DEF Showing

-----------------------------------------------------------------------------
(* What the other steps do to a transcript.                                 *)

(* A transcript that changes, its task as it was.                           *)
LEMMA ChangedShown ==
    ASSUME CoreInv, Caches, NEW s \in Sessions, Showing(s),
           Work(s)' = Work(s), queue'[s] = queue[s], heard'[s] = heard[s],
           NoMoreRunning(cache[s], cache'[s]),
           \A t \in hidden' \ hidden : t \in Prompts => heard[s].task # t,
           s \notin deleted' => \A n \in Prompts : WorksOn(s, n)' =>
               Fresh(cache'[s], n) /\ Lit(cache'[s], n, heard[s].deltas)
    PROVE  Showing(s)'
<1>1. Pace(s)' /\ Dividing(s)'
    BY SamePace, SameDividing DEF Showing
<1>2. Told(s)'
    BY DEF Told
<1> QED
    BY <1>1, <1>2 DEF Showing

LEMMA KeptShown ==
    ASSUME CoreInv, Caches, NEW s \in Sessions, Showing(s),
           Work(s)' = Work(s), queue'[s] = queue[s], heard'[s] = heard[s], cache'[s] = cache[s],
           hidden' \subseteq hidden, s \in deleted => s \in deleted',
           \A n \in Prompts : WorksOn(s, n)' => WorksOn(s, n)
    PROVE  Showing(s)'
<1>1. NoMoreRunning(cache[s], cache'[s])
    BY DEF NoMoreRunning
<1>2. s \notin deleted' => \A n \in Prompts : WorksOn(s, n)' =>
               Fresh(cache'[s], n) /\ Lit(cache'[s], n, heard[s].deltas)
    BY DEF Showing, Told
<1> QED
    BY <1>1, <1>2, ChangedShown

(* A step about one session, with what it hides being a task of that one.   *)
LEMMA OthersShown ==
    ASSUME CoreInv, OwnInv, Caches, \A o \in Sessions : Showing(o), NEW s \in Sessions,
           Others(s), Showing(s)', cache' = cache \/ \E r : ChangesOnly(s, r),
           \A t \in hidden' \ hidden : t \in Prompts => Has(s, t)
    PROVE  \A o \in Sessions : Showing(o)'
<1> TAKE o \in Sessions
<1>1. CASE o = s
    BY <1>1
<1>2. CASE o # s
    <2>1. Alike(o)
        BY <1>2 DEF Others, Alike, ChangesOnly, Caches
    <2>2. \A t \in hidden' \ hidden : t \in Prompts => heard[o].task # t
        BY <1>2 DEF OwnInv, Has
    <2> QED
        BY <2>1, <2>2, AlikeShown
<1> QED
    BY <1>1, <1>2

LEMMA StartShown ==
    ASSUME CoreInv, Caches, NEW s \in Sessions, Showing(s), NEW n \in Prompts, KernelStarts(s, n)
    PROVE  Showing(s)'
<1>1. PICK e : e = [kind |-> "task_started", task |-> n]
    OBVIOUS
<1>2. e.kind = "task_started" /\ e.task = n
    BY <1>1
<1>3. Work(s).task = 0 /\ queue[s] = <<>>
    BY DEF KernelStarts, CoreInv, Stage, Starting, Asked
<1>4. queue'[s] = <<e>> /\ UNCHANGED <<heard, cache, hidden, deleted>>
    BY <1>1, <1>3 DEF KernelStarts, CoreInv, TypeInv, uiVars
<1>5. <<s, n>> \in starts /\ starts' = starts \ {<<s, n>>}
    BY DEF KernelStarts
<1>6. Work(s)'.task = n
    <2>1. PICK k : k = [Idle EXCEPT !.task = n]
        OBVIOUS
    <2>2. k.task = n
        BY <2>1 DEF Idle
    <2> QED
        BY <2>1, <2>2, IdleIs DEF KernelStarts, CoreInv, TypeInv, WorkTypes
<1>7. heard[s].task = 0 /\ heard[s].deltas = 0
    BY <1>3 DEF CoreInv, Stage, Line
<1>8. Len(<<e>>) = 1 /\ <<e>>[1] = e /\ DOMAIN <<e>> = {1} /\ <<e>> # <<>>
    OBVIOUS
<1>9. Pace(s)'
    BY <1>2, <1>4, <1>7, <1>8 DEF Pace
<1>10. Dividing(s)'
    <2>1. ASSUME NEW i \in DOMAIN cache[s], IsRunning(cache[s][i]) PROVE FALSE
        <3>1. PICK m \in Shows(prompts) : m = cache[s][i]
            BY DEF Caches
        <3>2. m.task \in 1..prompts
            BY <2>1, <3>1, RunningIsDivider, TranscriptAssumption DEF CoreInv, TypeInv
        <3> QED
            BY <1>7, <2>1, <3>1, <3>2 DEF Showing, Dividing
    <2> QED
        BY <1>4, <2>1 DEF Dividing
<1>11. \A m \in Prompts : WorksOn(s, m)' => m = n
    <2>1. \A m \in Prompts : <<s, m>> \notin starts'
        BY <1>5 DEF CoreInv, Stage, Starting
    <2> QED
        BY <1>2, <1>4, <1>6, <1>8, <2>1 DEF WorksOn
<1>12. Told(s)'
    <2>1. WorksOn(s, n)
        BY <1>5 DEF WorksOn
    <2> QED
        BY <1>4, <1>11, <2>1 DEF Showing, Told
<1> QED
    BY <1>9, <1>10, <1>12 DEF Showing

LEMMA AnswerShows ==
    ASSUME CoreInv, OwnInv, Caches, NEW a \in answers, Showing(a.session), StartAnswered(a)
    PROVE  /\ Showing(a.session)' /\ hidden' = hidden
           /\ \E r \in Seq(Shows(prompts)) : ChangesOnly(a.session, r)
<1>1. PICK s \in Sessions : s = a.session
    BY DEF CoreInv, TypeInv
<1>2. UNCHANGED <<starts, deleted, kernel, silent, queue, heard, hidden>>
    BY DEF StartAnswered, kernelVars
<1>3. PICK items : items = cache[s]
    OBVIOUS
<1>4. items \in Seq(Shows(prompts)) /\ prompts \in Nat
    BY <1>3, TranscriptAssumption DEF Caches, CoreInv, TypeInv
<1>5. CASE a.ok
    <2>1. PICK t : t = a.task
        OBVIOUS
    <2>2. PICK r : r = Tagged(items, t)
        OBVIOUS
    <2>3. t \in 1..prompts
        <3>1. t \in Prompts /\ Has(s, t)
            BY <1>1, <2>1 DEF Has, CoreInv, TypeInv
        <3>2. t <= prompts
            BY <3>1 DEF OwnInv
        <3> QED
            BY <1>4, <3>1, <3>2 DEF Prompts
    <2>4. /\ r \in Seq(Shows(prompts)) /\ NoMoreRunning(items, r)
          /\ Fresh(items, t) => Fresh(r, t)
          /\ \A d \in Nat : Fresh(items, t) /\ Lit(items, t, d) => Lit(r, t, d)
        BY <1>4, <2>2, <2>3, TaggedIs
    <2>5. ChangesOnly(s, r) /\ cache'[s] = r
        BY <1>1, <1>3, <1>5, <2>1, <2>2 DEF StartAnswered, Show, ChangesOnly, Caches
    <2>6. \A n \in Prompts : WorksOn(s, n) => n = t
        BY <1>1, <1>5, <2>1 DEF CoreInv, Stage, Starting
    <2>7. heard[s].deltas \in Nat
        BY DEF CoreInv, TypeInv, Activity
    <2>8. s \notin deleted' => \A n \in Prompts : WorksOn(s, n)' =>
               Fresh(cache'[s], n) /\ Lit(cache'[s], n, heard[s].deltas)
        BY <1>1, <1>2, <1>3, <2>4, <2>5, <2>6, <2>7 DEF Showing, Told, WorksOn
    <2>9. Showing(s)'
        BY <1>1, <1>2, <1>3, <2>4, <2>5, <2>8, ChangedShown
    <2> QED
        BY <1>1, <1>2, <2>4, <2>5, <2>9
<1>6. CASE ~a.ok
    <2>1. PICK r : r = WithoutPlaceholder(items)
        OBVIOUS
    <2>2. r \in Seq(Shows(prompts)) /\ NoMoreRunning(items, r)
        BY <1>4, <2>1, WithoutPlaceholderIs
    <2>3. ChangesOnly(s, r) /\ cache'[s] = r
        BY <1>1, <1>3, <1>6, <2>1 DEF StartAnswered, Show, ChangesOnly, Caches
    <2>4. Refused(s)
        BY <1>1, <1>6 DEF Refused
    <2>5. \A n \in Prompts : ~WorksOn(s, n)
        BY <1>1, <2>4 DEF CoreInv, Stage, Starting, WorksOn, Prompts
    <2>6. \A n \in Prompts : ~WorksOn(s, n)'
        BY <1>2, <2>5 DEF WorksOn
    <2>7. Showing(s)'
        BY <1>1, <1>2, <1>3, <2>2, <2>3, <2>6, ChangedShown
    <2> QED
        BY <1>1, <1>2, <2>2, <2>3, <2>7
<1> QED
    BY <1>5, <1>6

LEMMA SendShown ==
    ASSUME CoreInv, Caches, NEW s \in Sessions, Showing(s), Send(s)
    PROVE  /\ Showing(s)' /\ hidden' = hidden
           /\ \E r \in Seq(Shows(prompts')) : ChangesOnly(s, r)
<1>1. PICK n : n = prompts + 1
    OBVIOUS
<1>2. PICK items : items = cache[s]
    OBVIOUS
<1>3. PICK r : r = items \o <<UserMessage(n), Placeholder(n)>>
    OBVIOUS
<1>4. items \in Seq(Shows(prompts)) /\ prompts \in Nat
    BY <1>2, TranscriptAssumption DEF Caches, CoreInv, TypeInv
<1>5. r \in Seq(Shows(n)) /\ NoMoreRunning(items, r) /\ Fresh(r, n) /\ Lit(r, n, 0)
    BY <1>1, <1>3, <1>4, SentIs
<1>6. /\ prompts' = n /\ cache' = [cache EXCEPT ![s] = items \o <<UserMessage(n), Placeholder(n)>>]
      /\ starts' = starts \cup {<<s, n>>} /\ UNCHANGED <<hidden, kernel, silent, queue, heard, deleted>>
    BY <1>1, <1>2 DEF Send, kernelVars
<1>7. ChangesOnly(s, r) /\ cache'[s] = r
    BY <1>3, <1>6 DEF ChangesOnly, Caches
<1>8. s \notin running /\ s \notin deleted
    BY AtMostOneSends DEF CoreInv, Waits, Send
<1>9. Work(s).task = 0 /\ queue[s] = <<>> /\ ~Asked(s) /\ heard[s].deltas = 0
    BY <1>8 DEF CoreInv, Stage, Marks, Line, Busy
<1>10. \A m \in Prompts : WorksOn(s, m)' => m = n
    BY <1>6, <1>9 DEF WorksOn, Asked, Prompts
<1>11. Showing(s)'
    BY <1>2, <1>5, <1>6, <1>7, <1>9, <1>10, ChangedShown
<1> QED
    BY <1>5, <1>6, <1>7, <1>11

LEMMA StopShown ==
    ASSUME CoreInv, OwnInv, Caches, NEW s \in Sessions, Showing(s), StopAnswered(s)
    PROVE  /\ Showing(s)' /\ \A t \in hidden' \ hidden : t \in Prompts => Has(s, t)
           /\ cache' = cache \/ \E r \in Seq(Shows(prompts)) : ChangesOnly(s, r)
<1>1. PICK t : t = cancels[s].task
    OBVIOUS
<1>2. t \in Prompts /\ Has(s, t)
    BY <1>1 DEF StopAnswered, CoreInv, TypeInv, Has
<1>3. UNCHANGED <<starts, deleted, kernel, silent, queue, heard>>
    BY DEF StopAnswered, kernelVars
<1>4. \A n \in Prompts : WorksOn(s, n)' <=> WorksOn(s, n)
    BY <1>3 DEF WorksOn
<1>5. PICK items : items = cache[s]
    OBVIOUS
<1>6. items \in Seq(Shows(prompts)) /\ prompts \in Nat
    BY <1>5, TranscriptAssumption DEF Caches, CoreInv, TypeInv
<1>7. CASE cancels[s].call = "refused"
    <2>1. UNCHANGED cache /\ hidden' \subseteq hidden
        BY <1>7 DEF StopAnswered
    <2> QED
        BY <1>3, <1>4, <2>1, KeptShown
<1>8. CASE cancels[s].call # "refused"
    <2>1. PICK r : r = DividerHidden(items, t)
        OBVIOUS
    <2>2. /\ r \in Seq(Shows(prompts)) /\ NoMoreRunning(items, r)
          /\ \A i \in DOMAIN r : IsRunning(r[i]) => r[i].task # t
          /\ \A n \in Nat : Fresh(items, n) => Fresh(r, n)
          /\ \A n \in Nat, d \in Nat : Lit(items, n, d) => Lit(r, n, d)
        BY <1>6, <2>1, DividerHiddenIs
    <2>3. ChangesOnly(s, r) /\ cache'[s] = r /\ hidden' \subseteq hidden \cup {t}
        BY <1>1, <1>5, <1>8, <2>1 DEF StopAnswered, Show, ChangesOnly, Caches, HiddenAfterHide
    <2>4. Dividing(s)'
        <3>1. ASSUME NEW i \in DOMAIN r, IsRunning(r[i])
              PROVE  /\ r[i].task = heard[s].task /\ r[i].task \notin hidden'
                     /\ IF queue[s] = <<>> THEN Work(s).folding ELSE queue[s][1].kind \in AfterFold
            <4>1. PICK j \in DOMAIN items : items[j] = r[i] /\ IsRunning(items[j])
                BY <2>2, <3>1 DEF NoMoreRunning
            <4> QED
                BY <1>5, <2>2, <2>3, <3>1, <4>1 DEF Showing, Dividing
        <3> QED
            BY <1>3, <2>3, <3>1 DEF Dividing
    <2>5. Pace(s)'
        BY <1>3, SamePace DEF Showing
    <2>6. heard[s].deltas \in Nat /\ Prompts \subseteq Nat
        BY DEF CoreInv, TypeInv, Activity, Prompts
    <2>7. Told(s)'
        BY <1>3, <1>4, <1>5, <2>2, <2>3, <2>6 DEF Showing, Told
    <2> QED
        BY <1>2, <2>2, <2>3, <2>4, <2>5, <2>7 DEF Showing
<1> QED
    BY <1>7, <1>8

LEMMA LoadShown ==
    ASSUME CoreInv, Caches, NEW s \in Sessions, Showing(s), TurnsLoaded(s)
    PROVE  /\ Showing(s)' /\ hidden' = hidden
           /\ cache' = cache \/ \E r \in Seq(Shows(prompts)) : ChangesOnly(s, r)
<1>1. UNCHANGED <<starts, deleted, kernel, silent, queue, heard, hidden>>
    BY DEF TurnsLoaded, kernelVars
<1>2. \A n \in Prompts : WorksOn(s, n)' <=> WorksOn(s, n)
    BY <1>1 DEF WorksOn
<1>3. CASE active = s
    <2>1. PICK ts : ts = loads[s].turns
        OBVIOUS
    <2>2. PICK r : r = Mapped(ts)
        OBVIOUS
    <2>3. ts \in Seq(Rows(prompts)) /\ prompts \in Nat
        BY <2>1, TranscriptAssumption DEF Caches, CoreInv, TypeInv
    <2>4. r \in Seq(Shows(prompts)) /\ \A i \in DOMAIN r : ~IsRunning(r[i])
        BY <2>2, <2>3, MappedIs
    <2>5. ChangesOnly(s, r) /\ cache'[s] = r
        BY <1>3, <2>1, <2>2 DEF TurnsLoaded, Show, ChangesOnly, Caches
    <2>6. NoMoreRunning(cache[s], r)
        BY <2>4 DEF NoMoreRunning
    <2>7. s \notin running \/ s \in deleted
        BY DEF TurnsLoaded, CoreInv, Waits
    <2>8. s \notin deleted => ~Busy(s)
        BY <2>7 DEF CoreInv, Stage, Marks
    <2>9. s \notin deleted' => \A n \in Prompts : ~WorksOn(s, n)'
        BY <1>1, <1>2, <2>8 DEF WorksOn, Busy, Asked, Prompts
    <2>10. Showing(s)'
        BY <1>1, <2>5, <2>6, <2>9, ChangedShown
    <2> QED
        BY <1>1, <2>4, <2>5, <2>10
<1>4. CASE active # s
    <2>1. UNCHANGED cache
        BY <1>4 DEF TurnsLoaded
    <2> QED
        BY <1>1, <1>2, <2>1, KeptShown
<1> QED
    BY <1>3, <1>4

LEMMA DeletedShown ==
    ASSUME CoreInv, Caches, NEW s \in Sessions, Showing(s), SessionDeleted(s)
    PROVE  Showing(s)' /\ hidden' = hidden /\ ChangesOnly(s, <<>>)
<1>1. /\ cache' = [cache EXCEPT ![s] = <<>>] /\ deleted' = deleted \cup {s}
      /\ UNCHANGED <<kernel, silent, queue, heard, hidden>>
    BY DEF SessionDeleted
<1>2. cache'[s] = <<>> /\ DOMAIN cache'[s] = {}
    BY <1>1 DEF Caches
<1>3. NoMoreRunning(cache[s], cache'[s])
    BY <1>2 DEF NoMoreRunning
<1>4. Showing(s)'
    BY <1>1, <1>3, ChangedShown
<1> QED
    BY <1>1, <1>4 DEF ChangesOnly

-----------------------------------------------------------------------------
(* Every step keeps the transcripts true.                                   *)

ShowingInv == Caches /\ OwnInv /\ \A s \in Sessions : Showing(s)

(* A step that is nothing to any transcript.                                *)
LEMMA CalmShown ==
    ASSUME CoreInv, Caches, \A s \in Sessions : Showing(s),
           UNCHANGED <<queue, heard, starts, deleted, cache, hidden>>,
           \A s \in Sessions : Work(s)' = Work(s)
    PROVE  \A s \in Sessions : Showing(s)'
<1> TAKE s \in Sessions
<1>1. \A n \in Prompts : WorksOn(s, n)' => WorksOn(s, n)
    BY DEF WorksOn
<1> QED
    BY <1>1, KeptShown

LEMMA ShownStep ==
    ASSUME CoreInv, ShowingInv, [Next]_vars
    PROVE  \A s \in Sessions : Showing(s)'
<1>0. Caches /\ OwnInv /\ \A s \in Sessions : Showing(s)
    BY DEF ShowingInv
<1>1. CASE UNCHANGED vars
    <2>1. UNCHANGED <<kernel, silent, queue, heard, starts, deleted, cache, hidden>>
        BY <1>1 DEF vars, uiVars, callVars, kernelVars
    <2> QED
        BY <1>0, <2>1, CalmShown
<1>2. ASSUME NEW s \in Sessions, KernelActs(s) PROVE \A o \in Sessions : Showing(o)'
    <2>1. PICK kind, k : Tells(s, kind, k)
        BY <1>2, KernelTells DEF CoreInv, Stage
    <2>2. Showing(s)'
        BY <1>0, <2>1, TellsShown
    <2>3. Others(s) /\ UNCHANGED <<cache, hidden>>
        BY <2>1, TellsOthers DEF CoreInv, Tells
    <2> QED
        BY <1>0, <2>2, <2>3, OthersShown
<1>3. ASSUME NEW s \in Sessions, KernelCancels(s) PROVE \A o \in Sessions : Showing(o)'
    <2>1. CASE Tells(s, "canceled", Idle)
        <3>1. Showing(s)'
            BY <1>0, <2>1, TellsShown
        <3>2. Others(s) /\ UNCHANGED <<cache, hidden>>
            BY <2>1, TellsOthers DEF CoreInv, Tells
        <3> QED
            BY <1>0, <3>1, <3>2, OthersShown
    <2>2. CASE Resting /\ UNCHANGED <<cache, hidden>>
        BY <1>0, <2>2, CalmShown DEF Resting
    <2> QED
        BY <1>3, <2>1, <2>2, CancelsTells DEF CoreInv, Stage
<1>4. ASSUME NEW s \in Sessions, NEW n \in Prompts, KernelStarts(s, n) \/ KernelRefuses(s, n)
      PROVE  \A o \in Sessions : Showing(o)'
    <2>1. Others(s)
        BY <1>4, TaskStartsStage, TaskRefusedStage DEF CoreInv
    <2>2. UNCHANGED <<cache, hidden>>
        BY <1>4 DEF KernelStarts, KernelRefuses, uiVars
    <2>3. Showing(s)'
        <3>1. CASE KernelStarts(s, n)
            BY <1>0, <3>1, StartShown
        <3>2. CASE KernelRefuses(s, n)
            <4>1. UNCHANGED <<kernel, silent, queue, heard, deleted>> /\ starts' \subseteq starts
                BY <3>2 DEF KernelRefuses, kernelVars
            <4>2. \A m \in Prompts : WorksOn(s, m)' => WorksOn(s, m)
                BY <4>1 DEF WorksOn
            <4> QED
                BY <1>0, <2>2, <4>1, <4>2, KeptShown
        <3> QED
            BY <1>4, <3>1, <3>2
    <2> QED
        BY <1>0, <2>1, <2>2, <2>3, OthersShown
<1>5. ASSUME NEW a \in answers, StartAnswered(a) PROVE \A o \in Sessions : Showing(o)'
    <2>1. PICK s \in Sessions : s = a.session
        BY DEF CoreInv, TypeInv
    <2>2. Others(s)
        BY <1>5, <2>1, StartAnsweredStage DEF CoreInv
    <2>3. Showing(s)' /\ hidden' = hidden /\ \E r : ChangesOnly(s, r)
        BY <1>0, <1>5, <2>1, AnswerShows
    <2> QED
        BY <1>0, <2>2, <2>3, OthersShown
<1>6. ASSUME NEW s \in Sessions, HandleEvent(s) PROVE \A o \in Sessions : Showing(o)'
    <2>1. Others(s)
        BY <1>6, HandleEventStage DEF CoreInv
    <2>2. Showing(s)' /\ hidden' \subseteq hidden \cup {queue[s][1].task}
        BY <1>0, <1>6, EventShown
    <2>3. \E r : ChangesOnly(s, r)
        BY <1>0, <1>6, EventCache
    <2>4. \A t \in hidden' \ hidden : t \in Prompts => Has(s, t)
        BY <1>6, <2>2 DEF HandleEvent, Has
    <2> QED
        BY <1>0, <2>1, <2>2, <2>3, <2>4, OthersShown
<1>7. ASSUME NEW s \in Sessions, Send(s) PROVE \A o \in Sessions : Showing(o)'
    <2>1. Others(s)
        BY <1>7, SendStage
    <2>2. Showing(s)' /\ hidden' = hidden /\ \E r : ChangesOnly(s, r)
        BY <1>0, <1>7, SendShown
    <2> QED
        BY <1>0, <2>1, <2>2, OthersShown
<1>8. ASSUME NEW s \in Sessions, StopAnswered(s) PROVE \A o \in Sessions : Showing(o)'
    <2>1. Others(s)
        BY <1>8, StopStage
    <2>2. /\ Showing(s)' /\ \A t \in hidden' \ hidden : t \in Prompts => Has(s, t)
          /\ cache' = cache \/ \E r : ChangesOnly(s, r)
        BY <1>0, <1>8, StopShown
    <2> QED
        BY <1>0, <2>1, <2>2, OthersShown
<1>9. ASSUME NEW s \in Sessions, TurnsLoaded(s) PROVE \A o \in Sessions : Showing(o)'
    <2>1. Others(s)
        BY <1>9 DEF TurnsLoaded, kernelVars, Others, Same
    <2>2. /\ Showing(s)' /\ hidden' = hidden
          /\ cache' = cache \/ \E r : ChangesOnly(s, r)
        BY <1>0, <1>9, LoadShown
    <2> QED
        BY <1>0, <2>1, <2>2, OthersShown
<1>10. ASSUME NEW s \in Sessions, SessionDeleted(s) PROVE \A o \in Sessions : Showing(o)'
    <2>1. Others(s)
        BY <1>10, SessionDeletedStage
    <2>2. Showing(s)' /\ hidden' = hidden /\ ChangesOnly(s, <<>>)
        BY <1>0, <1>10, DeletedShown
    <2> QED
        BY <1>0, <2>1, <2>2, OthersShown
<1>11. ASSUME NEW s \in Sessions,
              \/ OpenSession(s) \/ DeleteSession(s) \/ ReadTurns(s) \/ LoadFails(s)
              \/ Submit(s) \/ SubmitFails(s) \/ Stop(s)
       PROVE  \A o \in Sessions : Showing(o)'
    <2>1. UNCHANGED <<kernel, silent, queue, heard, starts, deleted, cache, hidden>>
        BY <1>11 DEF OpenSession, DeleteSession, ReadTurns, LoadFails, Submit, SubmitFails, Stop,
                     uiVars, callVars, kernelVars
    <2> QED
        BY <1>0, <2>1, CalmShown
<1>12. ASSUME NEW s \in Sessions, Settle(s) PROVE \A o \in Sessions : Showing(o)'
    BY <1>2, <1>3, <1>4, <1>5, <1>6, <1>8, <1>9, <1>10, <1>11, <1>12 DEF Settle, KernelActs, Prompts
<1> QED
    BY <1>1, <1>2, <1>7, <1>11, <1>12 DEF Next, KernelActs

-----------------------------------------------------------------------------
(* Every step keeps transcripts and rows well formed.                       *)

LEMMA SomeCaches ==
    ASSUME CoreInv, Caches, prompts' = prompts,
           cache' = cache \/ \E s \in Sessions : \E r \in Seq(Shows(prompts)) : ChangesOnly(s, r),
           turns' \in [Sessions -> Seq(Rows(prompts))],
           \A s \in Sessions : loads'[s].turns \in Seq(Rows(prompts))
    PROVE  Caches'
BY DEF Caches, ChangesOnly

LEMMA SendCaches ==
    ASSUME CoreInv, Caches, NEW s \in Sessions, Showing(s), Send(s)
    PROVE  Caches'
<1>1. prompts \in Nat /\ prompts' = prompts + 1
    BY TranscriptAssumption DEF CoreInv, TypeInv, Send
<1>2. Shows(prompts) \subseteq Shows(prompts') /\ Rows(prompts) \subseteq Rows(prompts')
    <2>1. PICK n : n = prompts + 1
        OBVIOUS
    <2>2. n \in Nat /\ prompts <= n
        BY <1>1, <2>1
    <2>3. Shows(prompts) \subseteq Shows(n)
        BY <1>1, <2>2, ShowsMonotonic
    <2>4. Rows(prompts) \subseteq Rows(n)
        BY <1>1, <2>2 DEF Rows
    <2> QED
        BY <1>1, <2>1, <2>3, <2>4
<1>3. PICK r \in Seq(Shows(prompts')) : cache' = [cache EXCEPT ![s] = r]
    BY SendShown DEF ChangesOnly
<1>4. UNCHANGED <<turns, loads>>
    BY DEF Send, kernelVars
<1>5. \A q \in Seq(Shows(prompts)) : q \in Seq(Shows(prompts'))
    BY <1>2, SeqMonotonic
<1>6. \A q \in Seq(Rows(prompts)) : q \in Seq(Rows(prompts'))
    BY <1>2, SeqMonotonic
<1>7. cache' \in [Sessions -> Seq(Shows(prompts'))]
    BY <1>3, <1>5 DEF Caches
<1>8. turns' \in [Sessions -> Seq(Rows(prompts'))] /\ \A o \in Sessions : loads'[o].turns \in Seq(Rows(prompts'))
    BY <1>4, <1>6 DEF Caches
<1> QED
    BY <1>7, <1>8 DEF Caches

LEMMA TurnsStep ==
    ASSUME CoreInv, OwnInv, Caches, NEW s \in Sessions,
           \/ KernelRound(s) \/ SessionDeleted(s) \/ \E n \in Prompts : KernelStarts(s, n)
    PROVE  turns' \in [Sessions -> Seq(Rows(prompts))]
<1>1. PICK ts \in Seq(Rows(prompts)) : ts = turns[s]
    BY DEF Caches
<1>2. CASE KernelRound(s)
    <2>1. PICK N : N = Len(ts)
        OBVIOUS
    <2>2. PICK us : us = [ts EXCEPT ![N].rounds = @ + 1]
        OBVIOUS
    <2>3. us \in Seq(Rows(prompts))
        <3>1. CASE N = 0
            <4>1. ts = <<>>
                BY <2>1, <3>1, EmptySeq
            <4>2. us = <<>>
                BY <2>2, <4>1
            <4> QED
                BY <4>2
        <3>2. CASE N # 0
            <4>1. N \in 1..Len(ts) /\ N \in DOMAIN ts /\ ts[N] \in Rows(prompts)
                BY <2>1, <3>2
            <4>5. PICK v \in Rows(prompts) : v = ts[N]
                BY <4>1
            <4>2. PICK w : w = [v EXCEPT !.rounds = @ + 1]
                OBVIOUS
            <4>3. w \in Rows(prompts)
                BY <4>2 DEF Rows
            <4>4. us = [ts EXCEPT ![N] = w]
                BY <2>2, <4>2, <4>5
            <4> QED
                BY <4>1, <4>3, <4>4
        <3> QED
            BY <3>1, <3>2
    <2>4. turns' = turns \/ turns' = [turns EXCEPT ![s] = us]
        BY <1>1, <1>2, <2>1, <2>2 DEF KernelRound
    <2> QED
        BY <2>3, <2>4 DEF Caches
<1>3. CASE SessionDeleted(s)
    BY <1>3 DEF SessionDeleted, Caches
<1>4. ASSUME NEW n \in Prompts, KernelStarts(s, n) PROVE turns' \in [Sessions -> Seq(Rows(prompts))]
    <2>1. Has(s, n)
        BY <1>4 DEF KernelStarts, Has
    <2>2. n <= prompts /\ n \in Nat
        BY <2>1 DEF OwnInv, Prompts
    <2>3. PICK w : w = [turn |-> n, rounds |-> 0]
        OBVIOUS
    <2>4. w \in Rows(prompts)
        BY <2>2, <2>3, TranscriptAssumption DEF Rows, CoreInv, TypeInv
    <2>5. turns' = [turns EXCEPT ![s] = Append(ts, w)] /\ Append(ts, w) \in Seq(Rows(prompts))
        BY <1>1, <1>4, <2>3, <2>4 DEF KernelStarts
    <2> QED
        BY <2>5 DEF Caches
<1> QED
    BY <1>2, <1>3, <1>4

LEMMA LoadsStep ==
    ASSUME CoreInv, Caches, NEW s \in Sessions,
           \/ OpenSession(s) \/ ReadTurns(s) \/ TurnsLoaded(s) \/ LoadFails(s) \/ SessionDeleted(s)
    PROVE  \A o \in Sessions : loads'[o].turns \in Seq(Rows(prompts))
<1>1. \/ loads' = loads
      \/ \E o \in Sessions : loads' = [loads EXCEPT ![o] = [call |-> "asked", turns |-> <<>>]]
      \/ loads' = [loads EXCEPT ![s] = [call |-> "read", turns |-> turns[s]]]
      \/ loads' = [loads EXCEPT ![s] = NoCall]
    BY DEF OpenSession, ShowOpened, ReadTurns, TurnsLoaded, LoadFails, SessionDeleted
<1>2. <<>> \in Seq(Rows(prompts)) /\ turns[s] \in Seq(Rows(prompts))
    BY DEF Caches
<1>3. DOMAIN loads = Sessions /\ \A o \in Sessions : loads[o].turns \in Seq(Rows(prompts))
    BY DEF Caches, CoreInv, TypeInv
<1>4. NoCall.turns = <<>>
    BY DEF NoCall
<1>5. ASSUME NEW o \in Sessions, NEW call, call.turns \in Seq(Rows(prompts)),
             loads' = [loads EXCEPT ![o] = call]
      PROVE  \A x \in Sessions : loads'[x].turns \in Seq(Rows(prompts))
    BY <1>3, <1>5
<1>6. PICK asked : asked = [call |-> "asked", turns |-> <<>>]
    OBVIOUS
<1>7. PICK read : read = [call |-> "read", turns |-> turns[s]]
    OBVIOUS
<1>8. asked.turns \in Seq(Rows(prompts)) /\ read.turns \in Seq(Rows(prompts))
    BY <1>2, <1>6, <1>7
<1> QED
    BY <1>1, <1>2, <1>3, <1>4, <1>5, <1>6, <1>7, <1>8

LEMMA CachesStep ==
    ASSUME CoreInv, ShowingInv, [Next]_vars
    PROVE  Caches'
<1>0. Caches /\ OwnInv /\ \A s \in Sessions : Showing(s)
    BY DEF ShowingInv
<1>a. /\ turns \in [Sessions -> Seq(Rows(prompts))]
      /\ \A s \in Sessions : loads[s].turns \in Seq(Rows(prompts))
    BY <1>0 DEF Caches
<1>1. CASE UNCHANGED vars
    BY <1>0, <1>1 DEF vars, uiVars, callVars, kernelVars, Caches
<1>2. ASSUME NEW s \in Sessions,
             \/ KernelDelta(s) \/ KernelRetry(s) \/ KernelFolds(s) \/ KernelFolded(s) \/ KernelEnds(s)
             \/ KernelCancels(s) \/ DeleteSession(s) \/ Submit(s) \/ SubmitFails(s) \/ Stop(s)
             \/ \E n \in Prompts : KernelRefuses(s, n)
      PROVE  Caches'
    <2>1. UNCHANGED <<cache, prompts, turns, loads>>
        BY <1>2 DEF KernelDelta, KernelRetry, KernelFolds, KernelFolded, KernelEnds, KernelCancels,
                    KernelRefuses, DeleteSession, Submit, SubmitFails, Stop, uiVars, callVars, kernelVars
    <2> QED
        BY <1>0, <2>1 DEF Caches
<1>3. ASSUME NEW s \in Sessions, KernelRound(s) \/ \E n \in Prompts : KernelStarts(s, n)
      PROVE  Caches'
    <2>1. UNCHANGED <<cache, prompts, loads>>
        BY <1>3 DEF KernelRound, KernelStarts, uiVars, callVars
    <2>2. turns' \in [Sessions -> Seq(Rows(prompts))]
        BY <1>0, <1>3, TurnsStep
    <2> QED
        BY <1>0, <1>a, <2>1, <2>2, SomeCaches
<1>4. ASSUME NEW s \in Sessions, OpenSession(s) \/ ReadTurns(s) \/ LoadFails(s)
      PROVE  Caches'
    <2>1. UNCHANGED <<cache, prompts, turns>>
        BY <1>4 DEF OpenSession, ReadTurns, LoadFails, uiVars, kernelVars
    <2>2. \A o \in Sessions : loads'[o].turns \in Seq(Rows(prompts))
        BY <1>0, <1>4, LoadsStep
    <2> QED
        BY <1>0, <1>a, <2>1, <2>2, SomeCaches
<1>5. ASSUME NEW s \in Sessions, TurnsLoaded(s) PROVE Caches'
    <2>1. UNCHANGED <<prompts, turns>>
        BY <1>5 DEF TurnsLoaded, kernelVars
    <2>2. cache' = cache \/ \E r \in Seq(Shows(prompts)) : ChangesOnly(s, r)
        BY <1>0, <1>5, LoadShown
    <2>3. \A o \in Sessions : loads'[o].turns \in Seq(Rows(prompts))
        BY <1>0, <1>5, LoadsStep
    <2> QED
        BY <1>0, <1>a, <2>1, <2>2, <2>3, SomeCaches
<1>6. ASSUME NEW s \in Sessions, SessionDeleted(s) PROVE Caches'
    <2>1. UNCHANGED prompts
        BY <1>6 DEF SessionDeleted
    <2>2. \E r \in Seq(Shows(prompts)) : ChangesOnly(s, r)
        <3>1. <<>> \in Seq(Shows(prompts))
            OBVIOUS
        <3> QED
            BY <1>0, <1>6, <3>1, DeletedShown
    <2>3. \A o \in Sessions : loads'[o].turns \in Seq(Rows(prompts))
        BY <1>0, <1>6, LoadsStep
    <2>4. turns' \in [Sessions -> Seq(Rows(prompts))]
        BY <1>0, <1>6, TurnsStep
    <2> QED
        BY <1>0, <2>1, <2>2, <2>3, <2>4, SomeCaches
<1>7. ASSUME NEW s \in Sessions, StopAnswered(s) PROVE Caches'
    <2>1. UNCHANGED <<prompts, turns, loads>>
        BY <1>7 DEF StopAnswered, kernelVars
    <2>2. cache' = cache \/ \E r \in Seq(Shows(prompts)) : ChangesOnly(s, r)
        BY <1>0, <1>7, StopShown
    <2> QED
        BY <1>0, <1>a, <2>1, <2>2, SomeCaches
<1>8. ASSUME NEW s \in Sessions, HandleEvent(s) PROVE Caches'
    <2>1. UNCHANGED <<prompts, turns, loads>>
        BY <1>8 DEF HandleEvent, callVars
    <2>2. \E r \in Seq(Shows(prompts)) : ChangesOnly(s, r)
        <3>1. \E r : LeftBy(queue[s][1], cache[s], r, prompts) /\ ChangesOnly(s, r)
            BY <1>0, <1>8, EventCache
        <3> QED
            BY <3>1 DEF LeftBy
    <2> QED
        BY <1>0, <1>a, <2>1, <2>2, SomeCaches
<1>9. ASSUME NEW a \in answers, StartAnswered(a) PROVE Caches'
    <2>1. UNCHANGED <<prompts, turns, loads>> /\ a.session \in Sessions
        BY <1>9 DEF StartAnswered, kernelVars, CoreInv, TypeInv
    <2>2. \E r \in Seq(Shows(prompts)) : ChangesOnly(a.session, r)
        BY <1>0, <1>9, <2>1, AnswerShows
    <2> QED
        BY <1>0, <1>a, <2>1, <2>2, SomeCaches
<1>10. ASSUME NEW s \in Sessions, Settle(s) PROVE Caches'
    BY <1>2, <1>3, <1>4, <1>5, <1>6, <1>7, <1>8, <1>9, <1>10 DEF Settle, Prompts
<1>11. ASSUME NEW s \in Sessions, Send(s) PROVE Caches'
    BY <1>0, <1>11, SendCaches
<1> QED
    BY <1>1, <1>2, <1>3, <1>4, <1>10, <1>11 DEF Next

LEMMA ShownInit == Init => ShowingInv
<1> SUFFICES ASSUME Init PROVE ShowingInv
    OBVIOUS
<1>1. Caches
    <2>1. NoCall.turns = <<>>
        BY DEF NoCall
    <2>2. \A s \in Sessions : loads[s].turns = <<>>
        BY <2>1 DEF Init
    <2>3. cache = [s \in Sessions |-> <<>>] /\ turns = [s \in Sessions |-> <<>>]
        BY DEF Init
    <2>4. \A S : <<>> \in Seq(S)
        OBVIOUS
    <2> QED
        BY <2>2, <2>3, <2>4 DEF Caches
<1>2. \A s \in Sessions : Showing(s)
    BY IdleIs DEF Init, Showing, Pace, Dividing, Told, WorksOn, Prompts
<1> QED
    BY <1>1, <1>2, OwnInit DEF ShowingInv

LEMMA ShownInvariant ==
    ASSUME Patient
    PROVE  MCSpec => [](CoreInv /\ ShowingInv)
<1>1. MCInit => ShowingInv
    BY ShownInit DEF MCInit
<1>2. CoreInv /\ ShowingInv /\ [MCNext]_<<vars, pageVars, scene>> => ShowingInv'
    <2> SUFFICES ASSUME CoreInv, ShowingInv, [MCNext]_<<vars, pageVars, scene>> PROVE ShowingInv'
        OBVIOUS
    <2>1. [Next]_vars
        BY DEF MCNext
    <2>2. OwnInv'
        BY <2>1, OwnStep DEF ShowingInv
    <2> QED
        BY <2>1, <2>2, ShownStep, CachesStep DEF ShowingInv
<1> QED
    BY <1>1, <1>2, CoreInvariant, PTL DEF MCSpec

-----------------------------------------------------------------------------
(* What the user may rely on.                                               *)

LEMMA PromptIsShown ==
    ASSUME CoreInv, ShowingInv
    PROVE  PromptShown
<1> SUFFICES ASSUME NEW s \in Sessions, s \notin deleted, NEW n \in Prompts,
                    <<s, n>> \in starts \/ kernel[s].task = n
             PROVE  Cardinality({i \in DOMAIN cache[s] : cache[s][i] = UserMessage(n)}) = 1
    BY DEF PromptShown, Occurrences
<1>1. Fresh(cache[s], n)
    <2>1. kernel[s].task = n => Work(s) = kernel[s]
        BY IdleIs DEF CoreInv, TypeInv, WorkTypes, Prompts
    <2> QED
        BY <2>1 DEF ShowingInv, Showing, Told, WorksOn
<1>2. PICK i \in DOMAIN cache[s] :
          /\ cache[s][i] = UserMessage(n)
          /\ \A j \in DOMAIN cache[s] : j # i => cache[s][j] # UserMessage(n)
    BY <1>1 DEF Fresh
<1>3. {j \in DOMAIN cache[s] : cache[s][j] = UserMessage(n)} = {i}
    BY <1>2
<1> QED
    BY <1>3, FS_Singleton

LEMMA AnswerIsShown ==
    ASSUME CoreInv, ShowingInv
    PROVE  AnswerShown
<1> SUFFICES ASSUME NEW s \in Sessions, s \notin deleted, heard[s].deltas > 0
             PROVE  /\ Cardinality({i \in DOMAIN cache[s] :
                                      cache[s][i].task = heard[s].task /\ cache[s][i].got > 0}) = 1
                    /\ Last(cache[s]).task = heard[s].task
                    /\ Last(cache[s]).got = heard[s].deltas
    BY DEF AnswerShown, Occurrences
<1>1. PICK t : t = heard[s].task
    OBVIOUS
<1>2. t \in Prompts
    <2>1. PICK h \in Activity : h = heard[s]
        BY DEF CoreInv, TypeInv
    <2>2. h.deltas \in Nat /\ h.task \in 0..MaxPrompts
        BY DEF Activity
    <2>3. h.task # 0
        BY <2>1, <2>2 DEF CoreInv, Stage, Line
    <2> QED
        BY <1>1, <2>1, <2>2, <2>3, TranscriptAssumption DEF Prompts
<1>3. WorksOn(s, t)
    BY <1>1, <1>2 DEF CoreInv, Stage, Line, WorksOn, Prompts
<1>4. Lit(cache[s], t, heard[s].deltas)
    BY <1>2, <1>3 DEF ShowingInv, Showing, Told
<1>5. PICK items \in Seq(Shows(prompts)) : items = cache[s]
    BY DEF ShowingInv, Caches
<1>6. /\ items # <<>> /\ Last(items).task = t /\ Last(items).got = heard[s].deltas
      /\ \A i \in DOMAIN items : items[i].task = t /\ items[i].got > 0 => i = Len(items)
    BY <1>4, <1>5 DEF Lit
<1>7. Len(items) \in DOMAIN items /\ Last(items) = items[Len(items)]
    BY <1>6, LastIs
<1>8. {i \in DOMAIN items : items[i].task = t /\ items[i].got > 0} = {Len(items)}
    BY <1>6, <1>7
<1>9. {i \in DOMAIN cache[s] : cache[s][i].task = heard[s].task /\ cache[s][i].got > 0} = {Len(items)}
    BY <1>1, <1>5, <1>8
<1>10. Cardinality({i \in DOMAIN cache[s] : cache[s][i].task = heard[s].task /\ cache[s][i].got > 0}) = 1
    BY <1>9, FS_Singleton
<1> QED
    BY <1>1, <1>5, <1>6, <1>10

LEMMA DividerTrue ==
    ASSUME CoreInv, ShowingInv
    PROVE  DividerIsTrue
<1>1. ASSUME NEW s \in Sessions, NEW t, Divider(t) \in Range(cache[s])
      PROVE  /\ t = heard[s].task /\ t \notin hidden
             /\ IF queue[s] = <<>> THEN Work(s).folding ELSE queue[s][1].kind \in AfterFold
    <2>1. PICK i \in DOMAIN cache[s] : cache[s][i] = Divider(t)
        BY <1>1 DEF Range
    <2>2. PICK m \in Shows(prompts) : m = cache[s][i]
        BY <2>1 DEF ShowingInv, Caches
    <2>3. PICK w : w = Message("compaction", t)
        OBVIOUS
    <2>4. w = [role |-> "compaction", turn |-> t, task |-> 0, rounds |-> 0, got |-> 0, notice |-> FALSE]
        BY <2>3 DEF Message
    <2>5. PICK d : d = [w EXCEPT !.task = t]
        OBVIOUS
    <2>6. d.role = "compaction" /\ d.task = t /\ d.notice = FALSE
        BY <2>4, <2>5
    <2>7. m = d
        BY <2>1, <2>2, <2>3, <2>5 DEF Divider
    <2>8. IsRunning(m) /\ m.task = t
        BY <2>6, <2>7 DEF IsRunning
    <2> QED
        BY <2>2, <2>8 DEF ShowingInv, Showing, Dividing
<1>2. HiddenStaysHidden
    BY <1>1 DEF HiddenStaysHidden
<1>3. DividerMatchesKernel
    <2> SUFFICES ASSUME NEW s \in Sessions, NEW t \in Prompts, queue[s] = <<>>,
                        ~EndedSilently(s), Divider(t) \in Range(cache[s])
                 PROVE  kernel[s].task = t /\ kernel[s].folding
        BY DEF DividerMatchesKernel, Pending
    <2> QED
        BY <1>1 DEF CoreInv, Stage, Line
<1> QED
    BY <1>2, <1>3 DEF DividerIsTrue

(* A prompt is on its session's transcript, once, from the moment it is    *)
(* sent until its task has ended (replaceMessagesForSession).              *)
THEOREM PromptShownTheorem ==
    ASSUME Patient
    PROVE  MCSpec => []PromptShown
BY ShownInvariant, PromptIsShown, PTL

(* The deltas of the attempt that streams are shown, each once, in the one  *)
(* answer that belongs to the task, at the end of the transcript, whoever   *)
(* is on the screen meanwhile (updateAssistantMessage).                     *)
THEOREM AnswerShownTheorem ==
    ASSUME Patient
    PROVE  MCSpec => []AnswerShown
BY ShownInvariant, AnswerIsShown, PTL

(* A compaction is shown as running only while the kernel runs it, as far   *)
(* as the window has heard of it, or if its task has ended without telling, *)
(* and never again once it has been called off                              *)
(* (upsertCompactionDivider, hiddenCompactionTaskIdsRef).                   *)
THEOREM DividerIsTrueTheorem ==
    ASSUME Patient
    PROVE  MCSpec => []DividerIsTrue
BY ShownInvariant, DividerTrue, PTL
=============================================================================
