-------------------------- MODULE CompactionProofs --------------------------
(***************************************************************************)
(* No turn is forgotten by compaction, for every number of turns and of     *)
(* recent turns to keep, and wherever a task is cut off.                    *)
(***************************************************************************)
EXTENDS Compaction, TLAPS

-----------------------------------------------------------------------------
\* The turns a running task has to know are those before its own.
Prior == 1 .. turns - 1

\* The boundary hides nothing the summary does not tell.
SavedInv ==
  /\ \A k \in 1 .. turns : k \in saved.covers \/ k > saved.through
  /\ saved.covers \subseteq 1 .. turns /\ saved.through <= turns

\* The context of a running task is made of turns before its own, and of all
\* of them; between saving a plan and applying it, applying it loses none.
ContextInv ==
  pc # "idle" =>
    /\ turns > 0
    /\ saved.covers \subseteq Prior /\ saved.through < turns
    /\ ctx.summary \subseteq Prior /\ ctx.history \subseteq Prior
    /\ \A k \in Prior : k \in ctx.summary \cup ctx.history
    /\ pc = "replacePlan" =>
         \A k \in Prior : k \in saved.covers \/ (k \in ctx.history /\ k > saved.through)

Inv == TypeOK /\ SavedInv /\ ContextInv

-----------------------------------------------------------------------------
\* Starting a task opens a new turn, which is behind every boundary.
LEMMA StartKeeps ==
  ASSUME Inv, StartTask \/ StartFails
  PROVE  Inv'
<1> USE CompactionAssumption DEF Inv, TypeOK, SavedInv, ContextInv, Prior
<1>1. CASE StartTask
  <2>1. turns' = turns + 1 /\ pc = "idle" /\ pc' = "precheck" /\ UNCHANGED <<saved, tokens>>
    BY <1>1 DEF StartTask, Goto
  <2>2. ctx'.summary = saved.covers /\ ctx'.history = {k \in 1 .. turns : k > saved.through}
    BY <1>1 DEF StartTask
  <2>3. TypeOK'
    <3>1. turns' \in 0 .. MaxTurns
      BY <1>1 DEF StartTask
    <3>2. saved.covers \in SUBSET (1 .. MaxTurns) /\ {k \in 1 .. turns : k > saved.through} \in SUBSET (1 .. MaxTurns)
      BY <1>1
    <3>3. ctx' \in [summary : SUBSET (1 .. MaxTurns), history : SUBSET (1 .. MaxTurns)]
      BY <1>1, <3>2 DEF StartTask
    <3>4. live' \in Levels /\ pc' \in Steps /\ folded' \in BOOLEAN
      BY <1>1 DEF StartTask, Goto, Steps, Levels
    <3> QED
      BY <2>1, <3>1, <3>3, <3>4
  <2>4. SavedInv'
    BY <2>1
  <2>5. ContextInv'
    BY <2>1, <2>2
  <2> QED
    BY <2>3, <2>4, <2>5
<1>2. CASE StartFails
  BY <1>2 DEF StartFails
<1> QED
  BY <1>1, <1>2

\* A saved state that covers what the task knows up to a boundary of its
\* history forgets nothing.
LEMMA SaveKeeps ==
  ASSUME Inv, pc # "idle", NEW b \in ctx.history \cup {0}, NEW covers,
         covers \subseteq ctx.summary \cup ctx.history,
         \A k \in Prior : k \in covers \/ k > b,
         saved' = [covers |-> covers, through |-> b], UNCHANGED turns
  PROVE  /\ SavedInv' /\ saved' \in [covers : SUBSET (1 .. MaxTurns), through : 0 .. MaxTurns]
         /\ saved'.covers \subseteq Prior /\ saved'.through < turns
<1> USE CompactionAssumption DEF Inv, TypeOK, SavedInv, ContextInv, Prior
<1>1. turns \in Nat /\ turns > 0 /\ turns <= MaxTurns
  OBVIOUS
<1>2. b \in Nat /\ b < turns
  BY <1>1
<1>3. covers \subseteq Prior
  OBVIOUS
<1>4. saved'.covers = covers /\ saved'.through = b
  OBVIOUS
<1> QED
  BY <1>1, <1>2, <1>3, <1>4

\* Saving a plan, whether the task lives on to apply it or not.
LEMMA SavePlanKeeps ==
  ASSUME Inv, SavePlan
  PROVE  Inv'
<1>1. PICK b \in ctx.history :
        \/ /\ saved' = [covers |-> PlanCovers(b), through |-> b]
           /\ Goto("replacePlan")
           /\ UNCHANGED <<turns, tokens, ctx, live, folded>>
        \/ SaveAndDie(PlanCovers(b), b)
  BY DEF SavePlan
<1>2. pc = "savePlan" /\ turns' = turns /\ saved' = [covers |-> PlanCovers(b), through |-> b]
  BY <1>1 DEF SavePlan, SaveAndDie
<1>3. b \in Nat /\ \A k \in ctx.history : k \in Nat
  BY DEF Inv, TypeOK
<1>4. PlanCovers(b) \subseteq ctx.summary \cup ctx.history
  BY DEF PlanCovers
<1>5. \A k \in Prior : k \in PlanCovers(b) \/ (k \in ctx.history /\ k > b)
  BY <1>2, <1>3 DEF PlanCovers, Inv, ContextInv
<1>6. /\ SavedInv' /\ saved' \in [covers : SUBSET (1 .. MaxTurns), through : 0 .. MaxTurns]
      /\ saved'.covers \subseteq Prior /\ saved'.through < turns
  BY <1>2, <1>4, <1>5, SaveKeeps
<1>7. saved'.covers = PlanCovers(b) /\ saved'.through = b /\ Prior' = Prior
  BY <1>2 DEF Prior
<1>8. CASE Goto("replacePlan") /\ UNCHANGED <<turns, tokens, ctx, live, folded>>
  <2>1. TypeOK'
    BY <1>6, <1>8 DEF Inv, TypeOK, Goto, Steps
  <2>2. ContextInv'
    BY <1>2, <1>5, <1>6, <1>7, <1>8 DEF Inv, ContextInv, Goto
  <2> QED
    BY <1>6, <2>1, <2>2 DEF Inv
<1>9. CASE SaveAndDie(PlanCovers(b), b)
  <2>1. TypeOK'
    BY <1>6, <1>9 DEF Inv, TypeOK, SaveAndDie, NoContext, Goto, Steps, Levels
  <2> QED
    BY <1>6, <1>9, <2>1 DEF Inv, ContextInv, SaveAndDie, Goto
<1> QED
  BY <1>1, <1>8, <1>9

\* Saving a fold: all the task knows is covered, whatever the boundary is.
LEMMA SaveFoldKeeps ==
  ASSUME Inv, SaveFold
  PROVE  Inv'
<1>1. CASE UNCHANGED <<turns, saved, tokens, ctx, live, folded>> /\ Goto("loop") /\ pc = "saveFold"
  BY <1>1 DEF Inv, TypeOK, SavedInv, ContextInv, Prior, Goto, Steps
<1>2. CASE \E b \in ctx.history \cup {0} :
             \/ /\ saved' = [covers |-> FoldCovers, through |-> b]
                /\ Goto("replaceFold")
                /\ UNCHANGED <<turns, tokens, ctx, live, folded>>
             \/ SaveAndDie(FoldCovers, b)
  <2>1. PICK b \in ctx.history \cup {0} :
             \/ /\ saved' = [covers |-> FoldCovers, through |-> b]
                /\ Goto("replaceFold")
                /\ UNCHANGED <<turns, tokens, ctx, live, folded>>
             \/ SaveAndDie(FoldCovers, b)
    BY <1>2
  <2>2. pc = "saveFold" /\ turns' = turns /\ saved' = [covers |-> FoldCovers, through |-> b]
    BY <2>1 DEF SaveFold, SaveAndDie
  <2>3. \A k \in Prior : k \in FoldCovers
    BY <2>2 DEF FoldCovers, Inv, ContextInv
  <2>4. /\ SavedInv' /\ saved' \in [covers : SUBSET (1 .. MaxTurns), through : 0 .. MaxTurns]
        /\ saved'.covers \subseteq Prior /\ saved'.through < turns
    BY <2>2, <2>3, SaveKeeps DEF FoldCovers
  <2>5. Prior' = Prior
    BY <2>2 DEF Prior
  <2>6. CASE Goto("replaceFold") /\ UNCHANGED <<turns, tokens, ctx, live, folded>>
    <3>1. TypeOK'
      BY <2>4, <2>6 DEF Inv, TypeOK, Goto, Steps
    <3>2. ContextInv'
      BY <2>2, <2>4, <2>5, <2>6 DEF Inv, ContextInv, Goto
    <3> QED
      BY <2>4, <3>1, <3>2 DEF Inv
  <2>7. CASE SaveAndDie(FoldCovers, b)
    <3>1. TypeOK'
      BY <2>4, <2>7 DEF Inv, TypeOK, SaveAndDie, NoContext, Goto, Steps, Levels
    <3> QED
      BY <2>4, <2>7, <3>1 DEF Inv, ContextInv, SaveAndDie, Goto
  <2> QED
    BY <2>1, <2>6, <2>7
<1> QED
  BY <1>1, <1>2 DEF SaveFold

\* Applying a saved summary to the context.
LEMMA ReplaceKeeps ==
  ASSUME Inv, ReplacePlan \/ ReplaceFold
  PROVE  Inv'
<1> USE DEF Inv, TypeOK, SavedInv, ContextInv, Prior
<1>1. CASE ReplacePlan
  <2>1. /\ ctx'.summary = saved.covers /\ ctx'.history = {k \in ctx.history : k > saved.through}
        /\ pc = "replacePlan" /\ pc' = "loop" /\ UNCHANGED <<turns, saved, tokens, live, folded>>
    BY <1>1 DEF ReplacePlan, Goto
  <2>2. ctx' \in [summary : SUBSET (1 .. MaxTurns), history : SUBSET (1 .. MaxTurns)]
    BY <1>1 DEF ReplacePlan
  <2> QED
    BY <2>1, <2>2 DEF Steps
<1>2. CASE ReplaceFold
  <2>1. /\ ctx'.summary = ctx.summary \cup ctx.history /\ ctx'.history = {}
        /\ pc = "replaceFold" /\ pc' = "loop" /\ UNCHANGED <<turns, saved, tokens, live, folded>>
    BY <1>2 DEF ReplaceFold, FoldCovers, Goto
  <2>2. ctx' \in [summary : SUBSET (1 .. MaxTurns), history : SUBSET (1 .. MaxTurns)]
    BY <1>2 DEF ReplaceFold, FoldCovers
  <2> QED
    BY <2>1, <2>2 DEF Steps
<1> QED
  BY <1>1, <1>2

\* The other steps move the task and its token counts only.
LEMMA OtherKeeps ==
  ASSUME Inv, EndTask \/ Precheck \/ Summarize \/ Round \/ StartFold \/ SummarizeFold
  PROVE  Inv'
<1> USE DEF Inv, TypeOK, SavedInv, ContextInv, Prior, Goto, Steps, Levels
<1>1. CASE EndTask
  BY <1>1 DEF EndTask, NoContext
<1>2. CASE Precheck
  BY <1>2 DEF Precheck
<1>3. CASE Summarize
  BY <1>3 DEF Summarize
<1>4. CASE Round
  BY <1>4 DEF Round
<1>5. CASE StartFold
  BY <1>5 DEF StartFold
<1>6. CASE SummarizeFold
  BY <1>6 DEF SummarizeFold
<1> QED
  BY <1>1, <1>2, <1>3, <1>4, <1>5, <1>6

\* The inductive invariant holds of every reachable state.
LEMMA Invariance == Spec => []Inv
<1>1. Init => Inv
  <2> SUFFICES ASSUME Init PROVE Inv
    OBVIOUS
  <2>1. MaxTurns \in Nat /\ {} \in SUBSET (1 .. MaxTurns)
    BY CompactionAssumption
  <2>2. saved \in [covers : SUBSET (1 .. MaxTurns), through : 0 .. MaxTurns]
    BY <2>1 DEF Init
  <2>3. ctx \in [summary : SUBSET (1 .. MaxTurns), history : SUBSET (1 .. MaxTurns)]
    BY <2>1 DEF Init, NoContext
  <2>4. TypeOK
    BY <2>1, <2>2, <2>3 DEF Init, TypeOK, Levels, Steps
  <2>5. turns = 0 /\ saved.covers = {} /\ saved.through = 0 /\ pc = "idle"
    BY DEF Init
  <2>6. SavedInv
    BY <2>5 DEF SavedInv
  <2>7. ContextInv
    BY <2>5 DEF ContextInv
  <2> QED
    BY <2>4, <2>6, <2>7 DEF Inv
<1>2. Inv /\ [Next]_vars => Inv'
  <2> SUFFICES ASSUME Inv, [Next]_vars PROVE Inv'
    OBVIOUS
  <2>1. CASE UNCHANGED vars
    BY <2>1 DEF vars, Inv, TypeOK, SavedInv, ContextInv, Prior
  <2> QED
    BY <2>1, StartKeeps, SavePlanKeeps, SaveFoldKeeps, ReplaceKeeps, OtherKeeps DEF Next
<1> QED
  BY <1>1, <1>2, PTL DEF Spec

\* Every reachable state is well typed.
THEOREM TypeTheorem == Spec => []TypeOK
BY Invariance, PTL DEF Inv

\* No turn is forgotten, in storage or by a running task, however often and at
\* whatever boundary the session was compacted or a task was cut off.
THEOREM NothingForgottenTheorem == Spec => []NothingForgotten
<1>1. Inv => NothingForgotten
  BY DEF Inv, SavedInv, ContextInv, Prior, NothingForgotten
<1> QED
  BY <1>1, Invariance, PTL

\* The turn of a running task is neither summarised nor hidden.
THEOREM OwnTurnTheorem == Spec => []OwnTurnExpanded
<1>1. Inv => OwnTurnExpanded
  BY DEF Inv, TypeOK, ContextInv, Prior, OwnTurnExpanded
<1> QED
  BY <1>1, Invariance, PTL
=============================================================================
