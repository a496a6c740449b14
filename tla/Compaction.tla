----------------------------- MODULE Compaction -----------------------------
(***************************************************************************)
(* Context compaction of one session: what the summary in storage covers,   *)
(* what the context of the running task still holds, and the two places     *)
(* that fold turns into the summary: before a task's first round            *)
(* (app-kernel/src/compaction.rs) and once inside its loop                  *)
(* (agent-core/src/runner.rs).                                              *)
(*                                                                         *)
(* A turn is what one task persisted under its turn_sequence.  A session    *)
(* runs one task at a time (SessionKernel!OneTaskPerSession).  A summary is *)
(* taken to tell what its transcript contained.                             *)
(***************************************************************************)
EXTENDS Integers, FiniteSets

CONSTANTS
  MaxTurns,     \* bound: turns of the session
  KeepRecent,   \* KEEP_RECENT_ROUNDS (3, compaction.rs:18)
  MayFail       \* may model and storage calls fail?

ASSUME CompactionAssumption ==
  MaxTurns \in Nat /\ KeepRecent \in Nat /\ MayFail \in BOOLEAN

VARIABLES
  turns,        \* turns in storage, the running task's own included
  saved,        \* newest session_context_state: turns covered, and boundary
  tokens,       \* sessions.last_input_tokens, as a level
  pc,           \* where the task is
  ctx,          \* its context: turns summarised and turns still expanded
  live,         \* latest_input_tokens, as a level
  folded        \* in_loop_compacted

vars == <<turns, saved, tokens, pc, ctx, live, folded>>

-----------------------------------------------------------------------------
\* Input tokens against the window: below both triggers, at the trigger for
\* the next task (70 %), and at the one for the running loop (95 %).
Levels == {"low", "high", "full"}
Hot(level) == level \in {"high", "full"}

Steps == {"idle", "precheck", "plan", "savePlan", "replacePlan", "loop",
          "fold", "saveFold", "replaceFold"}

NoContext == [summary |-> {}, history |-> {}]

Smaller(a, b) == IF a < b THEN a ELSE b

\* sorted_turns[len.saturating_sub(keep_recent + 1)], by its place in the order.
IsBoundary(H, b) ==
  LET index == IF Cardinality(H) > KeepRecent + 1 THEN Cardinality(H) - (KeepRecent + 1) ELSE 0
  IN b \in H /\ Cardinality({k \in H : k < b}) = index

\* The highest turn of the history, or 0.
IsPriorMax(H, b) == IF H = {} THEN b = 0 ELSE b \in H /\ \A k \in H : k <= b

Goto(p) == pc' = p

-----------------------------------------------------------------------------
(* Starting a task: its prompt opens a turn, which its context excludes.    *)

\* Mutant: the context is read up to the task's own turn, inclusively.
StartTaskInclusive ==
  /\ pc = "idle" /\ turns < MaxTurns
  /\ turns' = turns + 1
  /\ ctx' = [summary |-> saved.covers, history |-> {k \in 1 .. turns' : k > saved.through}]
  /\ live' = "low" /\ folded' = FALSE
  /\ Goto("precheck")
  /\ UNCHANGED <<saved, tokens>>

\* get_session_context_state, then the rows after the boundary and before the
\* task's own turn.
StartTask ==
  /\ pc = "idle" /\ turns < MaxTurns
  /\ turns' = turns + 1
  /\ ctx' = [summary |-> saved.covers, history |-> {k \in 1 .. turns : k > saved.through}]
  /\ live' = "low" /\ folded' = FALSE
  /\ Goto("precheck")
  /\ UNCHANGED <<saved, tokens>>

\* The prompt may be stored although its start fails.
StartFails ==
  /\ MayFail
  /\ pc = "idle" /\ turns < MaxTurns
  /\ turns' = turns + 1
  /\ UNCHANGED <<saved, tokens, pc, ctx, live, folded>>

\* The task finishes, fails, is canceled or dies with the process, at any await.
EndTask ==
  /\ pc \notin {"idle", "replacePlan", "replaceFold"}
  /\ Goto("idle") /\ ctx' = NoContext /\ live' = "low" /\ folded' = FALSE
  /\ UNCHANGED <<turns, saved, tokens>>

\* A storage call whose task is dropped may have taken effect.
SaveAndDie(covers, through) ==
  /\ saved' = [covers |-> covers, through |-> through]
  /\ Goto("idle") /\ ctx' = NoContext /\ live' = "low" /\ folded' = FALSE
  /\ UNCHANGED <<turns, tokens>>

-----------------------------------------------------------------------------
(* Compaction before the first round.                                      *)

\* A precheck that cannot read the model's window goes on without compaction.
Precheck ==
  /\ pc = "precheck"
  /\ \/ Goto(IF Hot(tokens) THEN "plan" ELSE "loop")
     \/ MayFail /\ Goto("loop")
  /\ UNCHANGED <<turns, saved, tokens, ctx, live, folded>>

\* Without expanded turns there is no plan; the model may answer nothing.  A
\* failing model fails the task (EndTask).
Summarize ==
  /\ pc = "plan"
  /\ \/ ctx.history # {} /\ Goto("savePlan")
     \/ Goto("loop")
  /\ UNCHANGED <<turns, saved, tokens, ctx, live, folded>>

\* Mutant: the boundary turn is left out of the transcript.
PlanCoversBelow(b) == ctx.summary \cup {k \in ctx.history : k < b}

PlanCovers(b) == ctx.summary \cup {k \in ctx.history : k <= b}

SavePlan ==
  /\ pc = "savePlan"
  /\ \E b \in ctx.history :
       /\ IsBoundary(ctx.history, b)
       /\ \/ /\ saved' = [covers |-> PlanCovers(b), through |-> b]
             /\ Goto("replacePlan")
             /\ UNCHANGED <<turns, tokens, ctx, live, folded>>
          \/ SaveAndDie(PlanCovers(b), b)

\* replace_compacted_context.
ReplacePlan ==
  /\ pc = "replacePlan"
  /\ ctx' = [summary |-> saved.covers, history |-> {k \in ctx.history : k > saved.through}]
  /\ Goto("loop")
  /\ UNCHANGED <<turns, saved, tokens, live, folded>>

-----------------------------------------------------------------------------
(* The loop, and the compaction inside it.                                 *)

\* A round may report its usage; the bridge stores it, if storage works.
Round ==
  /\ pc = "loop"
  /\ \E level \in Levels :
       /\ live' = level
       /\ tokens' = level \/ (MayFail /\ tokens' = tokens)
  /\ UNCHANGED <<turns, saved, pc, ctx, folded>>

StartFold ==
  /\ pc = "loop" /\ live = "full" /\ ~folded
  /\ Goto("fold") /\ folded' = TRUE
  /\ UNCHANGED <<turns, saved, tokens, ctx, live>>

\* An empty transcript, an empty answer and every error end the fold without
\* a summary, and the loop goes on.
SummarizeFold ==
  /\ pc = "fold"
  /\ \/ ctx # NoContext /\ Goto("saveFold")
     \/ Goto("loop")
  /\ UNCHANGED <<turns, saved, tokens, ctx, live, folded>>

FoldCovers == ctx.summary \cup ctx.history

\* Everything compactable is folded; the boundary is the highest expanded turn.
SaveFold ==
  /\ pc = "saveFold"
  /\ \/ \E b \in ctx.history \cup {0} :
          /\ IsPriorMax(ctx.history, b)
          /\ \/ /\ saved' = [covers |-> FoldCovers, through |-> b]
                /\ Goto("replaceFold")
                /\ UNCHANGED <<turns, tokens, ctx, live, folded>>
             \/ SaveAndDie(FoldCovers, b)
     \/ MayFail /\ Goto("loop") /\ UNCHANGED <<turns, saved, tokens, ctx, live, folded>>

\* replace_compactable_with_summary.
ReplaceFold ==
  /\ pc = "replaceFold"
  /\ ctx' = [summary |-> FoldCovers, history |-> {}]
  /\ Goto("loop")
  /\ UNCHANGED <<turns, saved, tokens, live, folded>>

-----------------------------------------------------------------------------
Init ==
  /\ turns = 0
  /\ saved = [covers |-> {}, through |-> 0]
  /\ tokens = "low"
  /\ pc = "idle"
  /\ ctx = NoContext
  /\ live = "low"
  /\ folded = FALSE

Next ==
  \/ StartTask \/ StartFails \/ EndTask
  \/ Precheck \/ Summarize \/ SavePlan \/ ReplacePlan
  \/ Round \/ StartFold \/ SummarizeFold \/ SaveFold \/ ReplaceFold

Spec == Init /\ [][Next]_vars

-----------------------------------------------------------------------------
(* Properties.                                                             *)

\* Every variable keeps its type (context.rs:35-48, models.rs:123-134).
TypeOK ==
  /\ turns \in 0 .. MaxTurns
  /\ saved \in [covers : SUBSET (1 .. MaxTurns), through : 0 .. MaxTurns]
  /\ tokens \in Levels /\ live \in Levels
  /\ pc \in Steps
  /\ ctx \in [summary : SUBSET (1 .. MaxTurns), history : SUBSET (1 .. MaxTurns)]
  /\ folded \in BOOLEAN

\* No turn is forgotten: each is told by the saved summary or behind its
\* boundary, and a running task knows all turns before its own, although the
\* summary is saved before the context is replaced and either may be cut off
\* (compaction.rs:212-237, runner.rs:344-366, session_service.rs:462-592).
NothingForgotten ==
  /\ \A k \in 1 .. turns : k \in saved.covers \/ k > saved.through
  /\ pc # "idle" => \A k \in 1 .. turns - 1 : k \in ctx.summary \cup ctx.history

\* A task's own turn is never part of a summary nor behind its boundary: its
\* rounds are still being stored (runner.rs:344-345).
OwnTurnExpanded ==
  pc # "idle" => turns \notin saved.covers \cup ctx.summary /\ saved.through < turns

\* What storage documents of the boundary (models.rs:129-130): it is the
\* highest turn folded into the summary.  The code does not keep it: the
\* boundary of an empty history is 0 (runner.rs:351).
BoundaryIsHighestFolded ==
  saved.covers # {} => \A k \in saved.covers : k <= saved.through
=============================================================================
