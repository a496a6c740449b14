------------------------------ MODULE MCRound ------------------------------
(* Instances of what is made of a model round: of ToolCallDeltas, which    *)
(* puts its calls together and stores them, of ContextAssembly, which      *)
(* makes messages of the stored rows of a turn, and of AnswerBlocks, which *)
(* shows the turn while it runs and again from its rows.  A behaviour      *)
(* belongs to one scene from its first state to its last.                  *)
EXTENDS ContextAssembly, TLC

CONSTANTS MaxCalls, MaxAttempts, MaxReasons, Args, MaxTexts, MaxRounds, MaxRetries

\* An identifier is neither a piece of an answer's text nor what stands for none.
ASSUME MCRoundAssumption ==
  /\ MaxCalls \in Nat
  /\ \A id \in Ids : id # "none" /\ id \notin Nat \X Nat \X Nat

VARIABLES scene, plan, sent, attempt, reasons, partials, results, phase, live, calls,
          blocks, answerRows, others, round, retries, deltas, run, step, gone, lostRows

callVars == <<plan, sent, attempt, reasons, partials, results, phase, live, calls>>

answerVars == <<blocks, answerRows, others, round, retries, deltas, run, step, gone, lostRows>>

Calls == INSTANCE ToolCallDeltas WITH rows <- calls
Answer == INSTANCE AnswerBlocks WITH
    rows <- answerRows, calls <- run, phase <- step, lost <- lostRows

MCInit ==
  /\ Init /\ Calls!Init /\ Answer!Init
  /\ scene \in {"stream", "storage", "window"}
  /\ scene # "stream" => plan = CHOOSE p \in Calls!Plans : TRUE
  /\ scene # "window" => others = <<>>

MCNext ==
  /\ UNCHANGED scene
  /\ \/ scene = "stream" /\ Calls!Next /\ UNCHANGED <<vars, answerVars>>
     \/ scene = "storage" /\ Next /\ UNCHANGED <<callVars, answerVars>>
     \/ scene = "window" /\ Answer!Next /\ UNCHANGED <<vars, callVars>>

MCSpec == MCInit /\ [][MCNext]_<<vars, callVars, answerVars, scene>>

\* Identifiers are only compared with each other.
Symmetry == Permutations(Ids)

\* However the deltas of several calls and several attempts interleave, a
\* round runs the calls that were asked for, all of them or, without the reason
\* tool_calls, none, and nothing else (runner.rs, ToolCallAccumulator).
CallsAreRun == Calls!CallsAreRun

\* The next task's context has the calls the running task's context has, name
\* and arguments included (context.rs, PersistedToolCallAccumulator).
ReadBackTheSame == Calls!ReadBackTheSame

\* An answer that is opened again begins with the rounds a retry has taken off the
\* live one and goes on with what that shows, up to the last round that was
\* finished; a call with an identifier of those rounds stands where it stood there,
\* as the later call; if rows were lost, what is left stands in the order it stood
\* in (tool_call_display.rs:1, mapMessageRecords).
ShownAgain == Answer!ShownAgain

\* A call that failed is shown as failed when the answer is opened again.  The
\* code does not keep it (messages.js:57).
StatusShownAgain == Answer!StatusShownAgain
=============================================================================
