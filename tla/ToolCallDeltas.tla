--------------------------- MODULE ToolCallDeltas ---------------------------
(***************************************************************************)
(* The tool calls of one model round: how they are put together from what  *)
(* is streamed (agent-core: runner.rs, ToolCallAccumulator), how they are  *)
(* run and put down, and how the next task reads them back from storage    *)
(* (app-kernel: context.rs, PersistedToolCallAccumulator).                 *)
(*                                                                         *)
(* A streamed call has an index; its identifier comes with its first       *)
(* delta, the pieces of its name and arguments in order, the deltas of     *)
(* several calls in any interleaving.  Texts are sequences of pieces, an   *)
(* identifier is a number, whose order is that of the identifiers' text.   *)
(***************************************************************************)
EXTENDS Naturals, Sequences, FiniteSets, SequencesExt, FiniteSetsExt, Functions

CONSTANTS
    MaxCalls,      \* bound on the calls of a round
    MaxAttempts,   \* bound on the attempts: 1 + model_max_retries
    MaxReasons     \* bound on the chunks with a finish reason of an attempt

VARIABLES
    plan,       \* what the provider is about to stream, by index
    sent,       \* the deltas of each index it has streamed
    attempt,
    reasons,    \* the finish reasons streamed in this attempt
    partials,   \* ToolCallAccumulator
    results,    \* tool_results: the calls that were run
    phase,      \* of the round
    live,       \* tool_calls in the running task's context
    rows        \* tool_calls of the stored assistant row

vars == <<plan, sent, attempt, reasons, partials, results, phase, live, rows>>

-----------------------------------------------------------------------------
(* What a provider streams.  A delta may have any of an identifier, and    *)
(* pieces of name and arguments.                                           *)
Delta(id, name, arguments) == [id |-> id, name |-> name, arguments |-> arguments]

NoText == <<>>

(* A call as it is streamed at once, in several deltas, without arguments, *)
(* and with its name cut.                                                  *)
WellFormed(id) ==
    { <<Delta(<<id>>, <<"n">>, <<"a1">>)>>,
      <<Delta(<<id>>, <<"n">>, NoText), Delta(NoText, NoText, <<"a1">>), Delta(NoText, NoText, <<"a2">>)>>,
      <<Delta(<<id>>, <<"n">>, NoText)>>,
      <<Delta(<<id>>, <<"n1">>, NoText), Delta(NoText, <<"n2">>, <<"a1">>)>> }

(* Calls of which something is missing.                                    *)
Malformed(id) ==
    { <<Delta(NoText, <<"n">>, <<"a1">>)>>, <<Delta(<<id>>, NoText, <<"a1">>)>> }

Plans == UNION {
    {p \in [1..n -> UNION {WellFormed(id) \cup Malformed(id) : id \in 1..n}] :
        \E order \in [1..n -> 1..n] :
            /\ IsInjective(order)
            /\ \A i \in 1..n : p[i] \in WellFormed(order[i]) \cup Malformed(order[i])} : n \in 1..MaxCalls}

Indices == DOMAIN plan

(* What the deltas of a call say together.                                 *)
Text(deltas) ==
    Delta(FlattenSeq([k \in DOMAIN deltas |-> deltas[k].id]),
          FlattenSeq([k \in DOMAIN deltas |-> deltas[k].name]),
          FlattenSeq([k \in DOMAIN deltas |-> deltas[k].arguments]))

-----------------------------------------------------------------------------
(* The accumulator of the stream.                                          *)

NoPartials == <<>>   \* the function without arguments

NewPartial == Delta(NoText, NoText, NoText)

\* Mutant: a later piece of the name replaces the ones before.
ApplyChoiceDeltaNamed(i, delta) ==
    LET partial == IF i \in DOMAIN partials THEN partials[i] ELSE NewPartial IN
    [j \in DOMAIN partials \cup {i} |->
        IF j = i THEN Delta(partial.id \o delta.id,
                            IF delta.name = NoText THEN partial.name ELSE delta.name,
                            partial.arguments \o delta.arguments)
        ELSE partials[j]]

(* apply_choice_delta                                                      *)
ApplyChoiceDelta(i, delta) ==
    LET partial == IF i \in DOMAIN partials THEN partials[i] ELSE NewPartial IN
    [j \in DOMAIN partials \cup {i} |->
        IF j = i THEN Delta(partial.id \o delta.id, partial.name \o delta.name,
                            partial.arguments \o delta.arguments)
        ELSE partials[j]]

(* The JSON value of a text of arguments: the empty object for no text.    *)
ArgumentsValue(text) == IF text = NoText THEN <<"{}">> ELSE text

Call(partial) == [id |-> Head(partial.id), name |-> partial.name,
                  arguments |-> ArgumentsValue(partial.arguments)]

IsCall(partial) == partial.id # NoText /\ partial.name # NoText

(* take_completed: the calls in the order of their indices.                *)
InOrder(S) ==
    [k \in 1..Cardinality(S) |-> CHOOSE i \in S : Cardinality({j \in S : j < i}) = k - 1]

Completed == [k \in 1..Cardinality(DOMAIN partials) |-> Call(partials[InOrder(DOMAIN partials)[k]])]

-----------------------------------------------------------------------------
Init ==
    /\ plan \in Plans
    /\ sent = [i \in Indices |-> 0] /\ reasons = 0
    /\ partials = NoPartials /\ results = <<>>
    /\ attempt = 1
    /\ phase = "streaming"
    /\ live = <<>> /\ rows = <<>>

AllSent == \A i \in Indices : sent[i] = Len(plan[i])

(* A chunk with a delta of one call.                                       *)
ChunkDelta(i) ==
    /\ phase = "streaming" /\ reasons = 0
    /\ sent[i] < Len(plan[i])
    /\ sent' = [sent EXCEPT ![i] = @ + 1]
    /\ partials' = ApplyChoiceDelta(i, plan[i][sent[i] + 1])
    /\ UNCHANGED <<plan, attempt, reasons, results, phase, live, rows>>

(* The chunk with finish_reason tool_calls: the calls are completed and    *)
(* run.  A provider may send the reason again, with its usage for example. *)

ChunkReason ==
    /\ phase = "streaming" /\ AllSent /\ reasons < MaxReasons
    /\ reasons' = reasons + 1
    /\ partials' = NoPartials
    /\ IF \A i \in DOMAIN partials : IsCall(partials[i])
       THEN results' = results \o Completed /\ UNCHANGED phase
       ELSE phase' = "failed" /\ UNCHANGED results
    /\ UNCHANGED <<plan, sent, attempt, live, rows>>

(* The stream breaks; the attempt starts over, and the model need not      *)
(* answer what it answered before.                                         *)

ChunkError ==
    /\ phase = "streaming"
    /\ IF attempt < MaxAttempts
       THEN /\ attempt' = attempt + 1
            /\ plan' \in Plans
            /\ sent' = [i \in DOMAIN plan' |-> 0] /\ reasons' = 0
            /\ partials' = NoPartials /\ results' = <<>>
            /\ UNCHANGED phase
       ELSE /\ phase' = "failed"
            /\ UNCHANGED <<plan, sent, attempt, reasons, partials, results>>
    /\ UNCHANGED <<live, rows>>

(* Finished: build_model_round_messages, for the running task and, by way  *)
(* of ModelRoundFinished, for storage.  It takes the calls that were run,  *)
(* whatever reason the provider gave; calls it streamed without the reason *)
(* tool_calls, cut off by a limit for example, go with the accumulator.    *)
ChunkFinished ==
    /\ phase = "streaming"
    /\ phase' = "finished"
    /\ live' = results /\ rows' = results
    /\ UNCHANGED <<plan, sent, attempt, reasons, partials, results>>

(* The stream is over without that chunk: the round goes on unannounced,   *)
(* so that nothing of it is stored.                                        *)
StreamOver ==
    /\ phase = "streaming"
    /\ phase' = "unannounced"
    /\ live' = results
    /\ UNCHANGED <<plan, sent, attempt, reasons, partials, results, rows>>

Next ==
    \/ \E i \in Indices : ChunkDelta(i)
    \/ ChunkReason \/ ChunkError \/ ChunkFinished \/ StreamOver

Spec == Init /\ [][Next]_vars

-----------------------------------------------------------------------------
(* The accumulator of the stored calls: by identifier, names replaced,     *)
(* arguments appended, in the order of the identifiers.                    *)

\* Mutant: the calls of a row are told apart by their names.
PersistedPartialNamed(calls, id) ==
    LET name == calls[CHOOSE k \in DOMAIN calls : calls[k].id = id].name
        own == SelectSeq(calls, LAMBDA c : c.name = name) IN
    [id |-> id, name |-> Last(own).name,
     arguments |-> FlattenSeq([k \in DOMAIN own |-> own[k].arguments])]

(* What was stored of one identifier.                                      *)
Own(calls, id) ==
    FlattenSeq([k \in DOMAIN calls |-> IF calls[k].id = id THEN <<calls[k]>> ELSE <<>>])

PersistedPartial(calls, id) == LET own == Own(calls, id) IN
    [id |-> id, name |-> Last(own).name,
     arguments |-> FlattenSeq([k \in DOMAIN own |-> own[k].arguments])]

PersistedCompleted(calls) == LET ids == InOrder({calls[k].id : k \in DOMAIN calls}) IN
    [k \in DOMAIN ids |-> PersistedPartial(calls, ids[k])]

-----------------------------------------------------------------------------
(* Properties.                                                             *)

TypeOK ==
    /\ attempt \in 1..MaxAttempts /\ reasons \in 0..MaxReasons
    /\ phase \in {"streaming", "finished", "unannounced", "failed"}
    /\ DOMAIN partials \subseteq Indices
    /\ \A i \in DOMAIN partials : Len(partials[i].id) <= 1
    /\ Len(results) <= MaxCalls

(* What the provider of this attempt asks for.                             *)
Asked == [i \in Indices |-> Call(Text(plan[i]))]

(* Nothing but what the model of this attempt asked for is run, whole, in  *)
(* the order of the indices, and never twice; a round with a call that has *)
(* no identifier or no name runs nothing (ToolCallAccumulator).            *)
RunsWhatWasAsked ==
    results # <<>> =>
        /\ \A i \in Indices : IsCall(Text(plan[i]))
        /\ results = Asked

(* A round that is over has run every call asked for, and none is left     *)
(* half put together, if the provider gave the reason tool_calls; without  *)
(* it none was run (take_completed).                                       *)
NoCallLost == phase \in {"finished", "unannounced"} =>
    IF reasons > 0 THEN Len(results) = Len(plan) /\ partials = NoPartials
                   ELSE results = <<>>

(* However the deltas of several calls and several attempts interleave, a  *)
(* round runs the calls that were asked for, all of them or, without the   *)
(* reason tool_calls, none, and nothing else (ToolCallAccumulator).        *)
CallsAreRun == RunsWhatWasAsked /\ NoCallLost

(* The next task's context has the calls the running task's context has,   *)
(* name and arguments included; their order is that of the identifiers     *)
(* there (PersistedToolCallAccumulator).                                   *)
ReadBackTheSame == phase = "finished" =>
    /\ Range(PersistedCompleted(rows)) = Range(live)
    /\ Len(PersistedCompleted(rows)) = Len(live)
=============================================================================
