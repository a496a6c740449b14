-------------------------- MODULE ContextAssembly ---------------------------
(***************************************************************************)
(* How the stored rows of one turn become messages for the model            *)
(* (app-kernel/src/context.rs): consecutive assistant rows are merged, and  *)
(* tool calls without all their results are dropped, because a provider     *)
(* refuses them.  The rows are what the bridge writes for the rounds of a   *)
(* task (SessionKernel), any of which it may fail to write.                 *)
(*                                                                         *)
(* A message's text is the rows it came from, and so are the arguments of   *)
(* each of its calls.  Reasoning is told along with the text, and alone     *)
(* only in a turn that uses tools.                                          *)
(***************************************************************************)
EXTENDS Naturals, Sequences, FiniteSets, SequencesExt

CONSTANTS
  Ids,          \* tool call ids; a model may use one again in a later round
  MaxRows,      \* bound: rows of the turn
  MayFail       \* may the bridge fail to write a row?

ASSUME ContextAssemblyAssumption ==
  IsFiniteSet(Ids) /\ MaxRows \in Nat /\ MayFail \in BOOLEAN

VARIABLES
  rows,         \* the session_messages of the turn
  todo,         \* tool results of the round that are still to be written
  lost,         \* has a row of the turn been lost?
  whole         \* rows of the turn before any loss, in completely written rounds

vars == <<rows, todo, lost, whole>>

-----------------------------------------------------------------------------
(* Rows and messages.                                                      *)

NoId == "none"
NoCalls == <<>>   \* the function without arguments

Message(role, calls, id, from) == [role |-> role, calls |-> calls, id |-> id, from |-> from]

\* `text` is FALSE for the row of an answer that is reasoning only.
Row(role, calls, id, text) == [role |-> role, calls |-> calls, id |-> id, text |-> text]

Prompt == Row("user", {}, NoId, TRUE)
AssistantRow(calls, text) == Row("assistant", calls, NoId, text)
ToolRow(id) == Row("tool", {}, id, TRUE)

\* record_has_tool_activity, of any row of the turn.
UsesTools(records) ==
  \E k \in DOMAIN records : records[k].role = "tool" \/ records[k].calls # {}

\* PendingAssistantContext: the assistant rows since the last other row.
NoPending == [calls |-> NoCalls, from |-> {}]

\* PersistedToolCallAccumulator: arguments of one identifier are concatenated.
ApplyCalls(calls, row, k) ==
  [id \in DOMAIN calls \cup row.calls |->
     IF id \notin row.calls THEN calls[id]
     ELSE IF id \in DOMAIN calls THEN Append(calls[id], k) ELSE <<k>>]

ApplyRecord(pending, row, k, reasoning) ==
  [calls |-> ApplyCalls(pending.calls, row, k),
   from  |-> IF row.text \/ reasoning THEN pending.from \cup {k} ELSE pending.from]

Flush(messages, pending) ==
  IF pending = NoPending THEN messages
  ELSE Append(messages, Message("assistant", pending.calls, NoId, pending.from))

\* One record of push_turn_records_as_context_messages: an assistant row waits
\* for what follows it.
Merge(records, reasoning, acc, k) ==
  LET row == records[k]
  IN IF row.role = "assistant"
       THEN [acc EXCEPT !.pending = ApplyRecord(@, row, k, reasoning)]
       ELSE [messages |-> Append(Flush(acc.messages, acc.pending),
                                 Message(row.role, NoCalls, row.id, {k})),
             pending |-> NoPending]

\* push_turn_records_as_context_messages, up to the validation.
MergedMessages(records) ==
  LET reasoning == UsesTools(records)
      end == FoldLeft(LAMBDA acc, k : Merge(records, reasoning, acc, k),
                      [messages |-> <<>>, pending |-> NoPending],
                      [k \in DOMAIN records |-> k])
  IN Flush(end.messages, end.pending)

\* Mutant: answers are looked for in all messages behind place k.
FollowingIdsAll(messages, k) ==
  {messages[j].id : j \in {i \in k + 1 .. Len(messages) : messages[i].role = "tool"}}

\* Mutant: the tool message directly behind place k is skipped.
FollowingIdsBelow(messages, k) ==
  {messages[j].id : j \in {i \in k + 2 .. Len(messages) :
                             \A m \in k + 1 .. i : messages[m].role = "tool"}}

\* The ids of the tool messages directly behind place k.
FollowingIds(messages, k) ==
  {messages[j].id : j \in {i \in k + 1 .. Len(messages) :
                             \A m \in k + 1 .. i : messages[m].role = "tool"}}

\* One message of append_valid_tool_context_messages.
Validate(messages, acc, k) ==
  LET message == messages[k]
      kept == Append(acc.out, message)
  IN IF message.role = "assistant" /\ message.calls # NoCalls
       THEN IF DOMAIN message.calls \subseteq FollowingIds(messages, k)
              THEN [out |-> kept, allowed |-> DOMAIN message.calls]
              ELSE [acc EXCEPT !.allowed = {}]
     ELSE IF message.role = "tool"
       THEN IF message.id \in acc.allowed
              THEN [out |-> kept, allowed |-> acc.allowed \ {message.id}]
              ELSE acc
     ELSE [out |-> kept, allowed |-> {}]

\* append_valid_tool_context_messages.
ValidMessages(messages) ==
  FoldLeft(LAMBDA acc, k : Validate(messages, acc, k), [out |-> <<>>, allowed |-> {}],
           [k \in DOMAIN messages |-> k]).out

Assembled == ValidMessages(MergedMessages(rows))

-----------------------------------------------------------------------------
(* The rows of a turn, as append_user_prompt and persist_model_round_messages *)
(* write them.                                                              *)

Init == rows = <<Prompt>> /\ todo = <<>> /\ lost = FALSE /\ whole = 1

\* A round without tool results is the last one (runner.rs:277).
Ended == Last(rows).role = "assistant" /\ Last(rows).calls = {}

\* With `row` the rows are whole if nothing is missing behind it.
Write(row, rest) ==
  /\ Len(rows) < MaxRows
  /\ rows' = Append(rows, row)
  /\ todo' = rest
  /\ whole' = IF ~lost /\ rest = <<>> THEN Len(rows) + 1 ELSE whole
  /\ UNCHANGED lost

WriteAssistant(calls) ==
  /\ todo = <<>> /\ ~Ended
  /\ \E order \in SetToSeqs(calls), text \in BOOLEAN :
       /\ text \/ calls = {}
       /\ Write(AssistantRow(calls, text), order)

WriteTool == todo # <<>> /\ Write(ToolRow(Head(todo)), Tail(todo))

\* The first row that cannot be written ends the round's writing; the round
\* may be left without any row (also if its end was never announced).
LoseRest ==
  /\ MayFail /\ ~Ended
  /\ lost' = TRUE /\ todo' = <<>>
  /\ UNCHANGED <<rows, whole>>

Next == WriteTool \/ LoseRest \/ \E calls \in SUBSET Ids : WriteAssistant(calls)

Spec == Init /\ [][Next]_vars

-----------------------------------------------------------------------------
(* Properties.                                                             *)

\* Every variable keeps its type (models.rs:99-120).
TypeOK ==
  /\ rows \in Seq([role : {"user", "assistant", "tool"}, calls : SUBSET Ids,
                  id : Ids \cup {NoId}, text : BOOLEAN])
  /\ todo \in Seq(Ids)
  /\ lost \in BOOLEAN /\ whole \in 1 .. MaxRows

\* What a provider accepts: directly behind an assistant message with tool
\* calls each of its calls is answered once, and nothing else is an answer.
Answers(messages, k) ==
  {j \in k + 1 .. Len(messages) : \A m \in k + 1 .. j : messages[m].role = "tool"}

\* Whatever rows got lost, the assembled turn is one a provider accepts
\* (context.rs:269-328).
AcceptedByProvider ==
  LET a == Assembled
  IN \A k \in DOMAIN a :
       /\ a[k].role # "tool" =>
            /\ {a[j].id : j \in Answers(a, k)} = DOMAIN a[k].calls
            /\ \A i, j \in Answers(a, k) : a[i].id = a[j].id => i = j
       /\ a[k].role = "tool" => k > 1 /\ a[k - 1].role # "user"

\* Rounds written completely before any loss reach the model as they were, one
\* message per row; only an answer of nothing but reasoning to a prompt that
\* used no tools is left out (context.rs:175-211, session_service.rs:97-163).
WholeRoundsKept ==
  LET a == Assembled
  IN \A k \in 1 .. whole :
       \/ k \in DOMAIN a /\ a[k] = Message(rows[k].role, [id \in rows[k].calls |-> <<k>>], rows[k].id, {k})
       \/ k = 2 /\ rows[k].role = "assistant" /\ ~rows[k].text /\ Len(a) = 1

\* Messages come in the order of their rows and no row is told twice; the
\* prompt is always told first (context.rs:189-210).
InOrderOnce ==
  LET a == Assembled
  IN /\ a # <<>> /\ a[1].from = {1}
     /\ \A i, j \in DOMAIN a : i < j => \A x \in a[i].from, y \in a[j].from : x < y

\* Row k and the rows behind it are a round with all its results.
Complete(k) ==
  /\ rows[k].role = "assistant"
  /\ rows[k].calls \subseteq {rows[j].id : j \in Answers(rows, k)}

\* What the loss of rows costs does not spread: a complete round is told, unless
\* the row in front of it is that of a round which lost all of its results
\* (context.rs:203).
LossStaysLocal ==
  \A k \in DOMAIN rows :
    Complete(k) /\ rows[k].text /\ rows[k - 1].role # "assistant" =>
      \E j \in DOMAIN Assembled : Assembled[j].from = {k}

\* A call is told with the arguments of the round that its results answer, and
\* with no others, unless a round in front of that one used its identifier,
\* too, and lost its results (context.rs:361-451).
ArgumentsAreOwn ==
  LET a == Assembled
  IN \A k \in DOMAIN a : \A id \in DOMAIN a[k].calls :
       LET told == a[k].calls[id]
       IN /\ Complete(Last(told)) /\ id \in rows[Last(told)].calls
          /\ \A i \in DOMAIN told : i < Len(told) => Answers(rows, told[i]) = {}

\* Whatever is lost of a turn's rounds, the model is told its prompt, the rounds
\* stored before the loss as they were, the complete ones behind it unless they
\* merge with a lost one, every call with its own arguments, and nothing twice
\* or out of order (context.rs:175-211).
TurnIsTold == WholeRoundsKept /\ InOrderOnce /\ LossStaysLocal /\ ArgumentsAreOwn

\* A call is told with the arguments of one stored call.  The code does not keep
\* it where a provider uses an identifier again: the arguments of a call whose
\* result was lost are put in front of those of the next one (context.rs:415).
ArgumentsAreOne ==
  \A k \in DOMAIN Assembled : \A id \in DOMAIN Assembled[k].calls :
    Len(Assembled[k].calls[id]) = 1

=============================================================================
