---------------------------- MODULE AnswerBlocks ----------------------------
(***************************************************************************)
(* The blocks of one answer, made twice: live, from the events of its task *)
(* (App.jsx, messages.js), and again from the stored rows of its turn, when *)
(* the session is opened later (tool_call_display.rs, mapMessageRecords).   *)
(*                                                                         *)
(* A piece of text is named by its round, attempt and place.  The value of *)
(* a call's arguments is a member of Args; its text is a sequence of values,*)
(* because texts are concatenated, and is JSON again if there is just one.  *)
(* Within an attempt the text comes before the calls.                       *)
(***************************************************************************)
EXTENDS Naturals, Sequences, FiniteSets, SequencesExt, Functions

CONSTANTS
    Ids,          \* identifiers of calls; a later round may use one again
    Args,         \* values of a call's arguments
    MaxTexts,     \* bound on the deltas of an attempt
    MaxCalls,     \* bound on the calls of a turn
    MaxRounds, MaxRetries,
    MayFail       \* may the bridge fail to write a row?

VARIABLES
    blocks,       \* of the live answer
    rows,         \* session_messages of the turn
    others,       \* calls stored by other turns of the same page
    round, retries,
    deltas,       \* of this attempt: [reasoning, content], each a sequence
    calls,        \* of this attempt, with their results
    phase,        \* "streaming", "calling", "ended"
    gone,         \* rounds that had finished when a retry emptied the answer
    lost          \* rows that could not be written

vars == <<blocks, rows, others, round, retries, deltas, calls, phase, gone, lost>>

-----------------------------------------------------------------------------
(* Calls, what is displayed of them, and rows.                             *)

Call(id, name, args) == [id |-> id, name |-> name, args |-> <<args>>]
SomeArgs == CHOOSE a \in Args : TRUE

(* Commands, and calls of a tool that has nothing to display.              *)
CallsWith(id) == {Call(id, "run_command", a) : a \in Args} \cup {Call(id, "other", SomeArgs)}

None == "none"

(* What a filter leaves of a sequence: the elements that are in S.          *)
Only(s, S) == FlattenSeq([k \in DOMAIN s |-> IF s[k] \in S THEN <<s[k]>> ELSE <<>>])

(* tool_call_display: only commands have something to display.             *)
Display(name, args) ==
    IF name = "run_command" /\ Len(args) = 1 THEN args[1] ELSE None

(* persisted_tool_call_displays: by identifier, over the whole page.       *)
PageDisplay(page, id) ==
    LET own == Only(page, {c \in Range(page) : c.id = id}) IN
    IF own = <<>> THEN None
    ELSE Display(Last(own).name, FlattenSeq([k \in DOMAIN own |-> own[k].args]))

\* Mutant: a call is displayed as the page has it, or not at all.
AttachDisplayOfPage(page, call) == PageDisplay(page, call.id)

(* attach_tool_call_display                                                *)
AttachDisplay(page, call) ==
    IF PageDisplay(page, call.id) # None THEN PageDisplay(page, call.id)
    ELSE Display(call.name, call.args)

AssistantRow(r, d, cs) == [role |-> "assistant", round |-> r, deltas |-> d, calls |-> cs]
ToolRow(r, c) == [role |-> "tool", round |-> r, id |-> c.id]

-----------------------------------------------------------------------------
(* messages.js.  A patch has some of a tool's fields; JavaScript's test for *)
(* the presence of a field is one of the record's domain.                   *)

Block(type, text, tool) == [type |-> type, text |-> text, tool |-> tool]
NoTool == [id |-> None]
NewTool(id) == [id |-> id, name |-> "", status |-> "running", args |-> <<>>, display |-> None]

(* appendAssistantTextBlock                                                *)
AppendText(bs, kind, text) ==
    IF text = <<>> THEN bs
    ELSE IF bs # <<>> /\ Last(bs).type = kind
    THEN Append(Front(bs), [Last(bs) EXCEPT !.text = @ \o text])
    ELSE Append(bs, Block(kind, text, NoTool))

AppendDelta(bs, d) == AppendText(AppendText(bs, "reasoning", d.reasoning), "content", d.content)

Patched(tool, patch) ==
    [f \in DOMAIN tool |->
        IF f = "args" /\ "more" \in DOMAIN patch THEN tool.args \o patch.more
        ELSE IF f \in DOMAIN patch THEN patch[f] ELSE tool[f]]

(* upsertToolCallBlock                                                     *)
UpsertToolCallBlock(bs, patch) ==
    IF \E k \in DOMAIN bs : bs[k].tool.id = patch.id
    THEN [k \in DOMAIN bs |-> IF bs[k].tool.id = patch.id
                              THEN [bs[k] EXCEPT !.tool = Patched(@, patch)] ELSE bs[k]]
    ELSE Append(bs, Block("tool", <<>>, Patched(NewTool(patch.id), patch)))

(* recordAssistantModelRetry: only the notices of retries stay.            *)
RecordModelRetry(bs) ==
    Append(Only(bs, {b \in Range(bs) : b.type = "retry"}), Block("retry", <<>>, NoTool))

(* recordAssistantRoundFinished, recordAssistantTurnFinished               *)
RecordRoundFinished(bs) == Append(bs, Block("round_finished", <<>>, NoTool))

(* applyStoredToolCalls                                                    *)
ApplyStoredToolCall(bs, page, c) ==
    UpsertToolCallBlock(bs, [id |-> c.id, name |-> c.name, status |-> "running",
                             more |-> c.args, display |-> AttachDisplay(page, c)])

ApplyStoredToolCalls(bs, page, cs) ==
    FoldLeft(LAMBDA acc, c : ApplyStoredToolCall(acc, page, c), bs, cs)

CallsOf(records) == FlattenSeq([k \in DOMAIN records |->
    IF records[k].role = "assistant" THEN records[k].calls ELSE <<>>])

(* mapMessageRecords, of one turn's rows.                                  *)
MapRecord(bs, page, r) ==
    IF r.role = "assistant"
    THEN ApplyStoredToolCalls(AppendDelta(bs, r.deltas), page, r.calls)
    ELSE UpsertToolCallBlock(bs, [id |-> r.id, status |-> "done"])

MapRecords(records) ==
    LET page == others \o CallsOf(records) IN
    RecordRoundFinished(FoldLeft(LAMBDA bs, r : MapRecord(bs, page, r), <<>>, records))

-----------------------------------------------------------------------------
NoDeltas == [reasoning |-> <<>>, content |-> <<>>]

Init ==
    /\ blocks = <<>> /\ rows = <<>>
    /\ others \in {<<>>} \cup {<<Call(id, "run_command", SomeArgs)>> : id \in Ids}
    /\ round = 1 /\ retries = 0
    /\ deltas = NoDeltas /\ calls = <<>>
    /\ phase = "streaming"
    /\ gone = 0 /\ lost = <<>>

Piece(kind) == <<round, retries, Len(deltas[kind]) + 1>>

(* assistant_message_delta, with text of one kind or of both.              *)
MessageDelta(kinds) ==
    /\ phase = "streaming" /\ calls = <<>>
    /\ Len(deltas.reasoning) + Len(deltas.content) + Cardinality(kinds) <= MaxTexts
    /\ LET d == [k \in {"reasoning", "content"} |-> IF k \in kinds THEN <<Piece(k)>> ELSE <<>>] IN
       /\ deltas' = [k \in DOMAIN deltas |-> deltas[k] \o d[k]]
       /\ blocks' = AppendDelta(blocks, d)
    /\ UNCHANGED <<rows, others, round, retries, calls, phase, gone, lost>>

(* tool_call_started                                                       *)
ToolStarted(call) ==
    /\ phase = "streaming"
    /\ Len(CallsOf(rows \o lost) \o calls) < MaxCalls
    /\ \A k \in DOMAIN calls : calls[k].id # call.id
    /\ calls' = Append(calls, call)
    /\ blocks' = UpsertToolCallBlock(blocks,
           [id |-> call.id, name |-> call.name, status |-> "running", args |-> call.args,
            display |-> Display(call.name, call.args)])
    /\ phase' = "calling"
    /\ UNCHANGED <<rows, others, round, retries, deltas, gone, lost>>

(* tool_call_finished                                                      *)
ToolFinished(ok) ==
    /\ phase = "calling"
    /\ blocks' = UpsertToolCallBlock(blocks,
           [id |-> Last(calls).id, name |-> Last(calls).name,
            status |-> IF ok THEN "done" ELSE "failed"])
    /\ phase' = "streaming"
    /\ UNCHANGED <<rows, others, round, retries, deltas, calls, gone, lost>>

(* model_request_retrying: the attempt starts over.                        *)
Retrying ==
    /\ phase = "streaming" /\ retries < MaxRetries
    /\ retries' = retries + 1
    /\ deltas' = NoDeltas /\ calls' = <<>>
    /\ blocks' = RecordModelRetry(blocks)
    /\ gone' = round - 1
    /\ UNCHANGED <<rows, others, round, phase, lost>>

(* persist_model_round_messages: an answer of nothing is not stored, and    *)
(* the first row that cannot be written is the last one tried.              *)
RoundRows ==
    (IF deltas = NoDeltas /\ calls = <<>> THEN <<>> ELSE <<AssistantRow(round, deltas, calls)>>)
    \o [k \in DOMAIN calls |-> ToolRow(round, calls[k])]

(* model_round_finished, stored before it is forwarded.  A round without    *)
(* calls is the last one.                                                   *)
RoundFinished ==
    /\ phase = "streaming"
    /\ \E n \in 0..Len(RoundRows) :
         /\ MayFail \/ n = Len(RoundRows)
         /\ rows' = rows \o SubSeq(RoundRows, 1, n)
         /\ lost' = lost \o SubSeq(RoundRows, n + 1, Len(RoundRows))
    /\ blocks' = RecordRoundFinished(blocks)
    /\ IF calls = <<>> \/ round = MaxRounds
       THEN phase' = "ended" /\ UNCHANGED round
       ELSE round' = round + 1 /\ UNCHANGED phase
    /\ deltas' = NoDeltas /\ calls' = <<>>
    /\ retries' = 0
    /\ UNCHANGED <<others, gone>>

(* failed, canceled: the live answer stays as it is.                       *)
TaskStops ==
    /\ phase # "ended"
    /\ phase' = "ended"
    /\ UNCHANGED <<blocks, rows, others, round, retries, deltas, calls, gone, lost>>

Next ==
    \/ \E kinds \in SUBSET {"reasoning", "content"} \ {{}} : MessageDelta(kinds)
    \/ \E id \in Ids : \E call \in CallsWith(id) : ToolStarted(call)
    \/ \E ok \in BOOLEAN : ToolFinished(ok)
    \/ Retrying \/ RoundFinished \/ TaskStops

Spec == Init /\ [][Next]_vars

-----------------------------------------------------------------------------
(* Properties.                                                             *)

TypeOK ==
    /\ \A k \in DOMAIN blocks : blocks[k].type \in
         {"reasoning", "content", "tool", "retry", "round_finished"}
    /\ round \in 1..MaxRounds /\ retries \in 0..MaxRetries /\ gone \in 0..MaxRounds
    /\ phase \in {"streaming", "calling", "ended"}

(* What a reader sees of one kind of text and of the calls, in order.      *)
Shown(bs, kind) == FlattenSeq([k \in DOMAIN bs |->
    CASE bs[k].type = kind   -> bs[k].text
      [] bs[k].type = "tool" -> <<bs[k].tool.id>>
      [] OTHER               -> <<>>])

ToolsOf(bs) == {[id |-> b.tool.id, name |-> b.tool.name, display |-> b.tool.display] :
    b \in {bs[k] : k \in {j \in DOMAIN bs : bs[j].type = "tool"}}}

(* The rows of the rounds that a retry has taken off the live answer, and   *)
(* of those behind them.                                                   *)
Emptied == Only(rows, {r \in Range(rows) : r.round <= gone})
Kept == Only(rows, {r \in Range(rows) : r.round > gone})

AllAnnounced == deltas = NoDeltas /\ calls = <<>>

IdsUsedOnce == LET all == CallsOf(Kept \o lost) \o calls IN
    \A i, j \in DOMAIN all : all[i].id = all[j].id => i = j

IdsOf(tools) == {t.id : t \in tools}

(* An answer that is opened again begins with the rounds that a retry has  *)
(* taken off the live one, and goes on with what that shows: the same text,*)
(* between the same calls, named and displayed alike, up to the last round *)
(* that was finished.  A call that has an identifier of those rounds stands*)
(* where it stood there, as the later call.  If rows were lost, what is    *)
(* left stands in the order it stood in (tool_call_display.rs:1,           *)
(* mapMessageRecords).                                                     *)
ShownAgain ==
    LET again   == MapRecords(rows)
        earlier == MapRecords(Emptied)
        used    == IdsOf(ToolsOf(earlier)) IN
    /\ \A kind \in {"reasoning", "content"} :
         LET front == Shown(earlier, kind)
             old   == Only(Shown(blocks, kind), Range(Shown(blocks, kind)) \ used)
             new   == Shown(again, kind)
             rest  == SubSeq(new, Len(front) + 1, Len(new)) IN
         /\ IsPrefix(front, new)
         /\ lost = <<>> => IsPrefix(rest, old)
         /\ lost = <<>> /\ AllAnnounced => rest = old
         /\ IdsUsedOnce => rest = Only(old, Range(rest))
    /\ lost = <<>> /\ AllAnnounced =>
         ToolsOf(again) = ToolsOf(blocks) \cup
             {t \in ToolsOf(earlier) : t.id \notin IdsOf(ToolsOf(blocks))}
    /\ IdsUsedOnce => ToolsOf(again) \subseteq ToolsOf(earlier) \cup ToolsOf(blocks)

(* A call that failed is shown as failed when the answer is opened again.   *)
(* The code does not keep it: a stored result counts as done               *)
(* (messages.js:57).                                                        *)
StatusShownAgain ==
    LET again == MapRecords(rows) IN
    \A i \in DOMAIN again, j \in DOMAIN blocks :
        again[i].tool.id = blocks[j].tool.id /\ blocks[j].tool.id # None /\ phase = "ended"
          => again[i].tool.status = blocks[j].tool.status
=============================================================================
