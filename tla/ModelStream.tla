----------------------------- MODULE ModelStream -----------------------------
(***************************************************************************)
(* The streaming half of the model client: the body of one chat completion *)
(* is a sequence of server-sent events, the network cuts it into pieces    *)
(* wherever it likes, and next_stream_item turns the pieces into chunks.   *)
(*                                                                         *)
(* The body is kept at the level the framing sees.  Every data line is one *)
(* two-byte character, so that a piece may end inside a character; a line  *)
(* ends with the bytes of lineEnd; an empty line ends a frame.  What a     *)
(* line says is one of Payloads:                                           *)
(*   "delta", "usage"  JSON that decodes to one chunk                      *)
(*   "bad"             a data line that is no JSON                         *)
(*   "comment"         a line without the data prefix (keep-alive)         *)
(*   "done"            the line "data: [DONE]"                             *)
(*   "garbage"         a line that is no UTF-8                             *)
(***************************************************************************)
EXTENDS Integers, Sequences, SequencesExt

CONSTANTS
    Payloads,     \* the lines a server sends, a subset of AllPayloads
    MaxFrames     \* bound on the frames of one body

AllPayloads == {"delta", "usage", "bad", "comment", "done", "garbage"}

ASSUME ModelStreamAssumption ==
    /\ Payloads \subseteq AllPayloads
    /\ MaxFrames \in Nat

VARIABLES
    lineEnd,   \* the bytes that end a line of this server
    frames,    \* the frames of the body, as the server means them
    sent,      \* the bytes of it that arrive before the connection ends
    net,       \* the bytes that are still to be read
    phase,     \* StreamState, and "ended" once the stream returned None
    utf8,      \* utf8_buffer: bytes of an unfinished character
    buffer,    \* buffer: text of an unfinished frame
    pending,   \* pending: decoded chunks not yet returned
    done,      \* done: [DONE] has been seen
    told,      \* the chunks returned so far
    error,     \* the error returned last, or "none"
    cutPair    \* history: two pieces shared a CR LF

body == <<lineEnd, frames, sent>>

vars == <<body, net, phase, utf8, buffer, pending, done, told, error, cutPair>>

-----------------------------------------------------------------------------
(* The body on the wire.  A byte is <<what, position in the character>>.   *)

Bytes(what) == CASE what = "garbage" -> <<<<what, 2>>>>
                 [] what \in {"lf", "cr"} -> <<<<what, 0>>>>
                 [] OTHER -> <<<<what, 1>>, <<what, 2>>>>

Wire(f) == FlattenSeq([i \in 1..Len(f) |->
              Bytes(f[i]) \o FlattenSeq([j \in 1..2 * Len(lineEnd) |->
                                Bytes((lineEnd \o lineEnd)[j])])])

(* The chunks a frame decodes to.                                          *)
ChunkOf(what) == CASE what \in {"delta", "usage"} -> <<what>>
                   [] what = "done" -> <<"Finished">>
                   [] OTHER -> <<>>

Chunks(f) == FlattenSeq([i \in 1..Len(f) |-> ChunkOf(f[i])])

-----------------------------------------------------------------------------
(* push_stream_text: the longest prefix of whole characters is moved to    *)
(* the text, an unfinished last character stays, anything else is an error.*)

(* Positions of the bytes that open a character of two.                    *)
Heads(b) == {i \in 1..Len(b) : b[i][2] = 1}

IsInvalid(b) == \/ \E i \in Heads(b) \ {Len(b)} : b[i + 1] # <<b[i][1], 2>>
                \/ \E i \in 1..Len(b) : b[i][2] = 2 /\ i - 1 \notin Heads(b)

Unfinished(b) == IF Len(b) \in Heads(b) THEN <<Last(b)>> ELSE <<>>

Text(b) == LET starts == SelectSeq(b, LAMBDA x : x[2] # 2)
               whole  == SubSeq(starts, 1, Len(starts) - Len(Unfinished(b)))
           IN  [i \in 1..Len(whole) |-> whole[i][1]]

(* push_normalized_stream_text: every CR LF inside the pushed text becomes *)
(* LF.  A pair that two pushes share stays as it is.                       *)
Normalized(t) ==
    LET kept == SelectSeq([i \in 1..Len(t) |-> i],
                  LAMBDA i : ~(t[i] = "cr" /\ i < Len(t) /\ t[i + 1] = "lf"))
    IN  [j \in 1..Len(kept) |-> t[kept[j]]]

(* take_next_sse_frame: where the first empty line is, 0 if there is none. *)
FrameEnd(t) == LET ends == {i \in 1..Len(t) - 1 : t[i] = "lf" /\ t[i + 1] = "lf"}
               IN  IF ends = {} THEN 0 ELSE CHOOSE i \in ends : \A j \in ends : i <= j

(* frame_data: the payloads of the data lines.  str::lines drops the CR of *)
(* a line that ends with CR LF, but not a CR that ends the frame.          *)
FrameData(t) == SelectSeq(t, LAMBDA c : c \in {"delta", "usage", "bad", "done"})

(* The frame's data is exactly "[DONE]".                                   *)
IsDone(t) == FrameData(t) = <<"done">> /\ Last(t) # "cr"

(* parse_sse_frame_choices: it trims the data, skips "[DONE]", and takes   *)
(* one JSON document; the lines of two frames joined are not one.          *)
IsUndecodable(t) == LET d == FrameData(t) IN
    /\ d # <<>>
    /\ d \notin {<<"delta">>, <<"usage">>, <<"done">>}

Decoded(t) == IF FrameData(t) \in {<<"delta">>, <<"usage">>} THEN FrameData(t)
                                                            ELSE <<>>

(* The loop over the frames of the text: stops at the first that cannot be *)
(* decoded.                                                                *)
RECURSIVE Drain(_)
Drain(s) ==
    LET n     == FrameEnd(s.buffer)
        frame == SubSeq(s.buffer, 1, n - 1)
        rest  == [s EXCEPT !.buffer = SubSeq(@, n + 2, Len(@))]
    IN  IF n = 0 THEN s
        ELSE IF IsDone(frame)
             THEN Drain([rest EXCEPT !.pending = Append(@, "Finished"), !.done = TRUE])
        ELSE IF IsUndecodable(frame) THEN [rest EXCEPT !.bad = TRUE]
        ELSE Drain([rest EXCEPT !.pending = @ \o Decoded(frame)])

-----------------------------------------------------------------------------
LineEnds == {<<"lf">>, <<"cr", "lf">>}

Init ==
    /\ lineEnd \in LineEnds
    /\ frames \in SeqOf(Payloads, MaxFrames)
    /\ sent \in 0..Len(Wire(frames))
    /\ net = SubSeq(Wire(frames), 1, sent)
    /\ phase = "init"
    /\ utf8 = <<>> /\ buffer = <<>> /\ pending = <<>>
    /\ done = FALSE /\ told = <<>> /\ error = "none" /\ cutPair = FALSE

Fails(why) ==
    /\ phase' = "done"
    /\ error' = why
    /\ pending' = <<>> /\ utf8' = <<>> /\ buffer' = <<>>
    /\ UNCHANGED <<body, told, done>>

(* StreamState::Init: the request is sent and answered.                    *)
Start ==
    /\ phase = "init"
    /\ phase' = "running"
    /\ UNCHANGED <<body, net, utf8, buffer, pending, done, told, error, cutPair>>

(* send_chat_request: there is no key, or the request fails.               *)
StartFails == phase = "init" /\ Fails("request") /\ UNCHANGED <<net, cutPair>>

(* ensure_success: the provider answers, but not with a success.  The body *)
(* is read into the error.                                                 *)
Refused == phase = "init" /\ Fails("refused") /\ net' = <<>> /\ UNCHANGED cutPair

\* Mutant: the newest pending chunk is returned instead of the oldest.
ReturnNewest ==
    /\ phase = "running" /\ pending # <<>>
    /\ told' = Append(told, Last(pending))
    /\ pending' = Front(pending)
    /\ UNCHANGED <<body, net, phase, utf8, buffer, done, error, cutPair>>

(* A decoded chunk is returned.                                            *)
Return ==
    /\ phase = "running" /\ pending # <<>>
    /\ told' = Append(told, Head(pending))
    /\ pending' = Tail(pending)
    /\ UNCHANGED <<body, net, phase, utf8, buffer, done, error, cutPair>>

Ready == phase = "running" /\ pending = <<>> /\ ~done

(* The network hands over the next piece of the body.                      *)
Read(k) ==
    /\ Ready /\ k \in 1..Len(net)
    /\ net' = SubSeq(net, k + 1, Len(net))
    /\ cutPair' = (cutPair \/ (k < Len(net) /\ net[k][1] = "cr"))
    /\ LET b == utf8 \o SubSeq(net, 1, k)
           s == Drain([buffer |-> buffer \o Normalized(Text(b)),
                       pending |-> <<>>, done |-> FALSE, bad |-> FALSE])
       IN  \/ IsInvalid(b) /\ Fails("invalid UTF-8")
           \/ ~IsInvalid(b) /\ s.bad /\ Fails("undecodable")
           \/ /\ ~IsInvalid(b) /\ ~s.bad
              /\ utf8' = Unfinished(b)
              /\ buffer' = s.buffer /\ pending' = s.pending /\ done' = s.done
              /\ UNCHANGED <<body, phase, told, error>>

(* Reading the body fails.                                                 *)
ReadFails == Ready /\ Fails("network") /\ UNCHANGED <<net, cutPair>>

(* The body is over: inside a character that is an error, otherwise the    *)
(* stream just ends, whatever the buffer still holds.                      *)
BodyOver ==
    /\ Ready /\ net = <<>>
    /\ \/ utf8 # <<>> /\ Fails("incomplete UTF-8")
       \/ /\ utf8 = <<>>
          /\ phase' = "ended"
          /\ UNCHANGED <<body, utf8, buffer, pending, done, told, error>>
    /\ UNCHANGED <<net, cutPair>>

\* Mutant: done is looked at before the pending chunks.
EndBeforePending ==
    /\ \/ phase = "running" /\ done
       \/ phase = "done"
    /\ phase' = "ended"
    /\ UNCHANGED <<body, net, utf8, buffer, pending, done, told, error, cutPair>>

(* The stream returns None: everything is told behind [DONE], or an error  *)
(* was returned before.                                                    *)
End ==
    /\ \/ phase = "running" /\ pending = <<>> /\ done
       \/ phase = "done"
    /\ phase' = "ended"
    /\ UNCHANGED <<body, net, utf8, buffer, pending, done, told, error, cutPair>>

Next == Start \/ StartFails \/ Refused \/ Return \/ (\E k \in 1..Len(net) : Read(k)) \/ ReadFails
        \/ BodyOver \/ End

Spec == Init /\ [][Next]_vars

-----------------------------------------------------------------------------
(* How many frames arrive completely.                                      *)
Arriving == CHOOSE m \in 0..Len(frames) :
              /\ Len(Wire(SubSeq(frames, 1, m))) <= sent
              /\ m < Len(frames) => Len(Wire(SubSeq(frames, 1, m + 1))) > sent

TypeOK ==
    /\ lineEnd \in LineEnds /\ cutPair \in BOOLEAN
    /\ frames \in SeqOf(AllPayloads, MaxFrames)
    /\ phase \in {"init", "running", "done", "ended"}
    /\ Range(net) \cup Range(utf8) \subseteq Range(Wire(frames))
    /\ Len(utf8) <= 1
    /\ Range(buffer) \subseteq AllPayloads \cup {"lf", "cr"}
    /\ Range(pending) \cup Range(told) \subseteq {"delta", "usage", "Finished"}
    /\ done \in BOOLEAN
    /\ error \in {"none", "request", "refused", "network", "undecodable",
                  "invalid UTF-8", "incomplete UTF-8"}

(* Wherever the network cuts the body, the chunks returned are the first   *)
(* chunks of the body: none is lost, told twice or out of its place.  A CR *)
(* LF that is cut in two may hide a Finished, and no other chunk.          *)
(* (client.rs:330-461, the pending queue and the two buffers)              *)
ChunksInOrder ==
    LET text(cs) == SelectSeq(cs, LAMBDA c : c # "Finished") IN
    /\ IsPrefix(text(told), text(Chunks(frames)))
    /\ ~cutPair => IsPrefix(told, Chunks(frames))

(* A stream that ends without an error has returned exactly what a first   *)
(* part of the body says: all the frames that arrived, or at least those   *)
(* up to [DONE].                                                           *)
(* (client.rs:445-455 lets a body end without [DONE])                      *)
CleanEndIsComplete ==
    phase = "ended" /\ error = "none" =>
        \E m \in 0..Arriving :
            /\ told = Chunks(SubSeq(frames, 1, m))
            /\ m = Arriving \/ "done" \in Range(SubSeq(frames, 1, m))

(* No error is made up: a body that is well formed as far as it goes fails *)
(* only if the connection does, or ends inside a character.                *)
(* (client.rs:389-455, 463-496)                                            *)
ErrorsAreReal ==
    /\ error = "undecodable" => "bad" \in Range(frames)
    /\ error = "invalid UTF-8" => "garbage" \in Range(frames)
    /\ error = "incomplete UTF-8" => sent < Len(Wire(frames))

(* How a stream ends is true of what arrived: no frame of the body is      *)
(* passed over by a clean end, and no error is made up; so a stream with a *)
(* [DONE] that ends without an error has told Finished.  This is so for    *)
(* lines that end in LF, and for lines that end in CR LF as long as no two *)
(* pieces share such a pair (next_stream_item, client.rs:498).             *)
EndIsTrue == ~cutPair => CleanEndIsComplete /\ ErrorsAreReal

(* [DONE] is told as the "Provider-specific completion marker"             *)
(* (provider.rs:41), wherever the body is cut.  The code does not keep it: *)
(* a CR LF that is cut in two hides the [DONE] in front of it              *)
(* (client.rs:499).                                                        *)
DoneIsFinished ==
    phase = "ended" /\ error = "none"
    /\ "done" \in Range(SubSeq(frames, 1, Arriving))
        => "Finished" \in Range(told)
=============================================================================
