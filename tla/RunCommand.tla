----------------------------- MODULE RunCommand -----------------------------
(***************************************************************************)
(* The tool run_command (tool-system: lib.rs): a shell is started with its *)
(* two outputs piped, both pipes are read while the shell is waited for,   *)
(* and all of it races a timeout and the abort of the task.  The shell may *)
(* leave a process in the background that holds its ends of the pipes.     *)
(*                                                                         *)
(* What is written is a sequence of characters, each told by its width in  *)
(* UTF-8, and of bytes that are no character, told by 0 for as many as one *)
(* U+FFFD replaces.                                                        *)
(***************************************************************************)
EXTENDS Naturals, Sequences, SequencesExt, FiniteSetsExt

CONSTANTS
    Widths,        \* of what is written
    MaxWrites,     \* bound on what a process writes
    PipeSize,      \* how much of it a pipe takes
    OutputBytes,   \* max_command_output_bytes
    MayTimeOut,    \* does the timeout elapse before the processes end?
    MayAbort       \* is the task aborted meanwhile?

ASSUME RunCommandAssumption ==
    /\ Widths \subseteq 0..4
    /\ MaxWrites \in Nat /\ PipeSize \in Nat \ {0} /\ OutputBytes \in Nat
    /\ MayTimeOut \in BOOLEAN /\ MayAbort \in BOOLEAN

Streams == {"stdout", "stderr"}
Processes == {"shell", "background"}

VARIABLES
    process,    \* the state of each process
    left,       \* the streams each process is going to write to, in order
    output,     \* everything written to a stream, for the properties
    pipe,       \* what a pipe holds
    read,       \* what wait_with_output has read
    call,       \* the tool call
    result      \* CommandResult

vars == <<process, left, output, pipe, read, call, result>>

NoResult == [timed_out |-> FALSE]

Init ==
    /\ process = [p \in Processes |-> "none"]
    /\ left \in [Processes -> BoundedSeq(Streams, MaxWrites)]
    /\ output = [s \in Streams |-> <<>>]
    /\ pipe = output /\ read = output
    /\ call = "called"
    /\ result = NoResult

-----------------------------------------------------------------------------
(* The text of an answer.                                                  *)

(* String::from_utf8_lossy: U+FFFD, three bytes wide, for what is no        *)
(* character.                                                              *)
FromUtf8Lossy(text) == [n \in DOMAIN text |-> IF text[n] = 0 THEN 3 ELSE text[n]]

Bytes(text) == FoldLeft(LAMBDA n, w : n + w, 0, text)

(* "...[truncated]", told by its width.                                    *)
Marker == <<14>>

(* truncate_utf8: the marker stands behind what fits.                      *)
TruncateUtf8(text) ==
    IF Bytes(text) <= OutputBytes THEN text
    ELSE SubSeq(text, 1, Max({n \in 0..Len(text) : Bytes(SubSeq(text, 1, n)) <= OutputBytes}))
         \o Marker

IsTruncated(text) == Bytes(text) > OutputBytes

-----------------------------------------------------------------------------
(* The processes.                                                          *)

Alive(p) == process[p] = "running"

(* A call that is not acceptable starts nothing: an unknown tool, a bad     *)
(* workspace, input or directory, or a spawn that fails.                   *)
Refused ==
    /\ call = "called" /\ call' = "refused"
    /\ UNCHANGED <<process, left, output, pipe, read, result>>

Spawn ==
    /\ call = "called" /\ call' = "waiting"
    /\ process' = [process EXCEPT !["shell"] = "running"]
    /\ UNCHANGED <<left, output, pipe, read, result>>

(* A write waits while the pipe is full.                                   *)
Write(p, w) ==
    /\ Alive(p) /\ call = "waiting" /\ left[p] # <<>>
    /\ LET s == Head(left[p]) IN
       /\ Len(pipe[s]) < PipeSize
       /\ output' = [output EXCEPT ![s] = Append(@, w)]
       /\ pipe' = [pipe EXCEPT ![s] = Append(@, w)]
    /\ left' = [left EXCEPT ![p] = Tail(@)]
    /\ UNCHANGED <<process, read, call, result>>

(* A process ends when it has written all, or its pipes are closed.        *)
Exit(p) ==
    /\ Alive(p)
    /\ left[p] = <<>> \/ call # "waiting"
    /\ process' = [process EXCEPT ![p] = "exited"]
    /\ UNCHANGED <<left, output, pipe, read, call, result>>

StartBackground ==
    /\ Alive("shell") /\ process["background"] = "none"
    /\ process' = [process EXCEPT !["background"] = "running"]
    /\ UNCHANGED <<left, output, pipe, read, call, result>>

-----------------------------------------------------------------------------
(* wait_with_output: the exit and both streams are awaited together.       *)

\* Mutant: stderr is read when stdout has ended.
ReadInTurn(s) ==
    /\ call = "waiting" /\ pipe[s] # <<>>
    /\ s = "stderr" => pipe["stdout"] = <<>> /\ \A p \in Processes : ~Alive(p)
    /\ read' = [read EXCEPT ![s] = Append(@, Head(pipe[s]))]
    /\ pipe' = [pipe EXCEPT ![s] = Tail(@)]
    /\ UNCHANGED <<process, left, output, call, result>>

Read(s) ==
    /\ call = "waiting" /\ pipe[s] # <<>>
    /\ read' = [read EXCEPT ![s] = Append(@, Head(pipe[s]))]
    /\ pipe' = [pipe EXCEPT ![s] = Tail(@)]
    /\ UNCHANGED <<process, left, output, call, result>>

\* Mutant: the streams are not awaited to their ends.
OutputEndedOrNot == process["shell"] = "exited"

(* A stream ends when it is read and no process holds its other end.       *)
OutputEnded ==
    /\ process["shell"] = "exited" /\ ~Alive("background")
    /\ \A s \in Streams : pipe[s] = <<>>

Finish ==
    /\ call = "waiting" /\ OutputEnded
    /\ call' = "answered"
    /\ result' = [timed_out |-> FALSE,
                  stdout |-> TruncateUtf8(FromUtf8Lossy(read["stdout"])),
                  stderr |-> TruncateUtf8(FromUtf8Lossy(read["stderr"])),
                  truncated |-> \E s \in Streams : IsTruncated(FromUtf8Lossy(read[s]))]
    /\ UNCHANGED <<process, left, output, pipe, read>>

\* Mutant: the shell goes on.
KillOnDropNot == UNCHANGED process

(* kill_on_drop, of the shell alone.                                       *)
KillOnDrop == process' = [process EXCEPT !["shell"] = IF @ = "running" THEN "killed" ELSE @]

(* Waiting or reading fails; the child is dropped with its future.          *)
WaitFails ==
    /\ call = "waiting"
    /\ call' = "failed"
    /\ KillOnDrop
    /\ UNCHANGED <<left, output, pipe, read, result>>

\* Mutant: only the reading behind the shell's exit is timed.
TimeOutBehindExit ==
    /\ MayTimeOut /\ call = "waiting" /\ ~Alive("shell")
    /\ call' = "answered"
    /\ result' = [timed_out |-> TRUE, truncated |-> FALSE]
    /\ KillOnDrop
    /\ UNCHANGED <<left, output, pipe, read>>

TimeOut ==
    /\ MayTimeOut /\ call = "waiting"
    /\ call' = "answered"
    /\ result' = [timed_out |-> TRUE, truncated |-> FALSE]
    /\ KillOnDrop
    /\ UNCHANGED <<left, output, pipe, read>>

(* The task's runner is dropped, and this future with it.                  *)
Abort ==
    /\ MayAbort /\ call = "waiting"
    /\ call' = "dropped"
    /\ KillOnDrop
    /\ UNCHANGED <<left, output, pipe, read, result>>

Works ==
    \/ Spawn
    \/ \E p \in Processes : Exit(p) \/ \E w \in Widths : Write(p, w)
    \/ \E s \in Streams : Read(s)
    \/ Finish

Next == Refused \/ StartBackground \/ Works \/ WaitFails \/ TimeOut \/ Abort

Spec == Init /\ [][Next]_vars

(* A call is looked at, and its timer elapses, whatever the processes do.  *)
TimedSpec == Spec /\ WF_vars(Refused \/ Spawn) /\ WF_vars(TimeOut)

-----------------------------------------------------------------------------
(* Properties.                                                             *)

TypeOK ==
    /\ process \in [Processes -> {"none", "running", "exited", "killed"}]
    /\ process["background"] # "killed"
    /\ \A s \in Streams : Len(pipe[s]) <= PipeSize /\ read[s] \o pipe[s] = output[s]
    /\ call \in {"called", "refused", "waiting", "answered", "failed", "dropped"}

(* No shell outlives its tool call, whether it ended, failed, timed out or *)
(* was aborted (kill_on_drop).                                             *)
NoShellLeft == call \in {"answered", "failed", "dropped"} => ~Alive("shell")

(* An answer that did not time out has each output to its end, that of      *)
(* processes in the background too, with its characters as they were and    *)
(* U+FFFD in the place of other bytes.  If that is more than the limit, as  *)
(* much as fits is there, no character cut, the marker behind it, and the   *)
(* answer says so (run_command_line, truncate_utf8).                       *)
AnswerIsTrue ==
    call = "answered" /\ ~result.timed_out =>
        LET text(s) == FromUtf8Lossy(output[s])
            Cut(answer, all) ==
                \E n \in 1..Len(all) :
                    /\ answer = SubSeq(all, 1, n - 1) \o Marker
                    /\ Bytes(SubSeq(all, 1, n - 1)) <= OutputBytes
                    /\ Bytes(SubSeq(all, 1, n)) > OutputBytes
            Told(answer, all) == IF Bytes(all) <= OutputBytes THEN answer = all
                                                              ELSE Cut(answer, all)
        IN  /\ Told(result.stdout, text("stdout")) /\ Told(result.stderr, text("stderr"))
            /\ result.truncated <=> \E s \in Streams : Bytes(text(s)) > OutputBytes

(* A tool call ends, whatever its command does (the timeout).              *)
CallEnds == call = "called" ~> call \in {"refused", "answered", "failed", "dropped"}

(* Until a call is answered its processes, its readers or the answer       *)
(* itself can go on: no process waits for a pipe that nobody reads, with   *)
(* however much is written to either stream (wait_with_output).            *)
NeverStuck == call = "waiting" => ENABLED Works
=============================================================================
