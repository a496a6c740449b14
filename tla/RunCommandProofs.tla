-------------------------- MODULE RunCommandProofs --------------------------
(***************************************************************************)
(* What run_command keeps for every limit, every size of a pipe and every   *)
(* output: no shell is left, and an answer is made of all of the output.    *)
(***************************************************************************)
EXTENDS RunCommand, SequenceTheorems, NaturalsInduction, WellFoundedInduction, TLAPS

-----------------------------------------------------------------------------
(* A process has a state, and the shell of a call that is over has ended.   *)
ShellInv ==
    /\ process \in [Processes -> {"none", "running", "exited", "killed"}]
    /\ call = "called" => ~Alive("shell")
    /\ NoShellLeft

LEMMA KillEnds ==
    ASSUME ShellInv, KillOnDrop
    PROVE  process' \in [Processes -> {"none", "running", "exited", "killed"}] /\ ~Alive("shell")'
BY DEF ShellInv, KillOnDrop, Alive, Processes

LEMMA ShellStep == ShellInv /\ [Next]_vars => ShellInv'
<1> SUFFICES ASSUME ShellInv, [Next]_vars PROVE ShellInv'
    OBVIOUS
<1>1. CASE UNCHANGED <<process, call>>
    BY <1>1 DEF ShellInv, NoShellLeft, Alive
<1>2. CASE Refused \/ \E s \in Streams : Read(s)
    BY <1>2 DEF ShellInv, NoShellLeft, Alive, Refused, Read
<1>3. CASE Spawn \/ \E p \in Processes : Exit(p) \/ \E w \in Widths : Write(p, w)
    BY <1>3, <1>1 DEF ShellInv, NoShellLeft, Alive, Spawn, Exit, Write, Processes
<1>4. CASE StartBackground
    BY <1>4 DEF ShellInv, NoShellLeft, Alive, StartBackground, Processes
<1>5. CASE Finish
    BY <1>5 DEF ShellInv, NoShellLeft, Alive, Finish, OutputEnded
<1>6. CASE WaitFails \/ TimeOut \/ Abort
    BY <1>6, KillEnds DEF ShellInv, NoShellLeft, WaitFails, TimeOut, Abort
<1>7. CASE UNCHANGED vars
    BY <1>7, <1>1 DEF vars
<1> QED
    BY <1>2, <1>3, <1>4, <1>5, <1>6, <1>7 DEF Next, Works

\* No shell outlives its tool call, whether it ended, failed, timed out or was
\* aborted (kill_on_drop).
THEOREM NoShellLeftTheorem == Spec => []NoShellLeft
<1>1. Init => ShellInv
    BY DEF Init, ShellInv, NoShellLeft, Alive, Processes
<1> QED
    BY <1>1, ShellStep, PTL DEF Spec, ShellInv

-----------------------------------------------------------------------------
LEMMA AppendBehind ==
    ASSUME NEW S, NEW s \in Seq(S), NEW t \in Seq(S), NEW e \in S
    PROVE  Append(s \o t, e) = s \o Append(t, e)
<1>1. /\ Append(t, e) = t \o <<e>> /\ <<e>> \in Seq(S)
      /\ s \o t \in Seq(S)
    BY AppendIsConcat, ConcatProperties
<1>2. Append(s \o t, e) = (s \o t) \o <<e>>
    BY <1>1, AppendIsConcat
<1> QED
    BY <1>1, <1>2, ConcatAssociative

LEMMA MoveHead ==
    ASSUME NEW S, NEW s \in Seq(S), NEW t \in Seq(S), t # <<>>
    PROVE  /\ Append(s, Head(t)) \in Seq(S) /\ Tail(t) \in Seq(S)
           /\ Append(s, Head(t)) \o Tail(t) = s \o t
<1> DEFINE e == Head(t)  u == Tail(t)
<1>1. e \in S /\ u \in Seq(S) /\ Len(u) = Len(t) - 1 /\ \A i \in 1..Len(u) : u[i] = t[i + 1]
    BY HeadTailProperties
<1>2. Len(t) \in Nat \ {0} /\ t[1] = e
    BY EmptySeq
<1> HIDE DEF e, u
<1>3. <<e>> \in Seq(S) /\ Len(<<e>>) = 1 /\ <<e>>[1] = e
    BY <1>1
<1>4. /\ <<e>> \o u \in Seq(S) /\ Len(<<e>> \o u) = Len(t)
      /\ \A i \in 1..Len(t) : (<<e>> \o u)[i] = t[i]
    BY <1>1, <1>2, <1>3, ConcatProperties
<1>5. <<e>> \o u = t
    BY <1>4, SeqEqual
<1>6. Append(s, e) = s \o <<e>> /\ Append(s, e) \in Seq(S)
    BY <1>1, AppendIsConcat, AppendProperties
<1>7. (s \o <<e>>) \o u = s \o (<<e>> \o u)
    BY <1>1, <1>3, ConcatAssociative
<1> QED
    BY <1>1, <1>5, <1>6, <1>7 DEF e, u

(* Nothing gets lost between a process and the answer: what was read and    *)
(* what a pipe holds is what was written, in its order.                     *)
FlowInv ==
    /\ left \in [Processes -> Seq(Streams)]
    /\ output \in [Streams -> Seq(Widths)]
    /\ read \in [Streams -> Seq(Widths)]
    /\ pipe \in [Streams -> Seq(Widths)]
    /\ \A s \in Streams : output[s] = read[s] \o pipe[s]

(* An answer that did not time out is made of all that was written, with    *)
(* bytes that are no character replaced.                                   *)
AnswerOfAll ==
    call = "answered" /\ ~result.timed_out =>
        /\ result.stdout = TruncateUtf8(FromUtf8Lossy(output["stdout"]))
        /\ result.stderr = TruncateUtf8(FromUtf8Lossy(output["stderr"]))
        /\ result.truncated <=> \E s \in Streams : IsTruncated(FromUtf8Lossy(output[s]))

LEMMA WriteFlows ==
    ASSUME FlowInv, NEW p \in Processes, NEW w \in Widths, Write(p, w)
    PROVE  FlowInv'
<1> DEFINE s == Head(left[p])
<1>1. /\ output' = [output EXCEPT ![s] = Append(output[s], w)]
      /\ pipe' = [pipe EXCEPT ![s] = Append(pipe[s], w)]
      /\ left' = [left EXCEPT ![p] = Tail(left[p])]
      /\ read' = read /\ left[p] # <<>>
    BY DEF Write
<1>2. left[p] \in Seq(Streams)
    BY DEF FlowInv
<1>3. s \in Streams /\ Tail(left[p]) \in Seq(Streams)
    BY <1>1, <1>2, HeadTailProperties
<1>4. left' \in [Processes -> Seq(Streams)]
    BY <1>1, <1>3 DEF FlowInv
<1> HIDE DEF s
<1>5. read[s] \in Seq(Widths) /\ pipe[s] \in Seq(Widths) /\ output[s] = read[s] \o pipe[s]
    BY <1>3 DEF FlowInv
<1>6. Append(output[s], w) = read[s] \o Append(pipe[s], w)
    <2>1. \A a, b \in Seq(Widths), e \in Widths : Append(a \o b, e) = a \o Append(b, e)
        BY AppendBehind
    <2> QED
        BY <1>5, <2>1
<1>7. Append(output[s], w) \in Seq(Widths) /\ Append(pipe[s], w) \in Seq(Widths)
    BY <1>3, <1>5 DEF FlowInv
<1> QED
    BY <1>1, <1>3, <1>4, <1>5, <1>6, <1>7 DEF FlowInv

LEMMA ReadFlows ==
    ASSUME FlowInv, NEW s \in Streams, Read(s)
    PROVE  FlowInv'
<1>1. /\ read' = [read EXCEPT ![s] = Append(read[s], Head(pipe[s]))]
      /\ pipe' = [pipe EXCEPT ![s] = Tail(pipe[s])]
      /\ output' = output /\ left' = left /\ pipe[s] # <<>>
    BY DEF Read
<1>2. read[s] \in Seq(Widths) /\ pipe[s] \in Seq(Widths) /\ output[s] = read[s] \o pipe[s]
    BY DEF FlowInv
<1>3. /\ Append(read[s], Head(pipe[s])) \in Seq(Widths) /\ Tail(pipe[s]) \in Seq(Widths)
      /\ Append(read[s], Head(pipe[s])) \o Tail(pipe[s]) = read[s] \o pipe[s]
    <2>1. \A a, b \in Seq(Widths) : b # <<>> =>
            /\ Append(a, Head(b)) \in Seq(Widths) /\ Tail(b) \in Seq(Widths)
            /\ Append(a, Head(b)) \o Tail(b) = a \o b
        BY MoveHead
    <2> QED
        BY <1>1, <1>2, <2>1
<1> QED
    BY <1>1, <1>2, <1>3 DEF FlowInv

LEMMA FlowStep == FlowInv /\ [Next]_vars => FlowInv'
<1> SUFFICES ASSUME FlowInv, [Next]_vars PROVE FlowInv'
    OBVIOUS
<1>1. CASE UNCHANGED <<left, output, read, pipe>>
    BY <1>1 DEF FlowInv
<1>2. CASE Refused \/ Spawn \/ (\E p \in Processes : Exit(p)) \/ StartBackground \/ Finish
             \/ WaitFails \/ TimeOut \/ Abort
    BY <1>1, <1>2 DEF Refused, Spawn, Exit, StartBackground, Finish, WaitFails, TimeOut, Abort
<1>3. CASE UNCHANGED vars
    BY <1>1, <1>3 DEF vars
<1> QED
    BY <1>2, <1>3, WriteFlows, ReadFlows DEF Next, Works

LEMMA AnswerStep == FlowInv /\ AnswerOfAll /\ [Next]_vars => AnswerOfAll'
<1> SUFFICES ASSUME FlowInv, AnswerOfAll, [Next]_vars PROVE AnswerOfAll'
    OBVIOUS
<1>1. CASE UNCHANGED <<call, result, output>>
    BY <1>1 DEF AnswerOfAll, FromUtf8Lossy, TruncateUtf8, IsTruncated
<1>2. CASE Finish
    <2>1. \A s \in Streams : read[s] = output[s]
        <3> SUFFICES ASSUME NEW s \in Streams PROVE read[s] = output[s]
            OBVIOUS
        <3>1. read[s] \in Seq(Widths) /\ pipe[s] = <<>> /\ output[s] = read[s] \o pipe[s]
            BY <1>2 DEF Finish, OutputEnded, FlowInv
        <3> QED
            BY <3>1, ConcatEmptySeq
    <2>2. /\ result' = [timed_out |-> FALSE,
                        stdout |-> TruncateUtf8(FromUtf8Lossy(read["stdout"])),
                        stderr |-> TruncateUtf8(FromUtf8Lossy(read["stderr"])),
                        truncated |-> \E s \in Streams : IsTruncated(FromUtf8Lossy(read[s]))]
          /\ output' = output
        BY <1>2 DEF Finish
    <2>3. "stdout" \in Streams /\ "stderr" \in Streams
        BY DEF Streams
    <2>4. /\ result'.stdout = TruncateUtf8(FromUtf8Lossy(output'["stdout"]))
          /\ result'.stderr = TruncateUtf8(FromUtf8Lossy(output'["stderr"]))
          /\ result'.truncated <=> \E s \in Streams : IsTruncated(FromUtf8Lossy(output'[s]))
        BY <2>1, <2>2, <2>3
    <2> QED
        BY <2>4 DEF AnswerOfAll, FromUtf8Lossy, TruncateUtf8, IsTruncated
<1>3. CASE TimeOut
    BY <1>3 DEF TimeOut, AnswerOfAll
<1>4. CASE Spawn \/ Refused \/ WaitFails \/ Abort
    BY <1>4 DEF Spawn, Refused, WaitFails, Abort, AnswerOfAll
<1>5. CASE \E p \in Processes : Exit(p) \/ \E w \in Widths : Write(p, w)
    BY <1>5, <1>1 DEF Exit, Write, AnswerOfAll
<1>6. CASE StartBackground \/ \E s \in Streams : Read(s)
    BY <1>6, <1>1 DEF StartBackground, Read
<1>7. CASE UNCHANGED vars
    BY <1>7, <1>1 DEF vars
<1> QED
    BY <1>2, <1>3, <1>4, <1>5, <1>6, <1>7 DEF Next, Works

LEMMA FlowHolds == Spec => [](FlowInv /\ AnswerOfAll)
<1>1. Init => FlowInv /\ AnswerOfAll
    <2> SUFFICES ASSUME Init PROVE FlowInv /\ AnswerOfAll
        OBVIOUS
    <2>1. left \in [Processes -> Seq(Streams)]
        <3>1. BoundedSeq(Streams, MaxWrites) \subseteq Seq(Streams)
            <4>1. \A m \in 0..MaxWrites : [1..m -> Streams] \subseteq Seq(Streams)
                BY RunCommandAssumption
            <4> QED
                BY <4>1 DEF BoundedSeq, SeqOf
        <3> QED
            BY <3>1 DEF Init
    <2>2. <<>> \in Seq(Widths) /\ <<>> \o <<>> = <<>>
        BY EmptySeq, ConcatEmptySeq
    <2> QED
        BY <2>1, <2>2 DEF Init, FlowInv, AnswerOfAll
<1> QED
    BY <1>1, FlowStep, AnswerStep, PTL DEF Spec

-----------------------------------------------------------------------------
(* What a fold from the left computes, along the places of a sequence.      *)

LEMMA InductionOverSet ==
    ASSUME NEW S, 0 \in S, \A n \in Nat : n \in S => n + 1 \in S
    PROVE  Nat \subseteq S
<1> DEFINE T == Nat \ S  R == {x \in Nat \X Nat : x[1] < x[2]}
<1> SUFFICES ASSUME T # {} PROVE FALSE
    OBVIOUS
<1>1. IsWellFoundedOn(R, Nat)
    BY NatLessThanWellFounded DEF OpToRel
<1>2. PICK x \in T : \A y \in T : ~ (<<y, x>> \in R)
    <2> HIDE DEF R
    <2> QED
    BY <1>1, WFMin
<1>3. x # 0 /\ x - 1 \in Nat
    OBVIOUS
<1>4. <<x - 1, x>> \in R
    BY <1>3
<1>5. x - 1 \in S
    BY <1>2, <1>3, <1>4
<1> QED
    BY <1>3, <1>5

LEMMA MaxOf ==
    ASSUME NEW n \in Nat, NEW s \in SUBSET (1..(n + 1)), n + 1 \in s
    PROVE  Max(s) = n + 1 /\ s \ {Max(s)} \in SUBSET (1..n)
<1>1. \A x \in s : x \in Nat /\ x <= n + 1
    OBVIOUS
<1>2. \A x \in s : (\A y \in s : x >= y) => x = n + 1
    BY <1>1
<1>3. \A y \in s : n + 1 >= y
    BY <1>1
<1>4. Max(s) \in s /\ \A y \in s : Max(s) >= y
    BY <1>3 DEF Max
<1>5. Max(s) = n + 1
    BY <1>2, <1>4
<1> QED
    BY <1>5

LEMMA MaxIn ==
    ASSUME NEW N \in Nat, NEW s \in SUBSET (0..N), s # {}
    PROVE  Max(s) \in s /\ \A y \in s : Max(s) >= y
<1> DEFINE Has == {n \in Nat : s \cap (0..n) # {} =>
                                  \E x \in s : \A y \in s \cap (0..n) : x >= y}
<1>1. 0 \in Has
    OBVIOUS
<1>2. ASSUME NEW n \in Nat, n \in Has PROVE n + 1 \in Has
    <2>1. CASE n + 1 \in s
        BY <2>1
    <2>2. CASE n + 1 \notin s
        <3>1. s \cap (0..(n + 1)) = s \cap (0..n)
            BY <2>2
        <3> QED
            BY <1>2, <3>1
    <2> QED
        BY <2>1, <2>2
<1>3. Nat \subseteq Has
    <2> HIDE DEF Has
    <2> QED
        BY <1>1, <1>2, InductionOverSet
<1>4. s \cap (0..N) = s
    OBVIOUS
<1>5. \E x \in s : \A y \in s : x >= y
    BY <1>3, <1>4
<1> QED
    BY <1>5 DEF Max

\* How a fold from the left goes along a set of places.
Folding(h, N, A, base, F) ==
    \A s \in SUBSET (1..N) :
        /\ s = {} => h[s] = base
        /\ s # {} /\ h[s \ {Max(s)}] \in A => h[s] = F[Max(s)][h[s \ {Max(s)}]]

Along(h, N, A, base, F) ==
    /\ \A n \in 0..N : h[1..n] \in A
    /\ h[1..0] = base
    /\ \A n \in 1..N : h[1..n] = F[n][h[1..(n - 1)]]

LEMMA FoldExists ==
    ASSUME NEW A, NEW base \in A, NEW N \in Nat, NEW F \in [1..N -> [A -> A]]
    PROVE  \E h \in [SUBSET (1..N) -> A] : Folding(h, N, A, base, F)
<1> DEFINE Some == {n \in Nat : n <= N => \E h \in [SUBSET (1..n) -> A] : Folding(h, n, A, base, F)}
<1>1. 0 \in Some
    <2> DEFINE h == [s \in SUBSET (1..0) |-> base]
    <2>1. h \in [SUBSET (1..0) -> A] /\ 1..0 = {}
        OBVIOUS
    <2>2. Folding(h, 0, A, base, F)
        BY <2>1 DEF Folding
    <2> HIDE DEF h
    <2> QED
        BY <2>1, <2>2
<1>2. ASSUME NEW n \in Nat, n \in Some PROVE n + 1 \in Some
    <2>0. n <= N => \E h \in [SUBSET (1..n) -> A] : Folding(h, n, A, base, F)
        BY <1>2
    <2> HIDE DEF Some
    <2>02. n + 1 \in Nat
        OBVIOUS
    <2> SUFFICES ASSUME n + 1 <= N
                 PROVE  \E h \in [SUBSET (1..(n + 1)) -> A] : Folding(h, n + 1, A, base, F)
        BY <2>02, Zenon DEF Some
    <2>01. n <= N
        OBVIOUS
    <2>1. PICK f \in [SUBSET (1..n) -> A] : Folding(f, n, A, base, F)
        BY <2>0, <2>01
    <2> DEFINE h == [s \in SUBSET (1..(n + 1)) |->
                        IF n + 1 \in s THEN F[n + 1][f[s \ {n + 1}]] ELSE f[s]]
    <2>2. ASSUME NEW s \in SUBSET (1..(n + 1)) PROVE h[s] \in A
        <3>1. CASE n + 1 \in s
            <4>1. f[s \ {n + 1}] \in A /\ n + 1 \in 1..N
                <5>1. s \ {n + 1} \in SUBSET (1..n)
                    OBVIOUS
                <5> QED
                    BY <5>1
            <4> QED
                BY <3>1, <4>1
        <3>2. CASE n + 1 \notin s
            BY <3>2
        <3> QED
            BY <3>1, <3>2
    <2>3. h \in [SUBSET (1..(n + 1)) -> A]
        BY <2>2
    <2>4. ASSUME NEW s \in SUBSET (1..(n + 1))
          PROVE  h[s] = IF s = {} THEN base ELSE F[Max(s)][h[s \ {Max(s)}]]
        <3>1. CASE n + 1 \in s
            <4>1. Max(s) = n + 1 /\ s \ {Max(s)} \in SUBSET (1..n)
                BY <3>1, MaxOf
            <4>2. h[s] = F[n + 1][f[s \ {n + 1}]]
                BY <3>1
            <4>3. h[s \ {Max(s)}] = f[s \ {Max(s)}]
                BY <4>1
            <4> HIDE DEF h
            <4> QED
                BY <3>1, <4>1, <4>2, <4>3
        <3>2. CASE n + 1 \notin s
            <4>0. \A x \in s : x \in 1..(n + 1) /\ x # n + 1
                BY <3>2
            <4>01. \A x \in s : x \in 1..n
                BY <4>0
            <4>1. s \in SUBSET (1..n) /\ s \ {Max(s)} \in SUBSET (1..n)
                BY <4>01
            <4>2. h[s] = f[s] /\ h[s \ {Max(s)}] = f[s \ {Max(s)}]
                BY <3>2
            <4> HIDE DEF h
            <4> QED
                BY <2>1, <4>1, <4>2 DEF Folding
        <3> QED
            BY <3>1, <3>2
    <2> HIDE DEF h
    <2>5. Folding(h, n + 1, A, base, F)
        BY <2>4 DEF Folding
    <2> QED
        BY <2>3, <2>5
<1>3. N \in Some
    <2> HIDE DEF Some
    <2>1. Nat \subseteq Some
        BY <1>1, <1>2, InductionOverSet
    <2> QED
        BY <2>1
<1>4. N <= N
    OBVIOUS
<1> QED
    BY <1>3, <1>4

LEMMA FoldAlong ==
    ASSUME NEW A, NEW base \in A, NEW N \in Nat, NEW F \in [1..N -> [A -> A]], NEW h,
           Folding(h, N, A, base, F)
    PROVE  Along(h, N, A, base, F)
<1>1. h[1..0] = base
    BY 1..0 = {} DEF Folding
<1>2. ASSUME NEW n \in 1..N, h[1..(n - 1)] \in A PROVE h[1..n] = F[n][h[1..(n - 1)]]
    <2>1. n - 1 \in Nat /\ (n - 1) + 1 = n
        OBVIOUS
    <2>2. Max(1..n) = n
        <3> DEFINE m == n - 1
        <3>1. m \in Nat /\ n = m + 1
            BY <2>1
        <3> HIDE DEF m
        <3>2. Max(1..(m + 1)) = m + 1
            BY <3>1, MaxOf
        <3> QED
            BY <3>1, <3>2
    <2>3. (1..n) \ {n} = 1..(n - 1)
        <3>1. \A x : x \in (1..n) \ {n} <=> x \in 1..(n - 1)
            OBVIOUS
        <3> QED
            BY <3>1
    <2>4. 1..n # {} /\ 1..n \in SUBSET (1..N)
        <3>1. n \in 1..n /\ \A x \in 1..n : x \in 1..N
            OBVIOUS
        <3> QED
            BY <3>1
    <2> QED
        BY <1>2, <2>2, <2>3, <2>4 DEF Folding
<1> DEFINE Typed == {n \in Nat : n <= N => h[1..n] \in A}
<1>3. 0 \in Typed
    BY <1>1
<1>4. ASSUME NEW n \in Nat, n \in Typed PROVE n + 1 \in Typed
    <2> SUFFICES ASSUME n + 1 <= N PROVE h[1..(n + 1)] \in A
        OBVIOUS
    <2>1. n + 1 \in 1..N /\ (n + 1) - 1 = n /\ h[1..n] \in A
        BY <1>4
    <2>2. h[1..(n + 1)] = F[n + 1][h[1..n]]
        BY <1>2, <2>1
    <2> QED
        BY <2>1, <2>2
<1>5. Nat \subseteq Typed
    <2> HIDE DEF Typed
    <2> QED
        BY <1>3, <1>4, InductionOverSet
<1>6. \A n \in 0..N : h[1..n] \in A
    BY <1>5
<1>7. ASSUME NEW n \in 1..N PROVE h[1..n] = F[n][h[1..(n - 1)]]
    <2>1. n - 1 \in 0..N
        OBVIOUS
    <2> QED
        BY <1>2, <1>6, <2>1
<1> QED
    BY <1>1, <1>6, <1>7 DEF Along

-----------------------------------------------------------------------------
(* What is kept of a text.                                                  *)

LEMMA BytesAlong ==
    ASSUME NEW t \in Seq(Nat)
    PROVE  \E h : /\ Bytes(t) = h[1..Len(t)]
                  /\ h[1..0] = 0
                  /\ \A n \in 0..Len(t) : h[1..n] \in Nat
                  /\ \A n \in 1..Len(t) : h[1..n] = h[1..(n - 1)] + t[n]
<1> DEFINE N == Len(t)
           F == [n \in 1..N |-> [a \in Nat |-> a + t[n]]]
           it == CHOOSE h : h = [s \in SUBSET (1..N) |->
                                    IF s = {} THEN 0 ELSE h[s \ {Max(s)}] + t[Max(s)]]
<1>1. N \in Nat /\ DOMAIN t = 1..N /\ \A n \in 1..N : t[n] \in Nat
    OBVIOUS
<1>2. Bytes(t) = it[1..N]
    BY <1>1 DEF Bytes, FoldLeft, MapThenFoldSet
<1>3. F \in [1..N -> [Nat -> Nat]]
    BY <1>1
<1>4. \A a \in Nat, n \in 1..N : F[n][a] = a + t[n]
    OBVIOUS
<1> HIDE DEF F
<1>5. PICK f \in [SUBSET (1..N) -> Nat] : Folding(f, N, Nat, 0, F)
    <2> HIDE DEF N
    <2> QED
        BY <1>1, <1>3, FoldExists
<1>6. ASSUME NEW s \in SUBSET (1..N)
      PROVE  f[s] = IF s = {} THEN 0 ELSE f[s \ {Max(s)}] + t[Max(s)]
    <2>1. CASE s = {}
        BY <1>5, <2>1 DEF Folding
    <2>2. CASE s # {}
        <3>1. Max(s) \in 1..N
            <4>1. s \in SUBSET (0..N)
                BY <1>1
            <4> QED
                BY <1>1, <2>2, <4>1, MaxIn
        <3>2. s \ {Max(s)} \in SUBSET (1..N)
            OBVIOUS
        <3>3. f[s \ {Max(s)}] \in Nat
            BY <3>2
        <3>4. F[Max(s)][f[s \ {Max(s)}]] = f[s \ {Max(s)}] + t[Max(s)]
            BY <1>4, <3>1, <3>3
        <3> QED
            BY <1>5, <2>2, <3>4 DEF Folding
    <2> QED
        BY <2>1, <2>2
<1>7. f = [s \in SUBSET (1..N) |-> IF s = {} THEN 0 ELSE f[s \ {Max(s)}] + t[Max(s)]]
    BY <1>6
<1>8. it = [s \in SUBSET (1..N) |-> IF s = {} THEN 0 ELSE it[s \ {Max(s)}] + t[Max(s)]]
    BY <1>7
<1> HIDE DEF it
<1>9. Folding(it, N, Nat, 0, F)
    <2> SUFFICES ASSUME NEW s \in SUBSET (1..N), s # {}, it[s \ {Max(s)}] \in Nat
                 PROVE  it[s] = F[Max(s)][it[s \ {Max(s)}]]
        BY <1>8 DEF Folding
    <2>1. Max(s) \in 1..N
        <3>1. s \in SUBSET (0..N)
            BY <1>1
        <3> QED
            BY <1>1, <3>1, MaxIn
    <2>2. it[s] = it[s \ {Max(s)}] + t[Max(s)]
        BY <1>8
    <2> QED
        BY <1>4, <2>1, <2>2
<1>10. Along(it, N, Nat, 0, F)
    <2> HIDE DEF N
    <2> QED
        BY <1>1, <1>3, <1>9, FoldAlong
<1>11. ASSUME NEW n \in 1..N PROVE it[1..n] = it[1..(n - 1)] + t[n]
    <2>1. n - 1 \in 0..N
        BY <1>1
    <2> QED
        BY <1>4, <1>10, <2>1 DEF Along
<1> QED
    BY <1>2, <1>10, <1>11 DEF Along

LEMMA BytesGrow ==
    ASSUME NEW t \in Seq(Nat)
    PROVE  /\ Bytes(SubSeq(t, 1, 0)) = 0
           /\ \A n \in 0..Len(t) : Bytes(SubSeq(t, 1, n)) \in Nat
           /\ \A n \in 1..Len(t) : Bytes(SubSeq(t, 1, n)) = Bytes(SubSeq(t, 1, n - 1)) + t[n]
<1>0. Len(t) \in Nat
    OBVIOUS
<1>1. PICK h : /\ Bytes(t) = h[1..Len(t)]
               /\ h[1..0] = 0
               /\ \A n \in 0..Len(t) : h[1..n] \in Nat
               /\ \A n \in 1..Len(t) : h[1..n] = h[1..(n - 1)] + t[n]
    BY BytesAlong
<1>2. ASSUME NEW n \in 0..Len(t) PROVE Bytes(SubSeq(t, 1, n)) = h[1..n]
    <2> DEFINE u == SubSeq(t, 1, n)
    <2>1. u \in Seq(Nat) /\ Len(u) = n /\ \A k \in 1..n : u[k] = t[k]
        BY <1>0, SubSeqProperties
    <2> HIDE DEF u
    <2>2. PICK g : /\ Bytes(u) = g[1..n]
                   /\ g[1..0] = 0
                   /\ \A k \in 1..n : g[1..k] = g[1..(k - 1)] + u[k]
        BY <2>1, BytesAlong
    <2> DEFINE Same == {k \in Nat : k <= n => g[1..k] = h[1..k]}
    <2>3. 0 \in Same
        BY <1>1, <2>2
    <2>4. ASSUME NEW k \in Nat, k \in Same PROVE k + 1 \in Same
        <3> SUFFICES ASSUME k + 1 <= n PROVE g[1..(k + 1)] = h[1..(k + 1)]
            OBVIOUS
        <3>1. k + 1 \in 1..n /\ k + 1 \in 1..Len(t) /\ (k + 1) - 1 = k /\ g[1..k] = h[1..k]
            BY <1>0, <2>4
        <3>2. g[1..(k + 1)] = g[1..k] + u[k + 1]
            BY <2>2, <3>1
        <3>3. h[1..(k + 1)] = h[1..k] + t[k + 1]
            BY <1>1, <3>1
        <3> QED
            BY <2>1, <3>1, <3>2, <3>3
    <2>5. Nat \subseteq Same
        <3> HIDE DEF Same
        <3> QED
            BY <2>3, <2>4, InductionOverSet
    <2>6. n \in Nat /\ n <= n
        BY <1>0
    <2> QED
        BY <2>2, <2>5, <2>6 DEF u
<1>3. 0 \in 0..Len(t) /\ \A n \in 1..Len(t) : n \in 0..Len(t) /\ n - 1 \in 0..Len(t)
    BY <1>0
<1> QED
    BY <1>1, <1>2, <1>3

\* What truncate_utf8 makes of a text that is too long: a beginning that fits,
\* and as much as fits, with the marker behind it.
LEMMA TruncateIs ==
    ASSUME NEW t \in Seq(Nat), ~(Bytes(t) <= OutputBytes)
    PROVE  /\ IsTruncated(t)
           /\ \E n \in 1..Len(t) : /\ TruncateUtf8(t) = SubSeq(t, 1, n - 1) \o Marker
                                   /\ Bytes(SubSeq(t, 1, n - 1)) <= OutputBytes
                                   /\ Bytes(SubSeq(t, 1, n)) > OutputBytes
<1>0. Len(t) \in Nat
    OBVIOUS
<1>01. SubSeq(t, 1, Len(t)) = t
    OBVIOUS
<1> DEFINE s == {n \in 0..Len(t) : Bytes(SubSeq(t, 1, n)) <= OutputBytes}
           m == Max(s)
<1>1. 0 \in s /\ s \in SUBSET (0..Len(t))
    BY <1>0, BytesGrow, RunCommandAssumption
<1>2. m \in s /\ \A y \in s : m >= y
    <2> HIDE DEF s
    <2> QED
        BY <1>0, <1>1, MaxIn
<1>3. TruncateUtf8(t) = SubSeq(t, 1, m) \o Marker
    BY DEF TruncateUtf8
<1>4. m \in 0..Len(t) /\ Bytes(SubSeq(t, 1, m)) <= OutputBytes
    BY <1>2
<1>5. m + 1 \in 0..Len(t) => ~(Bytes(SubSeq(t, 1, m + 1)) <= OutputBytes)
    BY <1>2
<1>6. \A n \in 0..Len(t) : Bytes(SubSeq(t, 1, n)) \in Nat
    BY BytesGrow
<1> HIDE DEF s, m
<1>7. m # Len(t)
    BY <1>01, <1>4
<1>8. m + 1 \in 1..Len(t) /\ (m + 1) - 1 = m /\ m + 1 \in 0..Len(t)
    BY <1>0, <1>4, <1>7
<1>9. Bytes(SubSeq(t, 1, m + 1)) > OutputBytes
    BY <1>5, <1>6, <1>8, RunCommandAssumption
<1>10. Bytes(t) > OutputBytes
    <2>0. Len(t) \in 0..Len(t)
        BY <1>0
    <2>1. Bytes(t) \in Nat
        BY <1>01, <1>6, <2>0
    <2> QED
        BY <2>1, RunCommandAssumption
<1> QED
    BY <1>3, <1>4, <1>8, <1>9, <1>10 DEF IsTruncated

LEMMA LossyIs ==
    ASSUME NEW t \in Seq(Widths)
    PROVE  FromUtf8Lossy(t) \in Seq(Nat)
<1>1. Len(t) \in Nat /\ DOMAIN t = 1..Len(t) /\ \A n \in 1..Len(t) : t[n] \in Widths
    OBVIOUS
<1>2. \A n \in 1..Len(t) : (IF t[n] = 0 THEN 3 ELSE t[n]) \in Nat
    <2>1. Widths \subseteq Nat
        BY RunCommandAssumption
    <2>2. \A n \in 1..Len(t) : t[n] \in Nat
        BY <1>1, <2>1
    <2> QED
        BY <2>2
<1> QED
    BY <1>1, <1>2 DEF FromUtf8Lossy

\* An answer that did not time out has each output to its end, with what is no
\* character replaced; or, if that is more than the limit, as much of it as fits,
\* cut between characters, with the marker behind it, and says so
\* (run_command_line, truncate_utf8).
THEOREM AnswerIsTrueTheorem == Spec => []AnswerIsTrue
<1>1. FlowInv /\ AnswerOfAll => AnswerIsTrue
    <2> SUFFICES ASSUME FlowInv, AnswerOfAll, call = "answered", ~result.timed_out
                 PROVE  AnswerIsTrue
        BY DEF AnswerIsTrue
    <2> DEFINE text(s) == FromUtf8Lossy(output[s])
    <2>1. /\ result.stdout = TruncateUtf8(text("stdout"))
          /\ result.stderr = TruncateUtf8(text("stderr"))
          /\ result.truncated <=> \E s \in Streams : IsTruncated(text(s))
        BY DEF AnswerOfAll
    <2>2. \A s \in Streams : text(s) \in Seq(Nat)
        BY LossyIs DEF FlowInv
    <2>3. "stdout" \in Streams /\ "stderr" \in Streams
        BY DEF Streams
    <2> HIDE DEF text
    <2>4. \A s \in Streams : Bytes(text(s)) <= OutputBytes => TruncateUtf8(text(s)) = text(s)
        BY DEF TruncateUtf8
    <2>5. \A s \in Streams : ~(Bytes(text(s)) <= OutputBytes) =>
             \E n \in 1..Len(text(s)) :
                 /\ TruncateUtf8(text(s)) = SubSeq(text(s), 1, n - 1) \o Marker
                 /\ Bytes(SubSeq(text(s), 1, n - 1)) <= OutputBytes
                 /\ Bytes(SubSeq(text(s), 1, n)) > OutputBytes
        BY <2>2, TruncateIs
    <2>6. \A s \in Streams : IsTruncated(text(s)) <=> Bytes(text(s)) > OutputBytes
        BY DEF IsTruncated
    <2>7. result.truncated <=> \E s \in Streams : Bytes(text(s)) > OutputBytes
        BY <2>1, <2>6
    <2> QED
        BY <2>1, <2>3, <2>4, <2>5, <2>7 DEF AnswerIsTrue, text
<1> QED
    BY <1>1, FlowHolds, PTL
=============================================================================
