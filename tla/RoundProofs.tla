----------------------------- MODULE RoundProofs -----------------------------
(***************************************************************************)
(* What ContextAssembly makes of the stored rows of a turn, for every number *)
(* of rows, every loss of them and all identifiers: what a provider accepts, *)
(* and what tells the turn.  And what ToolCallDeltas makes of the deltas of  *)
(* a round, for any number of calls and attempts: the calls that were asked  *)
(* for, which are read back as they were run.  And what AnswerBlocks shows   *)
(* of a turn that is opened again, for any number of rounds and of rows      *)
(* lost: what it showed live.                                                *)
(*                                                                         *)
(* Merging and validating are folds along the rows and the messages.  The  *)
(* lemmas go from the step of a fold to all of it: what a merged message is *)
(* told of (Placed), which messages are left (Selects), what rows a turn can *)
(* have (RowsInv), what a reader sees after a row (Follows).                 *)
(***************************************************************************)
EXTENDS MCRound, SequenceTheorems, FiniteSetTheorems, NaturalsInduction,
        WellFoundedInduction, TLAPS

-----------------------------------------------------------------------------
(* What a fold from the left computes, along the places of a sequence.      *)

LEMMA InductionOverSet ==
    ASSUME NEW S, 0 \in S, \A n \in Nat : n \in S => n + 1 \in S
    PROVE  Nat \subseteq S
<1> DEFINE T == Nat \ S  R == {x \in Nat \X Nat : x[1] < x[2]}
<1> SUFFICES ASSUME T # {} PROVE FALSE
    OBVIOUS
<1>1. IsWellFoundedOn(R, Nat)
    BY NatLessThanWellFounded DEF OpToRel
<1>2. PICK x \in T : \A y \in T : ~ (<<y, x>> \in R)
    <2> HIDE DEF R
    <2> QED
    BY <1>1, WFMin
<1>3. x # 0 /\ x - 1 \in Nat
    OBVIOUS
<1>4. <<x - 1, x>> \in R
    BY <1>3
<1>5. x - 1 \in S
    BY <1>2, <1>3, <1>4
<1> QED
    BY <1>3, <1>5

LEMMA MaxOf ==
    ASSUME NEW n \in Nat, NEW s \in SUBSET (1..(n + 1)), n + 1 \in s
    PROVE  Max(s) = n + 1 /\ s \ {Max(s)} \in SUBSET (1..n)
<1>1. \A x \in s : x \in Nat /\ x <= n + 1
    OBVIOUS
<1>2. \A x \in s : (\A y \in s : x >= y) => x = n + 1
    BY <1>1
<1>3. \A y \in s : n + 1 >= y
    BY <1>1
<1>4. Max(s) \in s /\ \A y \in s : Max(s) >= y
    BY <1>3 DEF Max
<1>5. Max(s) = n + 1
    BY <1>2, <1>4
<1> QED
    BY <1>5

LEMMA MaxIn ==
    ASSUME NEW N \in Nat, NEW s \in SUBSET (0..N), s # {}
    PROVE  Max(s) \in s /\ \A y \in s : Max(s) >= y
<1> DEFINE Has == {n \in Nat : s \cap (0..n) # {} =>
                                  \E x \in s : \A y \in s \cap (0..n) : x >= y}
<1>1. 0 \in Has
    OBVIOUS
<1>2. ASSUME NEW n \in Nat, n \in Has PROVE n + 1 \in Has
    <2>1. CASE n + 1 \in s
        BY <2>1
    <2>2. CASE n + 1 \notin s
        <3>1. s \cap (0..(n + 1)) = s \cap (0..n)
            BY <2>2
        <3> QED
            BY <1>2, <3>1
    <2> QED
        BY <2>1, <2>2
<1>3. Nat \subseteq Has
    <2> HIDE DEF Has
    <2> QED
        BY <1>1, <1>2, InductionOverSet
<1>4. s \cap (0..N) = s
    OBVIOUS
<1>5. \E x \in s : \A y \in s : x >= y
    BY <1>3, <1>4
<1> QED
    BY <1>5 DEF Max

\* How a fold from the left goes along a set of places.
Folding(h, N, A, base, F) ==
    \A s \in SUBSET (1..N) :
        /\ s = {} => h[s] = base
        /\ s # {} /\ h[s \ {Max(s)}] \in A => h[s] = F[Max(s)][h[s \ {Max(s)}]]

Along(h, N, A, base, F) ==
    /\ \A n \in 0..N : h[1..n] \in A
    /\ h[1..0] = base
    /\ \A n \in 1..N : h[1..n] = F[n][h[1..(n - 1)]]

LEMMA FoldExists ==
    ASSUME NEW A, NEW base \in A, NEW N \in Nat, NEW F \in [1..N -> [A -> A]]
    PROVE  \E h \in [SUBSET (1..N) -> A] : Folding(h, N, A, base, F)
<1> DEFINE Some == {n \in Nat : n <= N => \E h \in [SUBSET (1..n) -> A] : Folding(h, n, A, base, F)}
<1>1. 0 \in Some
    <2> DEFINE h == [s \in SUBSET (1..0) |-> base]
    <2>1. h \in [SUBSET (1..0) -> A] /\ 1..0 = {}
        OBVIOUS
    <2>2. Folding(h, 0, A, base, F)
        BY <2>1 DEF Folding
    <2> HIDE DEF h
    <2> QED
        BY <2>1, <2>2
<1>2. ASSUME NEW n \in Nat, n \in Some PROVE n + 1 \in Some
    <2>0. n <= N => \E h \in [SUBSET (1..n) -> A] : Folding(h, n, A, base, F)
        BY <1>2
    <2> HIDE DEF Some
    <2>02. n + 1 \in Nat
        OBVIOUS
    <2> SUFFICES ASSUME n + 1 <= N
                 PROVE  \E h \in [SUBSET (1..(n + 1)) -> A] : Folding(h, n + 1, A, base, F)
        BY <2>02, Zenon DEF Some
    <2>01. n <= N
        OBVIOUS
    <2>1. PICK f \in [SUBSET (1..n) -> A] : Folding(f, n, A, base, F)
        BY <2>0, <2>01
    <2> DEFINE h == [s \in SUBSET (1..(n + 1)) |->
                        IF n + 1 \in s THEN F[n + 1][f[s \ {n + 1}]] ELSE f[s]]
    <2>2. ASSUME NEW s \in SUBSET (1..(n + 1)) PROVE h[s] \in A
        <3>1. CASE n + 1 \in s
            <4>1. f[s \ {n + 1}] \in A /\ n + 1 \in 1..N
                <5>1. s \ {n + 1} \in SUBSET (1..n)
                    OBVIOUS
                <5> QED
                    BY <5>1
            <4> QED
                BY <3>1, <4>1
        <3>2. CASE n + 1 \notin s
            BY <3>2
        <3> QED
            BY <3>1, <3>2
    <2>3. h \in [SUBSET (1..(n + 1)) -> A]
        BY <2>2
    <2>4. ASSUME NEW s \in SUBSET (1..(n + 1))
          PROVE  h[s] = IF s = {} THEN base ELSE F[Max(s)][h[s \ {Max(s)}]]
        <3>1. CASE n + 1 \in s
            <4>1. Max(s) = n + 1 /\ s \ {Max(s)} \in SUBSET (1..n)
                BY <3>1, MaxOf
            <4>2. h[s] = F[n + 1][f[s \ {n + 1}]]
                BY <3>1
            <4>3. h[s \ {Max(s)}] = f[s \ {Max(s)}]
                BY <4>1
            <4> HIDE DEF h
            <4> QED
                BY <3>1, <4>1, <4>2, <4>3
        <3>2. CASE n + 1 \notin s
            <4>0. \A x \in s : x \in 1..(n + 1) /\ x # n + 1
                BY <3>2
            <4>01. \A x \in s : x \in 1..n
                BY <4>0
            <4>1. s \in SUBSET (1..n) /\ s \ {Max(s)} \in SUBSET (1..n)
                BY <4>01
            <4>2. h[s] = f[s] /\ h[s \ {Max(s)}] = f[s \ {Max(s)}]
                BY <3>2
            <4> HIDE DEF h
            <4> QED
                BY <2>1, <4>1, <4>2 DEF Folding
        <3> QED
            BY <3>1, <3>2
    <2> HIDE DEF h
    <2>5. Folding(h, n + 1, A, base, F)
        BY <2>4 DEF Folding
    <2> QED
        BY <2>3, <2>5
<1>3. N \in Some
    <2> HIDE DEF Some
    <2>1. Nat \subseteq Some
        BY <1>1, <1>2, InductionOverSet
    <2> QED
        BY <2>1
<1>4. N <= N
    OBVIOUS
<1> QED
    BY <1>3, <1>4

LEMMA FoldAlong ==
    ASSUME NEW A, NEW base \in A, NEW N \in Nat, NEW F \in [1..N -> [A -> A]], NEW h,
           Folding(h, N, A, base, F)
    PROVE  Along(h, N, A, base, F)
<1>1. h[1..0] = base
    BY 1..0 = {} DEF Folding
<1>2. ASSUME NEW n \in 1..N, h[1..(n - 1)] \in A PROVE h[1..n] = F[n][h[1..(n - 1)]]
    <2>1. n - 1 \in Nat /\ (n - 1) + 1 = n
        OBVIOUS
    <2>2. Max(1..n) = n
        <3> DEFINE m == n - 1
        <3>1. m \in Nat /\ n = m + 1
            BY <2>1
        <3> HIDE DEF m
        <3>2. Max(1..(m + 1)) = m + 1
            BY <3>1, MaxOf
        <3> QED
            BY <3>1, <3>2
    <2>3. (1..n) \ {n} = 1..(n - 1)
        <3>1. \A x : x \in (1..n) \ {n} <=> x \in 1..(n - 1)
            OBVIOUS
        <3> QED
            BY <3>1
    <2>4. 1..n # {} /\ 1..n \in SUBSET (1..N)
        <3>1. n \in 1..n /\ \A x \in 1..n : x \in 1..N
            OBVIOUS
        <3> QED
            BY <3>1
    <2> QED
        BY <1>2, <2>2, <2>3, <2>4 DEF Folding
<1> DEFINE Typed == {n \in Nat : n <= N => h[1..n] \in A}
<1>3. 0 \in Typed
    BY <1>1
<1>4. ASSUME NEW n \in Nat, n \in Typed PROVE n + 1 \in Typed
    <2> SUFFICES ASSUME n + 1 <= N PROVE h[1..(n + 1)] \in A
        OBVIOUS
    <2>1. n + 1 \in 1..N /\ (n + 1) - 1 = n /\ h[1..n] \in A
        BY <1>4
    <2>2. h[1..(n + 1)] = F[n + 1][h[1..n]]
        BY <1>2, <2>1
    <2> QED
        BY <2>1, <2>2
<1>5. Nat \subseteq Typed
    <2> HIDE DEF Typed
    <2> QED
        BY <1>3, <1>4, InductionOverSet
<1>6. \A n \in 0..N : h[1..n] \in A
    BY <1>5
<1>7. ASSUME NEW n \in 1..N PROVE h[1..n] = F[n][h[1..(n - 1)]]
    <2>1. n - 1 \in 0..N
        OBVIOUS
    <2> QED
        BY <1>2, <1>6, <2>1
<1> QED
    BY <1>1, <1>6, <1>7 DEF Along


-----------------------------------------------------------------------------
(* The two folds, one record and one message at a time.                     *)

NothingYet == [out |-> <<>>, allowed |-> {}]

LEMMA ValidatedAlong ==
  ASSUME NEW A, NEW S, NEW messages \in Seq(S), NothingYet \in A,
         \A k \in 1 .. Len(messages), acc \in A : Validate(messages, acc, k) \in A
  PROVE  \E st : /\ st[0] = NothingYet
                 /\ \A n \in 0 .. Len(messages) : st[n] \in A
                 /\ \A n \in 1 .. Len(messages) : st[n] = Validate(messages, st[n - 1], n)
                 /\ ValidMessages(messages) = st[Len(messages)].out
<1> DEFINE N == Len(messages)
           F == [n \in 1..N |-> [a \in A |-> Validate(messages, a, n)]]
           ks == [k \in DOMAIN messages |-> k]
           it == CHOOSE h : h = [s \in SUBSET (1..N) |->
                    IF s = {} THEN NothingYet ELSE Validate(messages, h[s \ {Max(s)}], ks[Max(s)])]
<1>1. N \in Nat /\ DOMAIN messages = 1..N /\ DOMAIN ks = 1..N
    OBVIOUS
<1>2. ValidMessages(messages) = it[1..N].out
    BY <1>1 DEF ValidMessages, FoldLeft, MapThenFoldSet, NothingYet
<1>3. F \in [1..N -> [A -> A]]
    OBVIOUS
<1>4. \A a \in A, n \in 1..N : F[n][a] = Validate(messages, a, n) /\ ks[n] = n
    BY <1>1
<1> HIDE DEF F, ks
<1>5. PICK f \in [SUBSET (1..N) -> A] : Folding(f, N, A, NothingYet, F)
    <2> HIDE DEF N
    <2> QED
        BY <1>1, <1>3, FoldExists
<1>6. ASSUME NEW s \in SUBSET (1..N), s # {}
      PROVE  Max(s) \in 1..N
    <2>1. s \in SUBSET (0..N)
        BY <1>1
    <2> QED
        BY <1>1, <1>6, <2>1, MaxIn
<1>7. ASSUME NEW s \in SUBSET (1..N)
      PROVE  f[s] = IF s = {} THEN NothingYet
                    ELSE Validate(messages, f[s \ {Max(s)}], ks[Max(s)])
    <2>1. CASE s = {}
        BY <1>5, <2>1 DEF Folding
    <2>2. CASE s # {}
        <3>1. s \ {Max(s)} \in SUBSET (1..N)
            OBVIOUS
        <3>2. f[s \ {Max(s)}] \in A /\ Max(s) \in 1..N
            BY <1>6, <2>2, <3>1
        <3> QED
            <4>1. f[s] = F[Max(s)][f[s \ {Max(s)}]]
                BY <1>5, <2>2, <3>2 DEF Folding
            <4> QED
                BY <1>4, <2>2, <3>2, <4>1
    <2> QED
        BY <2>1, <2>2
<1>8. f = [s \in SUBSET (1..N) |-> IF s = {} THEN NothingYet
             ELSE Validate(messages, f[s \ {Max(s)}], ks[Max(s)])]
    BY <1>7
<1>9. it = [s \in SUBSET (1..N) |-> IF s = {} THEN NothingYet
             ELSE Validate(messages, it[s \ {Max(s)}], ks[Max(s)])]
    BY <1>8
<1> HIDE DEF it
<1>10. Folding(it, N, A, NothingYet, F)
    <2> SUFFICES ASSUME NEW s \in SUBSET (1..N), s # {}, it[s \ {Max(s)}] \in A
                 PROVE  it[s] = F[Max(s)][it[s \ {Max(s)}]]
        BY <1>9 DEF Folding
    <2>1. it[s] = Validate(messages, it[s \ {Max(s)}], ks[Max(s)])
        BY <1>9
    <2> QED
        BY <1>4, <1>6, <2>1
<1>11. Along(it, N, A, NothingYet, F)
    <2> HIDE DEF N
    <2> QED
        BY <1>1, <1>3, <1>10, FoldAlong
<1> DEFINE st == [n \in 0..N |-> it[1..n]]
<1>12. /\ st[0] = NothingYet
       /\ \A n \in 0..N : st[n] \in A
    BY <1>1, <1>11 DEF Along
<1>13. ASSUME NEW n \in 1..N PROVE st[n] = Validate(messages, st[n - 1], n)
    <2>1. n - 1 \in 0..N /\ n \in 0..N
        BY <1>1
    <2>2. st[n] = F[n][it[1..(n - 1)]] /\ it[1..(n - 1)] \in A /\ st[n - 1] = it[1..(n - 1)]
        BY <1>11, <2>1 DEF Along
    <2> QED
        BY <1>4, <2>2
<1>14. st[N] = it[1..N]
    BY <1>1
<1> HIDE DEF st
<1> QED
    BY <1>2, <1>12, <1>13, <1>14

NoMessages == [messages |-> <<>>, pending |-> NoPending]

LEMMA MergedAlong ==
  ASSUME NEW A, NEW S, NEW records \in Seq(S), NoMessages \in A,
         \A k \in 1 .. Len(records), acc \in A : Merge(records, UsesTools(records), acc, k) \in A
  PROVE  \E st : /\ st[0] = NoMessages
                 /\ \A n \in 0 .. Len(records) : st[n] \in A
                 /\ \A n \in 1 .. Len(records) : st[n] = Merge(records, UsesTools(records), st[n - 1], n)
                 /\ MergedMessages(records) = Flush(st[Len(records)].messages, st[Len(records)].pending)
<1> DEFINE N == Len(records)
           F == [n \in 1..N |-> [a \in A |-> Merge(records, UsesTools(records), a, n)]]
           ks == [k \in DOMAIN records |-> k]
           it == CHOOSE h : h = [s \in SUBSET (1..N) |->
                    IF s = {} THEN NoMessages ELSE Merge(records, UsesTools(records), h[s \ {Max(s)}], ks[Max(s)])]
<1>1. N \in Nat /\ DOMAIN records = 1..N /\ DOMAIN ks = 1..N
    OBVIOUS
<1>2. MergedMessages(records) = Flush(it[1..N].messages, it[1..N].pending)
    BY <1>1 DEF MergedMessages, FoldLeft, MapThenFoldSet, NoMessages
<1>3. F \in [1..N -> [A -> A]]
    OBVIOUS
<1>4. \A a \in A, n \in 1..N : F[n][a] = Merge(records, UsesTools(records), a, n) /\ ks[n] = n
    BY <1>1
<1> HIDE DEF F, ks
<1>5. PICK f \in [SUBSET (1..N) -> A] : Folding(f, N, A, NoMessages, F)
    <2> HIDE DEF N
    <2> QED
        BY <1>1, <1>3, FoldExists
<1>6. ASSUME NEW s \in SUBSET (1..N), s # {}
      PROVE  Max(s) \in 1..N
    <2>1. s \in SUBSET (0..N)
        BY <1>1
    <2> QED
        BY <1>1, <1>6, <2>1, MaxIn
<1>7. ASSUME NEW s \in SUBSET (1..N)
      PROVE  f[s] = IF s = {} THEN NoMessages
                    ELSE Merge(records, UsesTools(records), f[s \ {Max(s)}], ks[Max(s)])
    <2>1. CASE s = {}
        BY <1>5, <2>1 DEF Folding
    <2>2. CASE s # {}
        <3>1. s \ {Max(s)} \in SUBSET (1..N)
            OBVIOUS
        <3>2. f[s \ {Max(s)}] \in A /\ Max(s) \in 1..N
            BY <1>6, <2>2, <3>1
        <3> QED
            <4>1. f[s] = F[Max(s)][f[s \ {Max(s)}]]
                BY <1>5, <2>2, <3>2 DEF Folding
            <4> QED
                BY <1>4, <2>2, <3>2, <4>1
    <2> QED
        BY <2>1, <2>2
<1>8. f = [s \in SUBSET (1..N) |-> IF s = {} THEN NoMessages
             ELSE Merge(records, UsesTools(records), f[s \ {Max(s)}], ks[Max(s)])]
    BY <1>7
<1>9. it = [s \in SUBSET (1..N) |-> IF s = {} THEN NoMessages
             ELSE Merge(records, UsesTools(records), it[s \ {Max(s)}], ks[Max(s)])]
    BY <1>8
<1> HIDE DEF it
<1>10. Folding(it, N, A, NoMessages, F)
    <2> SUFFICES ASSUME NEW s \in SUBSET (1..N), s # {}, it[s \ {Max(s)}] \in A
                 PROVE  it[s] = F[Max(s)][it[s \ {Max(s)}]]
        BY <1>9 DEF Folding
    <2>1. it[s] = Merge(records, UsesTools(records), it[s \ {Max(s)}], ks[Max(s)])
        BY <1>9
    <2> QED
        BY <1>4, <1>6, <2>1
<1>11. Along(it, N, A, NoMessages, F)
    <2> HIDE DEF N
    <2> QED
        BY <1>1, <1>3, <1>10, FoldAlong
<1> DEFINE st == [n \in 0..N |-> it[1..n]]
<1>12. /\ st[0] = NoMessages
       /\ \A n \in 0..N : st[n] \in A
    BY <1>1, <1>11 DEF Along
<1>13. ASSUME NEW n \in 1..N PROVE st[n] = Merge(records, UsesTools(records), st[n - 1], n)
    <2>1. n - 1 \in 0..N /\ n \in 0..N
        BY <1>1
    <2>2. st[n] = F[n][it[1..(n - 1)]] /\ it[1..(n - 1)] \in A /\ st[n - 1] = it[1..(n - 1)]
        BY <1>11, <2>1 DEF Along
    <2> QED
        BY <1>4, <2>2
<1>14. st[N] = it[1..N]
    BY <1>1
<1> HIDE DEF st
<1> QED
    BY <1>2, <1>12, <1>13, <1>14

-----------------------------------------------------------------------------
(* What is left of the messages of a turn.                                  *)

MessageType ==
  [role : {"user", "assistant", "tool"}, calls : UNION {[S -> Seq(Nat)] : S \in SUBSET Ids},
   id : Ids \cup {NoId}, from : SUBSET Nat]

\* An assistant message all of whose calls are answered behind it.
Opens(messages, k) ==
  /\ messages[k].role = "assistant" /\ messages[k].calls # NoCalls
  /\ DOMAIN messages[k].calls \subseteq FollowingIds(messages, k)

\* The calls whose results may still come behind place n.
Awaited(messages, n) ==
  {id \in Ids : \E k \in 1 .. n :
     /\ Opens(messages, k) /\ id \in DOMAIN messages[k].calls
     /\ \A m \in k + 1 .. n : messages[m].role = "tool" /\ messages[m].id # id}

Kept(messages, i) ==
  /\ messages[i].role = "tool" => messages[i].id \in Awaited(messages, i - 1)
  /\ messages[i].role = "assistant" /\ messages[i].calls # NoCalls => Opens(messages, i)

\* sel names the places of what is left of the first n messages.
Selects(out, messages, n, sel) ==
  /\ sel \in [1 .. Len(out) -> 1 .. n]
  /\ \A i, j \in 1 .. Len(out) : i < j => sel[i] < sel[j]
  /\ \A j \in 1 .. Len(out) : out[j] = messages[sel[j]] /\ Kept(messages, sel[j])
  /\ \A i \in 1 .. n : Kept(messages, i) => \E j \in 1 .. Len(out) : sel[j] = i

LEMMA AwaitedStep ==
  ASSUME NEW messages \in Seq(MessageType), NEW n \in 1 .. Len(messages)
  PROVE  Awaited(messages, n) =
           IF Opens(messages, n) THEN DOMAIN messages[n].calls
           ELSE IF messages[n].role = "tool" THEN Awaited(messages, n - 1) \ {messages[n].id}
           ELSE {}
<1>0. messages[n] \in MessageType /\ n \in Nat /\ n - 1 \in Nat
  OBVIOUS
<1>1. DOMAIN messages[n].calls \subseteq Ids
  BY <1>0 DEF MessageType
<1>2. CASE Opens(messages, n)
  <2>1. messages[n].role # "tool"
    BY <1>2 DEF Opens
  <2>2. ASSUME NEW id \in Ids
        PROVE  id \in Awaited(messages, n) <=> id \in DOMAIN messages[n].calls
    <3>1. ASSUME NEW k \in 1 .. n, k # n
          PROVE  ~ \A m \in k + 1 .. n : messages[m].role = "tool" /\ messages[m].id # id
      <4>1. n \in k + 1 .. n
        BY <1>0, <3>1
      <4> QED
        BY <2>1, <4>1
    <3>2. n \in 1 .. n /\ n + 1 .. n = {}
      BY <1>0
    <3> QED
      BY <1>2, <3>1, <3>2 DEF Awaited
  <2>3. Awaited(messages, n) \subseteq Ids
    BY DEF Awaited
  <2> QED
    BY <1>1, <1>2, <2>2, <2>3
<1>3. CASE ~Opens(messages, n) /\ messages[n].role = "tool"
  <2>1. ASSUME NEW id \in Ids
        PROVE  id \in Awaited(messages, n)
                 <=> id \in Awaited(messages, n - 1) /\ id # messages[n].id
    <3>1. ASSUME NEW k \in 1 .. n, Opens(messages, k)
          PROVE  /\ k \in 1 .. n - 1
                 /\ (\A m \in k + 1 .. n : messages[m].role = "tool" /\ messages[m].id # id)
                      <=> /\ \A m \in k + 1 .. n - 1 : messages[m].role = "tool" /\ messages[m].id # id
                          /\ id # messages[n].id
      <4>1. k # n
        BY <1>3, <3>1
      <4>2. \A m : m \in k + 1 .. n <=> m \in k + 1 .. n - 1 \/ m = n
        BY <1>0, <4>1
      <4>3. k \in 1 .. n - 1
        BY <1>0, <4>1
      <4> QED
        BY <1>3, <4>2, <4>3
    <3>2. \A k \in 1 .. n - 1 : k \in 1 .. n
      BY <1>0
    <3> QED
      BY <3>1, <3>2 DEF Awaited
  <2>2. Awaited(messages, n) \subseteq Ids /\ Awaited(messages, n - 1) \subseteq Ids
    BY DEF Awaited
  <2> QED
    BY <1>3, <2>1, <2>2
<1>4. CASE ~Opens(messages, n) /\ messages[n].role # "tool"
  <2>1. ASSUME NEW id \in Ids, id \in Awaited(messages, n) PROVE FALSE
    <3>1. PICK k \in 1 .. n : /\ Opens(messages, k)
                              /\ \A m \in k + 1 .. n : messages[m].role = "tool"
      BY <2>1 DEF Awaited
    <3>2. k # n => n \in k + 1 .. n
      BY <1>0
    <3> QED
      BY <1>4, <3>1, <3>2
  <2>2. Awaited(messages, n) \subseteq Ids
    BY DEF Awaited
  <2> QED
    BY <1>4, <2>1, <2>2
<1> QED
  BY <1>2, <1>3, <1>4

LEMMA SelectsMore ==
  ASSUME NEW messages \in Seq(MessageType), NEW n \in 1 .. Len(messages),
         NEW out \in Seq(MessageType), NEW sel, Selects(out, messages, n - 1, sel)
  PROVE  /\ Kept(messages, n) => \E s : Selects(Append(out, messages[n]), messages, n, s)
         /\ ~Kept(messages, n) => Selects(out, messages, n, sel)
<1>0. /\ n \in Nat /\ n - 1 \in Nat /\ Len(out) \in Nat /\ messages[n] \in MessageType
      /\ \A i : i \in 1 .. n <=> i \in 1 .. n - 1 \/ i = n
      /\ \A i \in 1 .. n - 1 : i < n
  OBVIOUS
<1>1. CASE Kept(messages, n)
  <2> DEFINE more == Append(out, messages[n])
             s == [j \in 1 .. Len(out) + 1 |-> IF j = Len(out) + 1 THEN n ELSE sel[j]]
  <2>1. /\ Len(more) = Len(out) + 1 /\ more[Len(out) + 1] = messages[n]
        /\ \A j \in 1 .. Len(out) : more[j] = out[j]
    BY <1>0, AppendProperties
  <2>2. /\ \A j : j \in 1 .. Len(more) <=> j \in 1 .. Len(out) \/ j = Len(out) + 1
        /\ \A j \in 1 .. Len(out) : j # Len(out) + 1 /\ j < Len(out) + 1 /\ ~(Len(out) + 1 < j)
        /\ ~(Len(out) + 1 < Len(out) + 1)
    BY <1>0, <2>1
  <2>3. /\ \A j \in 1 .. Len(out) : s[j] = sel[j] /\ sel[j] \in 1 .. n - 1
        /\ s[Len(out) + 1] = n
    BY <1>0, <2>1, <2>2 DEF Selects
  <2>4. s \in [1 .. Len(more) -> 1 .. n]
    BY <1>0, <2>1, <2>2, <2>3
  <2> HIDE DEF more, s
  <2>5. \A i, j \in 1 .. Len(more) : i < j => s[i] < s[j]
    <3> SUFFICES ASSUME NEW i \in 1 .. Len(more), NEW j \in 1 .. Len(more), i < j
                 PROVE  s[i] < s[j]
      OBVIOUS
    <3>1. i \in 1 .. Len(out)
      BY <2>2
    <3>2. CASE j = Len(out) + 1
      BY <1>0, <2>3, <3>1, <3>2
    <3>3. CASE j \in 1 .. Len(out)
      BY <2>3, <3>1, <3>3 DEF Selects
    <3> QED
      BY <2>2, <3>2, <3>3
  <2>6. \A j \in 1 .. Len(more) : more[j] = messages[s[j]] /\ Kept(messages, s[j])
    BY <1>1, <2>1, <2>2, <2>3 DEF Selects
  <2>7. \A i \in 1 .. n : Kept(messages, i) => \E j \in 1 .. Len(more) : s[j] = i
    <3> SUFFICES ASSUME NEW i \in 1 .. n, Kept(messages, i)
                 PROVE  \E j \in 1 .. Len(more) : s[j] = i
      OBVIOUS
    <3>1. CASE i = n
      BY <2>2, <2>3, <3>1
    <3>2. CASE i \in 1 .. n - 1
      <4>1. PICK j \in 1 .. Len(out) : sel[j] = i
        BY <3>2 DEF Selects
      <4> QED
        BY <2>2, <2>3, <4>1
    <3> QED
      BY <1>0, <3>1, <3>2
  <2>8. Selects(more, messages, n, s)
    BY <2>4, <2>5, <2>6, <2>7 DEF Selects
  <2> QED
    BY <1>1, <2>8 DEF more
<1>2. CASE ~Kept(messages, n)
  <2>1. sel \in [1 .. Len(out) -> 1 .. n]
    BY <1>0 DEF Selects
  <2>2. \A i \in 1 .. n : Kept(messages, i) => \E j \in 1 .. Len(out) : sel[j] = i
    BY <1>0, <1>2 DEF Selects
  <2> QED
    BY <1>2, <2>1, <2>2 DEF Selects
<1> QED
  BY <1>1, <1>2

ValidState == [out : Seq(MessageType), allowed : SUBSET Ids]

LEMMA ValidateIs ==
  ASSUME NEW messages \in Seq(MessageType), NEW n \in 1 .. Len(messages), NEW acc \in ValidState
  PROVE  /\ Validate(messages, acc, n) \in ValidState
         /\ acc.allowed = Awaited(messages, n - 1) =>
              LET next == Validate(messages, acc, n)
              IN /\ next.allowed = Awaited(messages, n)
                 /\ next.out = IF Kept(messages, n) THEN Append(acc.out, messages[n]) ELSE acc.out
<1>0. messages[n] \in MessageType
  OBVIOUS
<1>1. DOMAIN messages[n].calls \subseteq Ids /\ messages[n].role \in {"user", "assistant", "tool"}
  BY <1>0 DEF MessageType
<1>2. Append(acc.out, messages[n]) \in Seq(MessageType)
  BY <1>0 DEF ValidState
<1> DEFINE m == messages[n]
           kept == Append(acc.out, m)
<1>3. acc = [out |-> acc.out, allowed |-> acc.allowed]
  BY DEF ValidState
<1>4. Validate(messages, acc, n) =
        IF m.role = "assistant" /\ m.calls # NoCalls
          THEN IF DOMAIN m.calls \subseteq FollowingIds(messages, n)
                 THEN [out |-> kept, allowed |-> DOMAIN m.calls]
                 ELSE [out |-> acc.out, allowed |-> {}]
        ELSE IF m.role = "tool"
          THEN IF m.id \in acc.allowed THEN [out |-> kept, allowed |-> acc.allowed \ {m.id}] ELSE acc
        ELSE [out |-> kept, allowed |-> {}]
  <2>1. \A e : [acc EXCEPT !.allowed = e] = [out |-> acc.out, allowed |-> e]
    BY <1>3
  <2> QED
    BY <2>1 DEF Validate
<1>5. Validate(messages, acc, n) \in ValidState
  BY <1>1, <1>2, <1>3, <1>4 DEF ValidState
<1>6. ASSUME acc.allowed = Awaited(messages, n - 1)
      PROVE  /\ Validate(messages, acc, n).allowed = Awaited(messages, n)
             /\ Validate(messages, acc, n).out = IF Kept(messages, n) THEN kept ELSE acc.out
  <2>1. CASE m.role = "assistant" /\ m.calls # NoCalls
    BY <1>4, <2>1, AwaitedStep DEF Kept, Opens
  <2>2. CASE m.role = "tool"
    <3>1. ~Opens(messages, n)
      BY <2>2 DEF Opens
    <3>2. Awaited(messages, n) = acc.allowed \ {m.id}
      BY <1>6, <2>2, <3>1, AwaitedStep
    <3>3. Kept(messages, n) <=> m.id \in acc.allowed
      BY <1>6, <2>2 DEF Kept
    <3> QED
      BY <1>3, <1>4, <2>2, <3>2, <3>3
  <2>3. CASE m.role # "tool" /\ ~(m.role = "assistant" /\ m.calls # NoCalls)
    BY <1>4, <2>3, AwaitedStep DEF Kept, Opens
  <2> QED
    BY <2>1, <2>2, <2>3
<1> QED
  BY <1>5, <1>6

LEMMA ValidIs ==
  ASSUME NEW messages \in Seq(MessageType)
  PROVE  /\ ValidMessages(messages) \in Seq(MessageType)
         /\ \E sel : Selects(ValidMessages(messages), messages, Len(messages), sel)
<1> DEFINE N == Len(messages)
<1>0. N \in Nat
  OBVIOUS
<1>1. NothingYet \in ValidState
  BY DEF NothingYet, ValidState
<1>2. \A k \in 1 .. N, acc \in ValidState : Validate(messages, acc, k) \in ValidState
  BY ValidateIs
<1>3. PICK st : /\ st[0] = NothingYet
                /\ \A n \in 0 .. N : st[n] \in ValidState
                /\ \A n \in 1 .. N : st[n] = Validate(messages, st[n - 1], n)
                /\ ValidMessages(messages) = st[N].out
  BY <1>1, <1>2, ValidatedAlong
<1> DEFINE Good(n) == /\ st[n].allowed = Awaited(messages, n)
                      /\ \E sel : Selects(st[n].out, messages, n, sel)
           Some == {n \in Nat : n <= N => Good(n)}
<1>4. 0 \in Some
  <2>1. 1 .. 0 = {} /\ Awaited(messages, 0) = {}
    BY DEF Awaited
  <2>2. st[0].out = <<>> /\ st[0].allowed = {} /\ Len(<<>>) = 0
    BY <1>3 DEF NothingYet
  <2>3. Selects(<<>>, messages, 0, [j \in 1 .. 0 |-> 0])
    BY <2>1, <2>2 DEF Selects
  <2> QED
    BY <2>1, <2>2, <2>3
<1>5. ASSUME NEW n \in Nat, n \in Some PROVE n + 1 \in Some
  <2> SUFFICES ASSUME n + 1 <= N PROVE Good(n + 1)
    OBVIOUS
  <2>1. n + 1 \in 1 .. N /\ n \in 0 .. N /\ (n + 1) - 1 = n /\ Good(n)
    BY <1>0, <1>5
  <2>2. st[n] \in ValidState /\ st[n + 1] = Validate(messages, st[n], n + 1)
    BY <1>3, <2>1
  <2>3. /\ st[n + 1].allowed = Awaited(messages, n + 1)
        /\ st[n + 1].out = IF Kept(messages, n + 1) THEN Append(st[n].out, messages[n + 1])
                           ELSE st[n].out
    <3> DEFINE k == n + 1
    <3>1. k \in 1 .. N /\ st[n].allowed = Awaited(messages, k - 1)
      BY <2>1
    <3> HIDE DEF k
    <3>2. /\ Validate(messages, st[n], k).allowed = Awaited(messages, k)
          /\ Validate(messages, st[n], k).out = IF Kept(messages, k) THEN Append(st[n].out, messages[k])
                                               ELSE st[n].out
      BY <2>2, <3>1, ValidateIs
    <3> QED
      BY <2>2, <3>2 DEF k
  <2>4. PICK sel : Selects(st[n].out, messages, n, sel)
    BY <2>1
  <2>5. st[n].out \in Seq(MessageType)
    BY <2>2 DEF ValidState
  <2>6. \E s : Selects(st[n + 1].out, messages, n + 1, s)
    <3> DEFINE k == n + 1
    <3>1. k \in 1 .. N /\ Selects(st[n].out, messages, k - 1, sel)
      BY <2>1, <2>4
    <3>2. st[k].out = IF Kept(messages, k) THEN Append(st[n].out, messages[k]) ELSE st[n].out
      BY <2>3
    <3> HIDE DEF k
    <3>3. /\ Kept(messages, k) => \E s : Selects(Append(st[n].out, messages[k]), messages, k, s)
          /\ ~Kept(messages, k) => Selects(st[n].out, messages, k, sel)
      BY <2>5, <3>1, SelectsMore
    <3>4. \E s : Selects(st[k].out, messages, k, s)
      BY <3>2, <3>3
    <3> QED
      BY <3>4 DEF k
  <2> QED
    BY <2>3, <2>6
<1>6. Good(N)
  <2>1. Nat \subseteq Some
    <3> HIDE DEF Some
    <3> QED
      BY <1>4, <1>5, InductionOverSet
  <2> QED
    BY <1>0, <2>1
<1>7. st[N] \in ValidState
  BY <1>0, <1>3
<1> QED
  BY <1>3, <1>6, <1>7 DEF ValidState

LEMMA LeastOf ==
  ASSUME NEW D \in SUBSET Nat, D # {}
  PROVE  \E x \in D : \A y \in D : x <= y
<1> SUFFICES ASSUME \A x \in D : \E y \in D : y < x PROVE FALSE
  OBVIOUS
<1> DEFINE None == {n \in Nat : \A y \in D : y > n}
           Some == {n \in Nat : \A y \in D : y >= n}
<1>1. 0 \in Some
  OBVIOUS
<1>2. ASSUME NEW n \in Nat, n \in Some PROVE n + 1 \in Some
  <2>1. n \notin D
    BY <1>2
  <2> QED
    BY <1>2, <2>1
<1>3. Nat \subseteq Some
  <2> HIDE DEF Some
  <2> QED
    BY <1>1, <1>2, InductionOverSet
<1>4. PICK x \in D : TRUE
  OBVIOUS
<1>5. x + 1 \in Some
  BY <1>3
<1> QED
  BY <1>5

\* A result that is told comes behind the message that made its call, and behind
\* no other result of that call.
\* What a tool message at j answers: the message at l, with tool messages and no other
\* result of the same call between the two.
Owner(a, l, j) ==
  /\ a[l].role = "assistant" /\ a[j].id \in DOMAIN a[l].calls
  /\ \A x \in l + 1 .. j : a[x].role = "tool"
  /\ \A x \in l + 1 .. j - 1 : a[x].id # a[j].id

LEMMA ResultsFollow ==
  ASSUME NEW messages \in Seq(MessageType), NEW a \in Seq(MessageType), NEW sel,
         Selects(a, messages, Len(messages), sel),
         NEW j \in 1 .. Len(a), a[j].role = "tool"
  PROVE  \E k \in 1 .. j - 1 : Owner(a, k, j)
<1>0. Len(a) \in Nat /\ Len(messages) \in Nat /\ j \in Nat
  OBVIOUS
<1>1. /\ \A x \in 1 .. Len(a) : sel[x] \in 1 .. Len(messages) /\ a[x] = messages[sel[x]]
      /\ Kept(messages, sel[j])
  BY DEF Selects
<1>2. a[j].id \in Awaited(messages, sel[j] - 1)
  BY <1>1 DEF Kept
<1>3. PICK i \in 1 .. sel[j] - 1 :
        /\ Opens(messages, i) /\ a[j].id \in DOMAIN messages[i].calls
        /\ \A m \in i + 1 .. sel[j] - 1 : messages[m].role = "tool" /\ messages[m].id # a[j].id
  BY <1>2 DEF Awaited
<1>4. i \in 1 .. Len(messages) /\ i < sel[j] /\ sel[j] \in Nat
  BY <1>0, <1>1
<1>5. Kept(messages, i)
  BY <1>3 DEF Kept, Opens
<1>6. PICK k \in 1 .. Len(a) : sel[k] = i
  BY <1>4, <1>5 DEF Selects
<1>7. k < j
  <2>1. CASE j < k
    <3>1. sel[j] < sel[k]
      BY <2>1 DEF Selects
    <3> QED
      BY <1>4, <1>6, <3>1
  <2>2. CASE j = k
    BY <1>4, <1>6, <2>2
  <2> QED
    BY <1>0, <2>1, <2>2
<1>8. ASSUME NEW x \in k + 1 .. j - 1
      PROVE  a[x].role = "tool" /\ a[x].id # a[j].id
  <2>1. x \in 1 .. Len(a) /\ k < x /\ x < j
    BY <1>0
  <2>2. sel[k] < sel[x] /\ sel[x] < sel[j]
    BY <2>1 DEF Selects
  <2>3. sel[x] \in i + 1 .. sel[j] - 1
    BY <1>1, <1>4, <1>6, <2>1, <2>2
  <2> QED
    BY <1>1, <1>3, <2>1, <2>3
<1>9. \A x \in k + 1 .. j : x \in k + 1 .. j - 1 \/ x = j
  BY <1>0
<1>10. k \in 1 .. j - 1
  BY <1>0, <1>7
<1>11. Owner(a, k, j)
  BY <1>1, <1>3, <1>6, <1>8, <1>9 DEF Opens, Owner
<1> QED
  BY <1>10, <1>11

\* Each call of a message that is told is answered behind it.
LEMMA CallsFollowed ==
  ASSUME NEW messages \in Seq(MessageType), NEW a \in Seq(MessageType), NEW sel,
         Selects(a, messages, Len(messages), sel),
         NEW k \in 1 .. Len(a), a[k].role = "assistant", NEW id \in DOMAIN a[k].calls
  PROVE  \E j \in Answers(a, k) : a[j].id = id
<1> DEFINE i == sel[k]
           D == {j \in Answers(messages, i) : messages[j].id = id}
<1>0. Len(a) \in Nat /\ Len(messages) \in Nat /\ k \in Nat
  OBVIOUS
<1>1. /\ \A x \in 1 .. Len(a) : sel[x] \in 1 .. Len(messages) /\ a[x] = messages[sel[x]]
      /\ \A x \in 1 .. Len(a) : Kept(messages, sel[x])
  BY DEF Selects
<1>2. a[k].calls # NoCalls
  <2>1. DOMAIN NoCalls = {}
    BY DEF NoCalls
  <2> QED
    BY <2>1
<1>3. Opens(messages, i)
  BY <1>1, <1>2 DEF Kept
<1>4. id \in FollowingIds(messages, i)
  BY <1>1, <1>3 DEF Opens
<1>5. D # {} /\ D \in SUBSET Nat
  <2>1. FollowingIds(messages, i) = {messages[j].id : j \in Answers(messages, i)}
    BY DEF FollowingIds, Answers
  <2>2. i \in Nat
    BY <1>0, <1>1
  <2>3. Answers(messages, i) \in SUBSET Nat
    BY <1>0, <2>2 DEF Answers
  <2> QED
    BY <1>4, <2>1, <2>3
<1>6. PICK j \in D : \A y \in D : j <= y
  <2> HIDE DEF D
  <2> QED
    BY <1>5, LeastOf
<1>7. /\ j \in i + 1 .. Len(messages) /\ messages[j].id = id
      /\ \A m \in i + 1 .. j : messages[m].role = "tool"
      /\ i \in Nat /\ i >= 1 /\ j \in Nat
  BY <1>0, <1>1 DEF Answers
<1>8. ASSUME NEW m \in i + 1 .. j - 1 PROVE messages[m].role = "tool" /\ messages[m].id # id
  <2>1. m \in i + 1 .. j /\ m < j /\ m \in i + 1 .. Len(messages) /\ \A x \in i + 1 .. m : x \in i + 1 .. j
    BY <1>0, <1>7
  <2>2. m \in Answers(messages, i)
    BY <1>7, <2>1 DEF Answers
  <2> QED
    BY <1>6, <1>7, <2>1, <2>2
<1>9. Kept(messages, j)
  <2>1. j \in i + 1 .. j /\ i \in 1 .. j - 1
    BY <1>7
  <2>2. messages[j].role = "tool"
    BY <1>7, <2>1
  <2>3. id \in Ids
    <3>1. messages[i] \in MessageType
      BY <1>1
    <3> QED
      BY <1>1, <3>1 DEF MessageType
  <2>4. id \in Awaited(messages, j - 1)
    BY <1>1, <1>3, <1>8, <2>1, <2>3 DEF Awaited
  <2> QED
    BY <1>7, <2>2, <2>4 DEF Kept
<1>10. PICK y \in 1 .. Len(a) : sel[y] = j
  <2>1. j \in 1 .. Len(messages)
    BY <1>0, <1>7
  <2> QED
    BY <1>9, <2>1 DEF Selects
<1>11. k < y
  <2>1. CASE y < k
    <3>1. sel[y] < sel[k]
      BY <2>1 DEF Selects
    <3> QED
      BY <1>7, <1>10, <3>1
  <2>2. CASE y = k
    BY <1>7, <1>10, <2>2
  <2> QED
    BY <1>0, <2>1, <2>2
<1>12. ASSUME NEW x \in k + 1 .. y PROVE a[x].role = "tool"
  <2>1. x \in 1 .. Len(a) /\ k < x /\ (x < y \/ x = y)
    BY <1>0, <1>11
  <2>2. sel[k] < sel[x] /\ (sel[x] < sel[y] \/ x = y)
    BY <2>1 DEF Selects
  <2>3. sel[x] \in i + 1 .. j
    BY <1>1, <1>7, <1>10, <2>1, <2>2
  <2> QED
    BY <1>1, <1>7, <2>1, <2>3
<1>13. y \in Answers(a, k)
  BY <1>0, <1>11, <1>12 DEF Answers
<1> QED
  BY <1>1, <1>7, <1>10, <1>13

\* What AcceptedByProvider says of the assembled turn, of any messages.
Accepted(a) ==
  \A k \in DOMAIN a :
    /\ a[k].role # "tool" =>
         /\ {a[j].id : j \in Answers(a, k)} = DOMAIN a[k].calls
         /\ \A i, j \in Answers(a, k) : a[i].id = a[j].id => i = j
    /\ a[k].role = "tool" => k > 1 /\ a[k - 1].role # "user"

LEMMA SelectedAccepted ==
  ASSUME NEW messages \in Seq(MessageType), NEW a \in Seq(MessageType), NEW sel,
         Selects(a, messages, Len(messages), sel),
         \A i \in 1 .. Len(messages) : messages[i].role = "user" => messages[i].calls = NoCalls
  PROVE  Accepted(a)
<1> SUFFICES ASSUME NEW k \in 1 .. Len(a)
             PROVE  /\ a[k].role # "tool" =>
                         /\ {a[j].id : j \in Answers(a, k)} = DOMAIN a[k].calls
                         /\ \A i, j \in Answers(a, k) : a[i].id = a[j].id => i = j
                    /\ a[k].role = "tool" => k > 1 /\ a[k - 1].role # "user"
  BY DEF Accepted
<1>0. Len(a) \in Nat /\ k \in Nat /\ a[k] \in MessageType
  OBVIOUS
<1>1. CASE a[k].role = "tool"
  <2>0. PICK l \in 1 .. k - 1 : Owner(a, l, k)
    BY <1>1, ResultsFollow
  <2>1. /\ a[l].role = "assistant"
        /\ \A x \in l + 1 .. k : a[x].role = "tool"
    BY <2>0 DEF Owner
  <2>2. k > 1 /\ (k - 1 = l \/ k - 1 \in l + 1 .. k)
    BY <1>0
  <2> QED
    BY <1>1, <2>1, <2>2
<1>2. CASE a[k].role # "tool"
  <2>1. ASSUME NEW j \in Answers(a, k)
        PROVE  /\ j \in 1 .. Len(a) /\ j > k /\ a[j].id \in DOMAIN a[k].calls
               /\ \A x \in k + 1 .. j - 1 : a[x].id # a[j].id
    <3>1. j \in 1 .. Len(a) /\ j > k /\ j \in k + 1 .. j /\ \A x \in k + 1 .. j : a[x].role = "tool"
      BY <1>0 DEF Answers
    <3>0. PICK l \in 1 .. j - 1 : Owner(a, l, j)
      BY <3>1, ResultsFollow
    <3>2. /\ a[l].role = "assistant" /\ a[j].id \in DOMAIN a[l].calls
          /\ \A x \in l + 1 .. j : a[x].role = "tool"
          /\ \A x \in l + 1 .. j - 1 : a[x].id # a[j].id
      BY <3>0 DEF Owner
    <3>3. l = k
      <4>1. l < k => k \in l + 1 .. j
        BY <1>0, <3>1
      <4>2. l > k => l \in k + 1 .. j
        BY <1>0, <3>1
      <4> QED
        BY <1>0, <1>2, <3>1, <3>2, <4>1, <4>2
    <3> QED
      BY <3>1, <3>2, <3>3
  <2>2. ASSUME NEW i \in Answers(a, k), NEW j \in Answers(a, k), a[i].id = a[j].id PROVE i = j
    <3>1. i < j => i \in k + 1 .. j - 1
      BY <1>0, <2>1
    <3>2. j < i => j \in k + 1 .. i - 1
      BY <1>0, <2>1
    <3> QED
      BY <1>0, <2>1, <2>2, <3>1, <3>2
  <2>3. ASSUME NEW id \in DOMAIN a[k].calls PROVE \E j \in Answers(a, k) : a[j].id = id
    <3>1. a[k].role \in {"user", "assistant", "tool"}
      BY <1>0 DEF MessageType
    <3>2. a[k].role # "user"
      <4>1. sel[k] \in 1 .. Len(messages) /\ a[k] = messages[sel[k]]
        BY DEF Selects
      <4>2. DOMAIN NoCalls = {}
        BY DEF NoCalls
      <4> QED
        BY <4>1, <4>2
    <3>3. a[k].role = "assistant"
      BY <1>2, <3>1, <3>2
    <3> QED
      BY <3>3, CallsFollowed
  <2> QED
    BY <1>2, <2>1, <2>2, <2>3
<1> QED
  BY <1>1, <1>2

-----------------------------------------------------------------------------
(* What messages the rows of a turn are merged to.                          *)

RowType ==
  [role : {"user", "assistant", "tool"}, calls : SUBSET Ids, id : Ids \cup {NoId}, text : BOOLEAN]

CallSet == UNION {[S -> Seq(Nat)] : S \in SUBSET Ids}

\* The assistant rows up to q without another row in between.
Group(records, q) == {k \in 1 .. q : \A m \in k .. q : records[m].role = "assistant"}

FromOf(records, reasoning, q) == {k \in Group(records, q) : records[k].text \/ reasoning}

\* The calls of a group, each with the rows that have it, in order.
Tells(cs, records, q) ==
  /\ cs \in CallSet
  /\ DOMAIN cs = {id \in Ids : \E k \in Group(records, q) : id \in records[k].calls}
  /\ \A id \in DOMAIN cs :
       /\ cs[id] # <<>>
       /\ \A x \in 1 .. Len(cs[id]) :
            cs[id][x] \in Group(records, q) /\ id \in records[cs[id][x]].calls
       /\ \A k \in Group(records, q) :
            id \in records[k].calls => \E x \in 1 .. Len(cs[id]) : cs[id][x] = k
       /\ \A x, y \in 1 .. Len(cs[id]) : x < y => cs[id][x] < cs[id][y]

PendingType == [calls : CallSet, from : SUBSET Nat]

Waits(pending, records, reasoning, q) ==
  /\ pending \in PendingType
  /\ Tells(pending.calls, records, q) /\ pending.from = FromOf(records, reasoning, q)

LEMMA CallsAre ==
  ASSUME NEW c \in CallSet
  PROVE  /\ DOMAIN c \subseteq Ids
         /\ \A id \in DOMAIN c : c[id] \in Seq(Nat)
         /\ DOMAIN c = {} => c = NoCalls
         /\ c = [id \in DOMAIN c |-> c[id]]
<1>1. PICK S \in SUBSET Ids : c \in [S -> Seq(Nat)]
  BY DEF CallSet
<1>2. DOMAIN c = {} => c = NoCalls
  <2> SUFFICES ASSUME DOMAIN c = {} PROVE c = NoCalls
    OBVIOUS
  <2>1. c \in [{} -> Seq(Nat)]
    BY <1>1
  <2>2. NoCalls \in Seq(Nat) /\ Len(NoCalls) = 0
    BY DEF NoCalls
  <2>3. NoCalls \in [{} -> Seq(Nat)]
    BY <2>2
  <2> QED
    BY <2>1, <2>3
<1> QED
  BY <1>1, <1>2

LEMMA NoCallsIs == NoCalls \in CallSet /\ DOMAIN NoCalls = {}
<1>1. <<>> \in Seq(Nat) /\ DOMAIN <<>> = {}
  OBVIOUS
<1>2. <<>> \in [{} -> Seq(Nat)]
  BY <1>1
<1> QED
  BY <1>1, <1>2 DEF NoCalls, CallSet

LEMMA GroupIs ==
  ASSUME NEW records \in Seq(RowType), NEW n \in 1 .. Len(records)
  PROVE  /\ records[n].role # "assistant" => Group(records, n) = {}
         /\ records[n].role = "assistant" => Group(records, n) = Group(records, n - 1) \cup {n}
         /\ n \notin Group(records, n - 1) /\ \A k \in Group(records, n - 1) : k < n
<1>0. n \in Nat /\ n - 1 \in Nat
  OBVIOUS
<1>1. \A k \in 1 .. n : n \in k .. n
  OBVIOUS
<1>2. \A k \in 1 .. n - 1 : \A m : m \in k .. n <=> m \in k .. n - 1 \/ m = n
  BY <1>0
<1>3. \A k : k \in 1 .. n <=> k \in 1 .. n - 1 \/ k = n
  BY <1>0
<1>4. \A m \in n .. n : m = n
  OBVIOUS
<1>5. \A k \in 1 .. n - 1 : k < n /\ k # n
  BY <1>0
<1>6. ASSUME records[n].role = "assistant", NEW k
      PROVE  k \in Group(records, n) <=> k \in Group(records, n - 1) \/ k = n
  BY <1>2, <1>3, <1>4, <1>6 DEF Group
<1>7. records[n].role = "assistant" => Group(records, n) = Group(records, n - 1) \cup {n}
  BY <1>6
<1>8. records[n].role # "assistant" => Group(records, n) = {}
  BY <1>1 DEF Group
<1> QED
  BY <1>5, <1>7, <1>8 DEF Group

LEMMA TellsMore ==
  ASSUME NEW records \in Seq(RowType), NEW n \in 1 .. Len(records), NEW cs,
         Tells(cs, records, n - 1), records[n].role = "assistant"
  PROVE  Tells(ApplyCalls(cs, records[n], n), records, n)
<1> DEFINE row == records[n]
           G == Group(records, n - 1)
           r == ApplyCalls(cs, row, n)
<1>0. n \in Nat /\ row \in RowType
  OBVIOUS
<1>1. row.calls \subseteq Ids
  BY <1>0 DEF RowType
<1>2. /\ cs \in CallSet /\ DOMAIN cs \subseteq Ids
      /\ \A id \in DOMAIN cs : cs[id] \in Seq(Nat)
  BY CallsAre DEF Tells
<1>3. Group(records, n) = G \cup {n} /\ n \notin G /\ \A k \in G : k < n /\ k \in Nat
  BY <1>0, GroupIs DEF Group
<1>4. /\ DOMAIN r = DOMAIN cs \cup row.calls
      /\ \A id \in DOMAIN r :
           r[id] = IF id \notin row.calls THEN cs[id]
                   ELSE IF id \in DOMAIN cs THEN Append(cs[id], n) ELSE <<n>>
  BY DEF ApplyCalls
<1> HIDE DEF r, G
<1>5. DOMAIN r = {id \in Ids : \E k \in Group(records, n) : id \in records[k].calls}
  <2>1. DOMAIN cs = {id \in Ids : \E k \in G : id \in records[k].calls}
    BY DEF Tells, G
  <2> QED
    BY <1>1, <1>3, <1>4, <2>1
<1>6. ASSUME NEW id \in DOMAIN r
      PROVE  /\ r[id] \in Seq(Nat) /\ r[id] # <<>>
             /\ \A x \in 1 .. Len(r[id]) :
                  r[id][x] \in Group(records, n) /\ id \in records[r[id][x]].calls
             /\ \A k \in Group(records, n) :
                  id \in records[k].calls => \E x \in 1 .. Len(r[id]) : r[id][x] = k
             /\ \A x, y \in 1 .. Len(r[id]) : x < y => r[id][x] < r[id][y]
  <2> DEFINE c == cs[id]
  <2>1. id \in DOMAIN cs =>
          /\ c \in Seq(Nat) /\ c # <<>>
          /\ \A x \in 1 .. Len(c) : c[x] \in G /\ id \in records[c[x]].calls
          /\ \A k \in G : id \in records[k].calls => \E x \in 1 .. Len(c) : c[x] = k
          /\ \A x, y \in 1 .. Len(c) : x < y => c[x] < c[y]
    BY <1>2 DEF Tells, G
  <2>2. id \notin DOMAIN cs => \A k \in G : id \notin records[k].calls
    <3>1. DOMAIN cs = {e \in Ids : \E k \in G : e \in records[k].calls}
      BY DEF Tells, G
    <3> QED
      BY <1>1, <1>2, <1>4, <3>1
  <2>3. CASE id \notin row.calls
    <3>1. id \in DOMAIN cs /\ r[id] = c
      BY <1>4, <2>3
    <3> QED
      BY <1>3, <2>1, <2>3, <3>1
  <2>4. CASE id \in row.calls /\ id \in DOMAIN cs
    <3> DEFINE d == Append(c, n)
    <3>1. r[id] = d
      BY <1>4, <2>4
    <3>2. /\ d \in Seq(Nat) /\ Len(d) = Len(c) + 1 /\ d[Len(c) + 1] = n /\ Len(c) \in Nat
          /\ \A x \in 1 .. Len(c) : d[x] = c[x]
      BY <1>0, <2>1, <2>4, AppendProperties
    <3> HIDE DEF d, c
    <3>3. /\ \A x : x \in 1 .. Len(d) <=> x \in 1 .. Len(c) \/ x = Len(c) + 1
          /\ \A x \in 1 .. Len(c) : x # Len(c) + 1 /\ ~(Len(c) + 1 < x)
          /\ ~(Len(c) + 1 < Len(c) + 1)
      BY <3>2
    <3>4. d # <<>>
      BY <3>2
    <3>5. \A x \in 1 .. Len(d) : d[x] \in G \cup {n} /\ id \in records[d[x]].calls
      BY <2>1, <2>4, <3>2, <3>3
    <3>6. \A k \in G \cup {n} : id \in records[k].calls => \E x \in 1 .. Len(d) : d[x] = k
      <4>1. Len(c) + 1 \in 1 .. Len(d) /\ \A x \in 1 .. Len(c) : x \in 1 .. Len(d)
        BY <3>3
      <4> QED
        BY <2>1, <2>4, <3>2, <4>1
    <3>7. \A x, y \in 1 .. Len(d) : x < y => d[x] < d[y]
      BY <1>3, <2>1, <2>4, <3>2, <3>3
    <3> QED
      BY <1>3, <3>1, <3>2, <3>4, <3>5, <3>6, <3>7
  <2>5. CASE id \in row.calls /\ id \notin DOMAIN cs
    <3>1. r[id] = <<n>>
      BY <1>4, <2>5
    <3>2. <<n>> \in Seq(Nat) /\ Len(<<n>>) = 1 /\ <<n>>[1] = n /\ <<n>> # <<>>
      BY <1>0
    <3>3. \A x \in 1 .. 1 : x = 1
      OBVIOUS
    <3> QED
      BY <1>3, <2>2, <2>5, <3>1, <3>2, <3>3
  <2> QED
    BY <2>3, <2>4, <2>5
<1>7. r \in CallSet
  <2>1. r = [id \in DOMAIN r |-> r[id]]
    BY DEF r, ApplyCalls
  <2>2. DOMAIN r \in SUBSET Ids
    BY <1>5
  <2>3. r \in [DOMAIN r -> Seq(Nat)]
    BY <1>6, <2>1
  <2> QED
    BY <2>2, <2>3 DEF CallSet
<1> QED
  BY <1>5, <1>6, <1>7 DEF Tells, r

\* m is the message of row q, or of the group that ends with row q.
IsMessage(m, records, reasoning, q) ==
  /\ m \in MessageType
  /\ records[q].role # "assistant" =>
       m = Message(records[q].role, NoCalls, records[q].id, {q})
  /\ records[q].role = "assistant" =>
       /\ m.role = "assistant" /\ m.id = NoId
       /\ m.from = FromOf(records, reasoning, q) /\ Tells(m.calls, records, q)

\* A group nothing is told of.
Silent(records, reasoning, q) ==
  /\ records[q].role = "assistant" /\ FromOf(records, reasoning, q) = {}
  /\ \A k \in Group(records, q) : records[k].calls = {}

\* pos names the places in D of the messages, in order.
Placed(ms, records, reasoning, D, pos) ==
  /\ ms \in Seq(MessageType)
  /\ pos \in [1 .. Len(ms) -> D]
  /\ \A i, j \in 1 .. Len(ms) : i < j => pos[i] < pos[j]
  /\ \A i \in 1 .. Len(ms) : IsMessage(ms[i], records, reasoning, pos[i])
                             /\ ~Silent(records, reasoning, pos[i])
  /\ \A q \in D : Silent(records, reasoning, q) \/ \E i \in 1 .. Len(ms) : pos[i] = q

LEMMA PlacedMore ==
  ASSUME NEW records, NEW reasoning, NEW D \in SUBSET Nat, NEW ms, NEW pos, NEW m, NEW q \in Nat,
         Placed(ms, records, reasoning, D, pos), \A p \in D : p < q,
         IsMessage(m, records, reasoning, q), ~Silent(records, reasoning, q)
  PROVE  \E p : Placed(Append(ms, m), records, reasoning, D \cup {q}, p)
<1> DEFINE more == Append(ms, m)
           E == D \cup {q}
           p == [i \in 1 .. Len(ms) + 1 |-> IF i = Len(ms) + 1 THEN q ELSE pos[i]]
<1>1. /\ more \in Seq(MessageType) /\ Len(more) = Len(ms) + 1 /\ more[Len(ms) + 1] = m
      /\ \A i \in 1 .. Len(ms) : more[i] = ms[i]
      /\ Len(ms) \in Nat
  BY AppendProperties DEF Placed, IsMessage
<1>2. /\ \A i : i \in 1 .. Len(more) <=> i \in 1 .. Len(ms) \/ i = Len(ms) + 1
      /\ \A i \in 1 .. Len(ms) : i # Len(ms) + 1 /\ ~(Len(ms) + 1 < i)
      /\ ~(Len(ms) + 1 < Len(ms) + 1)
  BY <1>1
<1>3. (\A i \in 1 .. Len(ms) : p[i] = pos[i] /\ pos[i] \in D) /\ p[Len(ms) + 1] = q
  BY <1>1, <1>2 DEF Placed
<1>4. p \in [1 .. Len(more) -> E]
  BY <1>1, <1>2, <1>3
<1> HIDE DEF more, p, E
<1>5. \A i, j \in 1 .. Len(more) : i < j => p[i] < p[j]
  BY <1>2, <1>3 DEF Placed
<1>6. \A i \in 1 .. Len(more) : IsMessage(more[i], records, reasoning, p[i])
                                /\ ~Silent(records, reasoning, p[i])
  BY <1>1, <1>2, <1>3 DEF Placed
<1>7. \A r \in E : Silent(records, reasoning, r) \/ \E i \in 1 .. Len(more) : p[i] = r
  <2>1. \A r \in D : Silent(records, reasoning, r) \/ \E i \in 1 .. Len(ms) : pos[i] = r
    BY DEF Placed
  <2> QED
    BY <1>2, <1>3, <2>1 DEF E
<1>8. Placed(more, records, reasoning, E, p)
  BY <1>1, <1>4, <1>5, <1>6, <1>7 DEF Placed
<1> QED
  BY <1>8 DEF more, E

LEMMA PlacedSame ==
  ASSUME NEW records, NEW reasoning, NEW D, NEW ms, NEW pos, NEW q,
         Placed(ms, records, reasoning, D, pos), Silent(records, reasoning, q)
  PROVE  Placed(ms, records, reasoning, D \cup {q}, pos)
<1>1. pos \in [1 .. Len(ms) -> D \cup {q}]
  BY DEF Placed
<1> QED
  BY <1>1 DEF Placed

\* What waits is told when another row comes.
LEMMA FlushIs ==
  ASSUME NEW records \in Seq(RowType), NEW reasoning \in BOOLEAN, NEW q \in 0 .. Len(records),
         NEW D \in SUBSET (1 .. q), q \notin D, NEW ms, NEW pos, NEW pending,
         Placed(ms, records, reasoning, D, pos), Waits(pending, records, reasoning, q)
  PROVE  \E p : Placed(Flush(ms, pending), records, reasoning,
                       IF q > 0 /\ records[q].role = "assistant" THEN D \cup {q} ELSE D, p)
<1>0. q \in Nat /\ D \in SUBSET Nat /\ \A d \in D : d < q
  OBVIOUS
<1>1. pending = [calls |-> pending.calls, from |-> pending.from] /\ pending.calls \in CallSet
  BY DEF Waits, PendingType
<1>2. pending = NoPending <=> DOMAIN pending.calls = {} /\ pending.from = {}
  BY <1>1, CallsAre, NoCallsIs DEF NoPending
<1>3. CASE q > 0 /\ records[q].role = "assistant"
  <2>0. q \in 1 .. Len(records) /\ \A k \in Group(records, q) : records[k] \in RowType
    BY <1>0, <1>3 DEF Group
  <2>1. pending = NoPending <=> Silent(records, reasoning, q)
    <3>1. DOMAIN pending.calls = {} <=> \A k \in Group(records, q) : records[k].calls = {}
      <4>1. \A k \in Group(records, q) : records[k].calls \subseteq Ids
        BY <2>0 DEF RowType
      <4>2. DOMAIN pending.calls = {id \in Ids : \E k \in Group(records, q) : id \in records[k].calls}
        BY DEF Waits, Tells
      <4> QED
        BY <4>1, <4>2
    <3> QED
      BY <1>2, <1>3, <3>1 DEF Silent, Waits
  <2>2. CASE pending = NoPending
    BY <1>3, <2>1, <2>2, PlacedSame DEF Flush
  <2>3. CASE pending # NoPending
    <3> DEFINE m == Message("assistant", pending.calls, NoId, pending.from)
    <3>1. m.role = "assistant" /\ m.calls = pending.calls /\ m.id = NoId /\ m.from = pending.from
      BY DEF Message
    <3>2. m \in MessageType
      BY DEF Message, MessageType, Waits, PendingType, CallSet
    <3> HIDE DEF m
    <3>3. IsMessage(m, records, reasoning, q)
      BY <1>3, <3>1, <3>2 DEF IsMessage, Waits
    <3>4. \E p : Placed(Append(ms, m), records, reasoning, D \cup {q}, p)
      BY <1>0, <2>1, <2>3, <3>3, PlacedMore
    <3>5. Flush(ms, pending) = Append(ms, m)
      BY <2>3 DEF Flush, m
    <3> QED
      BY <1>3, <3>4, <3>5
  <2> QED
    BY <2>2, <2>3
<1>4. CASE ~(q > 0 /\ records[q].role = "assistant")
  <2>1. Group(records, q) = {}
    <3>1. CASE q = 0
      BY <3>1 DEF Group
    <3>2. CASE q # 0
      <4>1. q \in 1 .. Len(records) /\ records[q].role # "assistant"
        BY <1>0, <1>4, <3>2
      <4> QED
        BY <4>1, GroupIs
    <3> QED
      BY <3>1, <3>2
  <2>2. pending = NoPending
    BY <1>2, <2>1 DEF Waits, Tells, FromOf
  <2> QED
    BY <1>4, <2>2 DEF Flush
<1> QED
  BY <1>3, <1>4

\* The rows whose message is out when n rows are read.
Out(records, n) ==
  {q \in 1 .. n : \/ records[q].role # "assistant"
                  \/ q < n /\ records[q + 1].role # "assistant"}

MergeState == [messages : Seq(MessageType), pending : PendingType]

MergeInv(acc, records, reasoning, n) ==
  /\ \E pos : Placed(acc.messages, records, reasoning, Out(records, n), pos)
  /\ Waits(acc.pending, records, reasoning, n)

LEMMA WaitsMore ==
  ASSUME NEW records \in Seq(RowType), NEW reasoning \in BOOLEAN, NEW n \in 1 .. Len(records),
         NEW pending, Waits(pending, records, reasoning, n - 1), records[n].role = "assistant"
  PROVE  Waits(ApplyRecord(pending, records[n], n, reasoning), records, reasoning, n)
<1> DEFINE r == ApplyRecord(pending, records[n], n, reasoning)
<1>1. /\ r = [calls |-> r.calls, from |-> r.from]
      /\ r.calls = ApplyCalls(pending.calls, records[n], n)
      /\ r.from = IF records[n].text \/ reasoning THEN pending.from \cup {n} ELSE pending.from
  BY DEF ApplyRecord
<1> HIDE DEF r
<1>2. Tells(r.calls, records, n)
  BY <1>1, TellsMore DEF Waits
<1>3. pending.from = FromOf(records, reasoning, n - 1) /\ pending.from \in SUBSET Nat
  BY DEF Waits, PendingType
<1>4. Group(records, n) = Group(records, n - 1) \cup {n} /\ n \notin Group(records, n - 1)
  BY GroupIs
<1>5. r.from = FromOf(records, reasoning, n)
  BY <1>1, <1>3, <1>4 DEF FromOf
<1>6. r.from \in SUBSET Nat
  BY <1>1, <1>3
<1>7. r \in PendingType
  BY <1>1, <1>2, <1>6 DEF PendingType, Tells
<1> QED
  BY <1>2, <1>5, <1>7 DEF Waits, r

LEMMA NothingWaits ==
  ASSUME NEW records, NEW reasoning, NEW q, Group(records, q) = {}
  PROVE  Waits(NoPending, records, reasoning, q)
<1>1. NoPending.calls = NoCalls /\ NoPending.from = {} /\ NoPending \in PendingType
  BY NoCallsIs DEF NoPending, PendingType
<1>2. Tells(NoCalls, records, q)
  BY NoCallsIs DEF Tells
<1> QED
  BY <1>1, <1>2 DEF Waits, FromOf

LEMMA MergeStep ==
  ASSUME NEW records \in Seq(RowType), NEW reasoning \in BOOLEAN, NEW n \in 1 .. Len(records),
         NEW acc, MergeInv(acc, records, reasoning, n - 1), acc \in MergeState
  PROVE  MergeInv(Merge(records, reasoning, acc, n), records, reasoning, n)
<1>0. n \in Nat /\ n - 1 \in 0 .. Len(records) /\ records[n] \in RowType
  OBVIOUS
<1>1. CASE records[n].role = "assistant"
  <2>1. /\ Merge(records, reasoning, acc, n).messages = acc.messages
        /\ Merge(records, reasoning, acc, n).pending = ApplyRecord(acc.pending, records[n], n, reasoning)
    BY <1>1 DEF Merge, MergeState
  <2>2. Out(records, n) = Out(records, n - 1)
    <3>1. ASSUME NEW q PROVE q \in Out(records, n) <=> q \in Out(records, n - 1)
      <4>1. CASE q = n
        BY <1>0, <1>1, <4>1 DEF Out
      <4>2. CASE q \in 1 .. n - 1
        <5>1. q < n /\ q \in 1 .. n /\ (q < n - 1 \/ q + 1 = n)
          BY <1>0, <4>2
        <5> QED
          BY <1>0, <1>1, <4>2, <5>1 DEF Out
      <4>3. CASE q \notin 1 .. n
        BY <1>0, <4>3 DEF Out
      <4> QED
        BY <1>0, <4>1, <4>2, <4>3
    <3> QED
      BY <3>1
  <2> QED
    BY <1>1, <2>1, <2>2, WaitsMore DEF MergeInv
<1>2. CASE records[n].role # "assistant"
  <2> DEFINE p == n - 1
             D == Out(records, p)
             E == IF p > 0 /\ records[p].role = "assistant" THEN D \cup {p} ELSE D
             m == Message(records[n].role, NoCalls, records[n].id, {n})
             ms == Flush(acc.messages, acc.pending)
  <2>1. /\ Merge(records, reasoning, acc, n).messages = Append(ms, m)
        /\ Merge(records, reasoning, acc, n).pending = NoPending
    BY <1>2 DEF Merge
  <2>2. p \in 0 .. Len(records) /\ D \in SUBSET (1 .. p)
    BY <1>0 DEF Out
  <2>3. PICK pos : Placed(acc.messages, records, reasoning, D, pos)
    BY DEF MergeInv
  <2>4. Waits(acc.pending, records, reasoning, p)
    BY DEF MergeInv
  <2>5. Out(records, n) = E \cup {n}
    <3>1. ASSUME NEW q PROVE q \in Out(records, n) <=> q \in E \cup {n}
      <4>1. CASE q = n
        BY <1>0, <1>2, <4>1 DEF Out
      <4>2. CASE q \in 1 .. p /\ q # p
        <5>1. q < n /\ q \in 1 .. n /\ q < p /\ q # n
          BY <1>0, <4>2
        <5> QED
          BY <1>0, <4>2, <5>1 DEF Out
      <4>3. CASE q \in 1 .. p /\ q = p
        <5>1. p > 0 /\ p < n /\ p \in 1 .. n /\ p \in 1 .. p /\ p + 1 = n /\ p # n /\ ~(p < p)
          BY <1>0, <4>3
        <5> QED
          BY <1>2, <4>3, <5>1 DEF Out
      <4>4. CASE q \notin 1 .. n
        <5>1. q \notin 1 .. p /\ q # n /\ (p > 0 => q # p)
          BY <1>0, <4>4
        <5> QED
          BY <4>4, <5>1 DEF Out
      <4> QED
        BY <1>0, <4>1, <4>2, <4>3, <4>4
    <3> HIDE DEF E
    <3> QED
      BY <3>1
  <2>6. p \notin D \/ ~(p > 0 /\ records[p].role = "assistant")
    BY <1>0 DEF Out
  <2>7. PICK pos2 : Placed(ms, records, reasoning, E, pos2)
    <3>1. CASE p \notin D
      <4> HIDE DEF p, D
      <4> QED
        BY <2>2, <2>3, <2>4, <3>1, FlushIs
    <3>2. CASE p \in D
      <4>1. Group(records, p) = {}
        BY <1>0, <2>6, <3>2, GroupIs DEF Out
      <4>2. acc.pending = NoPending
        <5>1. acc.pending = [calls |-> acc.pending.calls, from |-> acc.pending.from] /\ acc.pending.calls \in CallSet
          BY <2>4 DEF Waits, PendingType
        <5>2. DOMAIN acc.pending.calls = {} /\ acc.pending.from = {}
          BY <2>4, <4>1 DEF Waits, Tells, FromOf
        <5> QED
          BY <5>1, <5>2, CallsAre DEF NoPending
      <4>3. ms = acc.messages
        BY <4>2 DEF Flush
      <4>4. E = D
        BY <2>6, <3>2
      <4> QED
        BY <2>3, <4>3, <4>4
    <3> QED
      BY <3>1, <3>2
  <2>8. m \in MessageType
    BY <1>0, NoCallsIs DEF Message, MessageType, RowType, CallSet
  <2>9. IsMessage(m, records, reasoning, n) /\ ~Silent(records, reasoning, n)
    BY <1>2, <2>8 DEF IsMessage, Silent
  <2>10. E \in SUBSET Nat /\ \A e \in E : e < n
    BY <1>0, <2>2
  <2>11. \E pos3 : Placed(Append(ms, m), records, reasoning, E \cup {n}, pos3)
    <3> HIDE DEF E, m, ms
    <3> QED
      BY <1>0, <2>7, <2>9, <2>10, PlacedMore
  <2>12. Waits(NoPending, records, reasoning, n)
    BY <1>2, GroupIs, NothingWaits
  <2> QED
    BY <2>1, <2>5, <2>11, <2>12 DEF MergeInv
<1> QED
  BY <1>1, <1>2

LEMMA FlushType ==
  ASSUME NEW ms \in Seq(MessageType), NEW pending \in PendingType
  PROVE  Flush(ms, pending) \in Seq(MessageType)
<1>1. Message("assistant", pending.calls, NoId, pending.from) \in MessageType
  BY DEF Message, MessageType, PendingType, CallSet
<1> QED
  BY <1>1 DEF Flush

LEMMA MergeType ==
  ASSUME NEW records \in Seq(RowType), NEW reasoning \in BOOLEAN, NEW n \in 1 .. Len(records),
         NEW acc \in MergeState
  PROVE  Merge(records, reasoning, acc, n) \in MergeState
<1>0. records[n] \in RowType /\ n \in Nat
  OBVIOUS
<1>1. acc.messages \in Seq(MessageType) /\ acc.pending \in PendingType
  BY DEF MergeState
<1>2. CASE records[n].role = "assistant"
  <2> DEFINE r == ApplyRecord(acc.pending, records[n], n, reasoning)
             c == ApplyCalls(acc.pending.calls, records[n], n)
  <2>1. c \in CallSet
    <3>1. acc.pending.calls \in CallSet
      BY <1>1 DEF PendingType
    <3>2. /\ DOMAIN acc.pending.calls \subseteq Ids
          /\ \A id \in DOMAIN acc.pending.calls : acc.pending.calls[id] \in Seq(Nat)
      BY <3>1, CallsAre
    <3>3. records[n].calls \in SUBSET Ids
      BY <1>0 DEF RowType
    <3>4. <<n>> \in Seq(Nat)
      BY <1>0
    <3>5. c \in [DOMAIN acc.pending.calls \cup records[n].calls -> Seq(Nat)]
      BY <1>0, <3>2, <3>4 DEF ApplyCalls
    <3> HIDE DEF c
    <3>6. DOMAIN acc.pending.calls \cup records[n].calls \in SUBSET Ids
      BY <3>2, <3>3
    <3> QED
      BY <3>5, <3>6 DEF CallSet
  <2>2. r \in PendingType
    BY <1>0, <1>1, <2>1 DEF ApplyRecord, PendingType
  <2>3. Merge(records, reasoning, acc, n) = [acc EXCEPT !.pending = r]
    BY <1>2 DEF Merge
  <2> HIDE DEF r
  <2> QED
    BY <2>2, <2>3 DEF MergeState
<1>3. CASE records[n].role # "assistant"
  <2>1. Message(records[n].role, NoCalls, records[n].id, {n}) \in MessageType
    BY <1>0, NoCallsIs DEF Message, MessageType, RowType, CallSet
  <2>2. NoPending \in PendingType
    BY NoCallsIs DEF NoPending, PendingType
  <2>3. Flush(acc.messages, acc.pending) \in Seq(MessageType)
    BY <1>1, FlushType
  <2> QED
    BY <1>3, <2>1, <2>2, <2>3 DEF Merge, MergeState
<1> QED
  BY <1>2, <1>3

\* The rows a message may end with.
Closed(records) ==
  {q \in 1 .. Len(records) : \/ records[q].role # "assistant" \/ q = Len(records)
                             \/ records[q + 1].role # "assistant"}

LEMMA MergedIs ==
  ASSUME NEW records \in Seq(RowType)
  PROVE  \E pos : Placed(MergedMessages(records), records, UsesTools(records), Closed(records), pos)
<1> DEFINE N == Len(records)
           b == UsesTools(records)
<1>0. N \in Nat /\ b \in BOOLEAN
  BY DEF UsesTools
<1> HIDE DEF b
<1>1. NoMessages \in MergeState
  BY NoCallsIs DEF NoMessages, MergeState, NoPending, PendingType
<1>2. \A k \in 1 .. N, acc \in MergeState : Merge(records, UsesTools(records), acc, k) \in MergeState
  BY <1>0, MergeType DEF b
<1>3. PICK st : /\ st[0] = NoMessages
                /\ \A n \in 0 .. N : st[n] \in MergeState
                /\ \A n \in 1 .. N : st[n] = Merge(records, UsesTools(records), st[n - 1], n)
                /\ MergedMessages(records) = Flush(st[N].messages, st[N].pending)
  BY <1>1, <1>2, MergedAlong
<1> DEFINE Some == {n \in Nat : n <= N => MergeInv(st[n], records, b, n)}
<1>4. 0 \in Some
  <2>1. Out(records, 0) = {} /\ Group(records, 0) = {} /\ 1 .. 0 = {}
    BY DEF Out, Group
  <2>2. st[0].messages = <<>> /\ st[0].pending = NoPending
    BY <1>3 DEF NoMessages
  <2>3. Placed(<<>>, records, b, {}, [i \in 1 .. 0 |-> 0])
    BY <2>1 DEF Placed
  <2>4. MergeInv(st[0], records, b, 0)
    BY <2>1, <2>2, <2>3, NothingWaits DEF MergeInv
  <2> QED
    BY <2>4
<1>5. ASSUME NEW n \in Nat, n \in Some PROVE n + 1 \in Some
  <2> SUFFICES ASSUME n + 1 <= N PROVE MergeInv(st[n + 1], records, b, n + 1)
    OBVIOUS
  <2> DEFINE k == n + 1
  <2>1. k \in 1 .. N /\ k - 1 \in 0 .. N /\ k - 1 = n /\ MergeInv(st[n], records, b, n)
    BY <1>0, <1>5
  <2> HIDE DEF k
  <2>2. st[k] = Merge(records, b, st[k - 1], k) /\ st[k - 1] \in MergeState
    BY <1>3, <2>1 DEF b
  <2>3. MergeInv(st[k - 1], records, b, k - 1)
    BY <2>1
  <2>4. MergeInv(st[k], records, b, k)
    BY <1>0, <2>1, <2>2, <2>3, MergeStep
  <2> QED
    BY <2>4 DEF k
<1>6. MergeInv(st[N], records, b, N)
  <2>1. Nat \subseteq Some
    <3> HIDE DEF Some
    <3> QED
      BY <1>4, <1>5, InductionOverSet
  <2> QED
    BY <1>0, <2>1
<1> DEFINE D == Out(records, N)
           E == IF N > 0 /\ records[N].role = "assistant" THEN D \cup {N} ELSE D
           ms == MergedMessages(records)
<1>7. D \in SUBSET (1 .. N)
  BY DEF Out
<1>8. PICK pos : Placed(st[N].messages, records, b, D, pos)
  BY <1>6 DEF MergeInv
<1>9. Waits(st[N].pending, records, b, N)
  BY <1>6 DEF MergeInv
<1>10. E = Closed(records)
  <2>1. ASSUME NEW q PROVE q \in E <=> q \in Closed(records)
    <3>1. CASE q \in 1 .. N /\ q # N
      <4>1. q < N
        BY <1>0, <3>1
      <4> QED
        BY <3>1, <4>1 DEF Out, Closed
    <3>2. CASE q \in 1 .. N /\ q = N
      <4>1. N > 0 /\ ~(N < N)
        BY <1>0, <3>2
      <4> QED
        BY <3>2, <4>1 DEF Out, Closed
    <3>3. CASE q \notin 1 .. N
      <4>1. N > 0 => N \in 1 .. N
        BY <1>0
      <4> QED
        BY <3>3, <4>1 DEF Out, Closed
    <3> QED
      BY <3>1, <3>2, <3>3
  <2> HIDE DEF E
  <2> QED
    BY <2>1
<1>11. \E p : Placed(ms, records, b, E, p)
  <2>1. CASE N \notin D
    <3>1. N \in 0 .. Len(records)
      BY <1>0
    <3>2. ms = Flush(st[N].messages, st[N].pending)
      BY <1>3
    <3> HIDE DEF D, ms
    <3>3. \E p : Placed(Flush(st[N].messages, st[N].pending), records, b,
                        IF N > 0 /\ records[N].role = "assistant" THEN D \cup {N} ELSE D, p)
      BY <1>0, <1>7, <1>8, <1>9, <2>1, <3>1, FlushIs
    <3> QED
      BY <3>2, <3>3
  <2>2. CASE N \in D
    <3>1. N \in 1 .. N /\ records[N].role # "assistant" /\ ~(N < N)
      BY <1>0, <2>2 DEF Out
    <3>2. Group(records, N) = {}
      BY <3>1, GroupIs
    <3>3. st[N].pending = NoPending
      <4>1. st[N].pending = [calls |-> st[N].pending.calls, from |-> st[N].pending.from]
            /\ st[N].pending.calls \in CallSet
        BY <1>9 DEF Waits, PendingType
      <4>2. DOMAIN st[N].pending.calls = {} /\ st[N].pending.from = {}
        BY <1>9, <3>2 DEF Waits, Tells, FromOf
      <4> QED
        BY <4>1, <4>2, CallsAre DEF NoPending
    <3>4. ms = st[N].messages
      BY <1>3, <3>3 DEF Flush
    <3>5. E = D
      BY <3>1
    <3> QED
      BY <1>8, <3>4, <3>5
  <2> QED
    BY <2>1, <2>2
<1> HIDE DEF E, ms
<1> QED
  BY <1>10, <1>11 DEF b, ms

\* Whatever rows are stored, in whatever order: what is assembled of them is
\* accepted.
LEMMA AssembledAccepted ==
  ASSUME NEW records \in Seq(RowType)
  PROVE  Accepted(ValidMessages(MergedMessages(records)))
<1> DEFINE ms == MergedMessages(records)
           a == ValidMessages(ms)
<1>1. PICK pos : Placed(ms, records, UsesTools(records), Closed(records), pos)
  BY MergedIs
<1> HIDE DEF ms
<1>2. ms \in Seq(MessageType)
  BY <1>1 DEF Placed
<1>3. a \in Seq(MessageType) /\ \E sel : Selects(a, ms, Len(ms), sel)
  BY <1>2, ValidIs
<1>4. \A i \in 1 .. Len(ms) : ms[i].role = "user" => ms[i].calls = NoCalls
  <2> SUFFICES ASSUME NEW i \in 1 .. Len(ms), ms[i].role = "user" PROVE ms[i].calls = NoCalls
    OBVIOUS
  <2>1. IsMessage(ms[i], records, UsesTools(records), pos[i])
    BY <1>1 DEF Placed
  <2>2. ms[i] = Message(records[pos[i]].role, NoCalls, records[pos[i]].id, {pos[i]})
    BY <2>1 DEF IsMessage
  <2>3. \A role, id, from : Message(role, NoCalls, id, from).calls = NoCalls
    BY DEF Message
  <2> QED
    BY <2>2, <2>3
<1> HIDE DEF a
<1>5. Accepted(a)
  BY <1>2, <1>3, <1>4, SelectedAccepted
<1> QED
  BY <1>5 DEF ms, a

-----------------------------------------------------------------------------
(* The rows of a turn.                                                      *)

\* The types of the variables.
RowTypes ==
  rows \in Seq(RowType) /\ todo \in Seq(Ids) /\ lost \in BOOLEAN /\ whole \in Nat

\* A result of the call `id` is directly behind row q.
Answered(q, id) == \E j \in Answers(rows, q) : rows[j].id = id
\* The rows behind q, up to n, are tool results of its round.
RoundOf(q, n) == rows[q].role = "assistant" /\ \A m \in q + 1 .. n : rows[m].role = "tool"

\* A prompt, and behind it rows of rounds; a round without calls is the last one.
RowShape ==
  /\ rows # <<>> /\ rows[1] = Prompt
  /\ \A k \in 2 .. Len(rows) : rows[k].role \in {"assistant", "tool"}
  /\ \A k \in 1 .. Len(rows) :
       IF rows[k].role = "assistant"
         THEN /\ rows[k].id = NoId /\ (rows[k].text \/ rows[k].calls = {})
              /\ rows[k].calls = {} => k = Len(rows)
         ELSE rows[k].calls = {}

\* A tool result answers the assistant row of its round, and is the only one of its call.
ResultsOwned ==
  \A k \in 1 .. Len(rows) : rows[k].role = "tool" =>
    \E q \in 1 .. k - 1 : /\ RoundOf(q, k) /\ rows[k].id \in rows[q].calls
                          /\ \A m \in q + 1 .. k - 1 : rows[m].id # rows[k].id

\* What is to be written are the calls of the newest round that have no result, once each.
TodoInv ==
  todo # <<>> =>
    /\ \A x, y \in 1 .. Len(todo) : todo[x] = todo[y] => x = y
    /\ \E q \in 1 .. Len(rows) :
         /\ RoundOf(q, Len(rows))
         /\ \A id \in Ids : (\E x \in 1 .. Len(todo) : todo[x] = id)
              <=> id \in rows[q].calls /\ \A m \in q + 1 .. Len(rows) : rows[m].id # id

\* A call without a result was lost or is still to be written, and is behind the whole rounds.
WholeInv ==
  /\ whole \in 1 .. Len(rows)
  /\ ~lost /\ todo = <<>> => whole = Len(rows)
  /\ \A q \in 1 .. Len(rows) : rows[q].role = "assistant" =>
       \A id \in rows[q].calls :
         \/ Answered(q, id)
         \/ q > whole /\ lost
         \/ q > whole /\ RoundOf(q, Len(rows)) /\ \E x \in 1 .. Len(todo) : todo[x] = id

RowsInv == RowTypes /\ RowShape /\ ResultsOwned /\ TodoInv /\ WholeInv

LEMMA SetToSeqsIs ==
  ASSUME NEW S \in SUBSET Ids, NEW order \in SetToSeqs(S)
  PROVE  /\ order \in Seq(S)
         /\ \A x, y \in 1 .. Len(order) : order[x] = order[y] => x = y
         /\ \A id \in S : \E x \in 1 .. Len(order) : order[x] = id
<1> DEFINE n == Cardinality(S)
<1>1. IsFiniteSet(S) /\ n \in Nat
  BY ContextAssemblyAssumption, FS_Subset, FS_CardinalityType
<1>2. order \in [1 .. n -> S] /\ \A i, j \in 1 .. n : i # j => order[i] # order[j]
  BY DEF SetToSeqs
<1>3. order \in Seq(S) /\ Len(order) = n
  BY <1>1, <1>2
<1>4. IsFiniteSet(1 .. n) /\ Cardinality(1 .. n) = n
  <2>1. 1 \in Int /\ n \in Int
    BY <1>1
  <2>2. Cardinality(1 .. n) = IF 1 > n THEN 0 ELSE n - 1 + 1
    BY <2>1, FS_Interval
  <2>3. IsFiniteSet(1 .. n)
    BY <2>1, FS_Interval
  <2> QED
    BY <1>1, <2>2, <2>3
<1>5. order \in Injection(1 .. n, S)
  BY <1>2 DEF Injection, IsInjective
<1>6. order \in Surjection(1 .. n, S)
  BY <1>1, <1>4, <1>5, FS_Injection
<1> QED
  BY <1>2, <1>3, <1>6 DEF Surjection

LEMMA RowsInit == Init => RowsInv
<1> SUFFICES ASSUME Init PROVE RowsInv
  OBVIOUS
<1>1. rows = <<Prompt>> /\ todo = <<>> /\ lost = FALSE /\ whole = 1
  BY DEF Init
<1>2. Prompt \in RowType /\ Prompt.role = "user" /\ Prompt.calls = {}
  BY DEF Prompt, Row, RowType
<1>3. /\ rows \in Seq(RowType) /\ Len(rows) = 1 /\ rows[1] = Prompt /\ rows # <<>>
      /\ \A k \in 1 .. 1 : k = 1
  BY <1>1, <1>2
<1>4. RowTypes
  <2>1. <<>> \in Seq(Ids) /\ FALSE \in BOOLEAN /\ 1 \in Nat
    OBVIOUS
  <2> QED
    BY <1>1, <1>3, <2>1, Zenon DEF RowTypes
<1>5. RowShape
  <2>1. 2 .. 1 = {}
    OBVIOUS
  <2> QED
    BY <1>2, <1>3, <2>1 DEF RowShape
<1>6. ResultsOwned
  BY <1>2, <1>3 DEF ResultsOwned
<1>7. TodoInv
  BY <1>1 DEF TodoInv
<1>8. WholeInv
  BY <1>1, <1>2, <1>3 DEF WholeInv
<1> QED
  BY <1>4, <1>5, <1>6, <1>7, <1>8 DEF RowsInv

\* A row behind the others leaves what was said of them.
LEMMA Appended ==
  ASSUME NEW row \in RowType, rows \in Seq(RowType), rows' = Append(rows, row)
  PROVE  /\ rows' \in Seq(RowType) /\ Len(rows') = Len(rows) + 1 /\ Len(rows) \in Nat
         /\ \A k \in 1 .. Len(rows) : rows'[k] = rows[k]
         /\ rows'[Len(rows) + 1] = row
         /\ \A k : k \in 1 .. Len(rows') <=> k \in 1 .. Len(rows) \/ k = Len(rows) + 1
         /\ \A id : \A q \in 1 .. Len(rows) : Answered(q, id) => Answered(q, id)'
<1>1. /\ rows' \in Seq(RowType) /\ Len(rows') = Len(rows) + 1 /\ Len(rows) \in Nat
      /\ \A k \in 1 .. Len(rows) : rows'[k] = rows[k]
      /\ rows'[Len(rows) + 1] = row
  BY AppendProperties
<1>2. \A k : k \in 1 .. Len(rows') <=> k \in 1 .. Len(rows) \/ k = Len(rows) + 1
  BY <1>1
<1>3. ASSUME NEW q \in 1 .. Len(rows), NEW id, Answered(q, id) PROVE Answered(q, id)'
  <2>1. PICK j \in Answers(rows, q) : rows[j].id = id
    BY <1>3 DEF Answered
  <2>2. j \in q + 1 .. Len(rows) /\ \A m \in q + 1 .. j : rows[m].role = "tool"
    BY <2>1 DEF Answers
  <2>3. /\ j \in 1 .. Len(rows) /\ j \in q + 1 .. Len(rows')
        /\ \A m \in q + 1 .. j : m \in 1 .. Len(rows)
    BY <1>1, <2>2
  <2>4. j \in Answers(rows', q) /\ rows'[j].id = id
    BY <1>1, <2>1, <2>2, <2>3 DEF Answers
  <2> QED
    BY <2>4 DEF Answered
<1> QED
  BY <1>1, <1>2, <1>3

LEMMA OneRound ==
  ASSUME RowTypes, NEW n \in 1 .. Len(rows), NEW p \in 1 .. n, NEW q \in 1 .. n,
         RoundOf(p, n), RoundOf(q, n)
  PROVE  p = q
<1>1. p < q => q \in p + 1 .. n
  BY DEF RowTypes
<1>2. q < p => p \in q + 1 .. n
  BY DEF RowTypes
<1> QED
  BY <1>1, <1>2 DEF RoundOf

LEMMA ToolWritten ==
  ASSUME RowsInv, WriteTool
  PROVE  RowsInv'
<1>00. rows \in Seq(RowType)
  BY DEF RowsInv, RowTypes
<1> PICK n \in Nat : n = Len(rows)
  BY <1>00
<1> PICK new : new = Head(todo)
  OBVIOUS
<1> PICK row : row = ToolRow(new)
  OBVIOUS
<1>0. /\ rows \in Seq(RowType) /\ n \in Nat /\ todo \in Seq(Ids) /\ todo # <<>>
      /\ rows' = Append(rows, row) /\ todo' = Tail(todo) /\ lost' = lost
      /\ whole' = IF ~lost /\ Tail(todo) = <<>> THEN n + 1 ELSE whole
      /\ lost \in BOOLEAN /\ whole \in Nat
  BY DEF RowsInv, RowTypes, WriteTool, Write
<1>1. /\ new \in Ids /\ Tail(todo) \in Seq(Ids) /\ Len(Tail(todo)) = Len(todo) - 1
      /\ Len(todo) \in Nat \ {0} /\ todo[1] = new
      /\ \A x \in 1 .. Len(todo) - 1 : Tail(todo)[x] = todo[x + 1]
  BY <1>0, HeadTailProperties, EmptySeq
<1>2. row \in RowType /\ row.role = "tool" /\ row.calls = {} /\ row.id = new
  BY <1>1 DEF ToolRow, Row, RowType
<1>3. /\ rows' \in Seq(RowType) /\ Len(rows') = n + 1
      /\ \A k \in 1 .. n : rows'[k] = rows[k]
      /\ rows'[n + 1] = row
      /\ \A k : k \in 1 .. n + 1 <=> k \in 1 .. n \/ k = n + 1
      /\ \A id : \A q \in 1 .. n : Answered(q, id) => Answered(q, id)'
  BY <1>0, <1>2, Appended
<1>4. PICK q0 \in 1 .. n :
        /\ RoundOf(q0, n)
        /\ \A id \in Ids : (\E x \in 1 .. Len(todo) : todo[x] = id)
             <=> id \in rows[q0].calls /\ \A m \in q0 + 1 .. n : rows[m].id # id
  BY <1>0 DEF RowsInv, TodoInv
<1>5. new \in rows[q0].calls /\ \A m \in q0 + 1 .. n : rows[m].id # new
  <2>1. 1 \in 1 .. Len(todo)
    BY <1>1
  <2> QED
    BY <1>1, <1>4, <2>1
<1>6. \A q \in 1 .. n : RoundOf(q, n) => RoundOf(q, n + 1)'
  <2> SUFFICES ASSUME NEW q \in 1 .. n, RoundOf(q, n), NEW m \in q + 1 .. n + 1
               PROVE  rows'[q].role = "assistant" /\ rows'[m].role = "tool"
    BY DEF RoundOf
  <2>1. m \in 1 .. n + 1 /\ (m # n + 1 => m \in q + 1 .. n)
    OBVIOUS
  <2> QED
    BY <1>2, <1>3, <2>1 DEF RoundOf
<1>7. \A k \in 1 .. n : \A q \in 1 .. k : RoundOf(q, k) => RoundOf(q, k)'
  <2> SUFFICES ASSUME NEW k \in 1 .. n, NEW q \in 1 .. k, RoundOf(q, k), NEW m \in q + 1 .. k
               PROVE  rows'[q].role = "assistant" /\ rows'[m].role = "tool"
    <3>1. \A k \in 1 .. n : \A q \in 1 .. k : q \in 1 .. n
      BY <1>0
    <3> QED
      BY <1>3, <3>1 DEF RoundOf
  <2>1. m \in 1 .. n /\ q \in 1 .. n
    BY <1>0
  <2> QED
    BY <1>3, <2>1 DEF RoundOf
<1>8. RowTypes'
  BY <1>0, <1>1, <1>3 DEF RowTypes
<1>9. RowShape'
  <2>1. rows # <<>> /\ n >= 1 /\ 1 \in 1 .. n /\ rows[1] = Prompt
    BY <1>0, <1>4 DEF RowsInv, RowShape
  <2>2. rows' # <<>> /\ rows'[1] = Prompt
    BY <1>0, <1>3, <2>1
  <2>3. ASSUME NEW k \in 2 .. n + 1 PROVE rows'[k].role \in {"assistant", "tool"}
    <3>1. k = n + 1 \/ k \in 2 .. n
      BY <1>0
    <3>2. k \in 2 .. n => k \in 1 .. n
      BY <1>0
    <3> QED
      BY <1>2, <1>3, <3>1, <3>2 DEF RowsInv, RowShape
  <2>4. ASSUME NEW k \in 1 .. n, rows[k].role = "assistant" PROVE rows[k].calls # {}
    <3> SUFFICES ASSUME rows[k].calls = {} PROVE FALSE
      OBVIOUS
    <3>1. k = n
      BY <1>0, <2>4 DEF RowsInv, RowShape
    <3>2. q0 # n => n \in q0 + 1 .. n
      OBVIOUS
    <3> QED
      BY <1>4, <1>5, <2>4, <3>1, <3>2 DEF RoundOf
  <2>5. ASSUME NEW k \in 1 .. n + 1
        PROVE  IF rows'[k].role = "assistant"
                 THEN /\ rows'[k].id = NoId /\ (rows'[k].text \/ rows'[k].calls = {})
                      /\ rows'[k].calls = {} => k = n + 1
                 ELSE rows'[k].calls = {}
    <3>1. CASE k = n + 1
      BY <1>2, <1>3, <3>1
    <3>2. CASE k \in 1 .. n
      BY <1>3, <2>4, <3>2 DEF RowsInv, RowShape
    <3> QED
      BY <1>3, <3>1, <3>2
  <2> QED
    BY <1>3, <2>2, <2>3, <2>5 DEF RowShape
<1>10. ResultsOwned'
  <2> SUFFICES ASSUME NEW k \in 1 .. n + 1, rows'[k].role = "tool"
               PROVE  \E q \in 1 .. k - 1 :
                        /\ RoundOf(q, k)' /\ rows'[k].id \in rows'[q].calls
                        /\ \A m \in q + 1 .. k - 1 : rows'[m].id # rows'[k].id
    BY <1>3 DEF ResultsOwned
  <2>1. CASE k = n + 1
    <3>1. q0 \in 1 .. k - 1 /\ k - 1 = n /\ \A m \in q0 + 1 .. n : m \in 1 .. n
      BY <1>0, <2>1
    <3> QED
      BY <1>2, <1>3, <1>4, <1>5, <1>6, <2>1, <3>1
  <2>2. CASE k \in 1 .. n
    <3>1. PICK q \in 1 .. k - 1 : /\ RoundOf(q, k) /\ rows[k].id \in rows[q].calls
                                   /\ \A m \in q + 1 .. k - 1 : rows[m].id # rows[k].id
      BY <1>3, <2>2 DEF RowsInv, ResultsOwned
    <3>2. q \in 1 .. n /\ q \in 1 .. k /\ \A m \in q + 1 .. k - 1 : m \in 1 .. n
      BY <1>0, <2>2
    <3> QED
      BY <1>3, <1>7, <2>2, <3>1, <3>2
  <2> QED
    BY <1>3, <2>1, <2>2
<1>11. \A id \in Ids : (\E x \in 1 .. Len(Tail(todo)) : Tail(todo)[x] = id)
                        <=> id # new /\ \E x \in 1 .. Len(todo) : todo[x] = id
  <2> SUFFICES ASSUME NEW id \in Ids
               PROVE  (\E x \in 1 .. Len(Tail(todo)) : Tail(todo)[x] = id)
                        <=> id # new /\ \E x \in 1 .. Len(todo) : todo[x] = id
    OBVIOUS
  <2>1. \A x, y \in 1 .. Len(todo) : todo[x] = todo[y] => x = y
    BY <1>0 DEF RowsInv, TodoInv
  <2>2. ASSUME NEW x \in 1 .. Len(Tail(todo)), Tail(todo)[x] = id
        PROVE  id # new /\ \E y \in 1 .. Len(todo) : todo[y] = id
    <3>1. x + 1 \in 1 .. Len(todo) /\ x + 1 # 1 /\ 1 \in 1 .. Len(todo) /\ todo[x + 1] = id
      BY <1>1, <2>2
    <3> QED
      BY <1>1, <2>1, <3>1
  <2>3. ASSUME id # new, NEW x \in 1 .. Len(todo), todo[x] = id
        PROVE  \E y \in 1 .. Len(Tail(todo)) : Tail(todo)[y] = id
    <3>1. x # 1
      BY <1>1, <2>3
    <3>2. x - 1 \in 1 .. Len(Tail(todo)) /\ (x - 1) + 1 = x
      BY <1>1, <3>1
    <3> QED
      BY <1>1, <2>3, <3>2
  <2> QED
    BY <2>2, <2>3
<1>12. TodoInv'
  <2> SUFFICES ASSUME Tail(todo) # <<>>
               PROVE  /\ \A x, y \in 1 .. Len(Tail(todo)) : Tail(todo)[x] = Tail(todo)[y] => x = y
                      /\ \E q \in 1 .. n + 1 :
                           /\ RoundOf(q, n + 1)'
                           /\ \A id \in Ids : (\E x \in 1 .. Len(Tail(todo)) : Tail(todo)[x] = id)
                                <=> id \in rows'[q].calls /\ \A m \in q + 1 .. n + 1 : rows'[m].id # id
    <3>1. Len(rows') = n + 1 /\ todo' = Tail(todo)
      BY <1>0, <1>3
    <3> QED
      BY <3>1 DEF TodoInv
  <2>1. \A x, y \in 1 .. Len(Tail(todo)) : Tail(todo)[x] = Tail(todo)[y] => x = y
    <3>1. \A x, y \in 1 .. Len(todo) : todo[x] = todo[y] => x = y
      BY <1>0 DEF RowsInv, TodoInv
    <3>2. \A x \in 1 .. Len(Tail(todo)) : x + 1 \in 1 .. Len(todo) /\ Tail(todo)[x] = todo[x + 1]
      BY <1>1
    <3> QED
      BY <1>1, <3>1, <3>2
  <2>2. q0 \in 1 .. n + 1 /\ \A m : m \in q0 + 1 .. n + 1 <=> m \in q0 + 1 .. n \/ m = n + 1
    OBVIOUS
  <2>3. \A m \in q0 + 1 .. n : m \in 1 .. n
    OBVIOUS
  <2>4. \A id \in Ids : (\E x \in 1 .. Len(Tail(todo)) : Tail(todo)[x] = id)
           <=> id \in rows'[q0].calls /\ \A m \in q0 + 1 .. n + 1 : rows'[m].id # id
    <3> SUFFICES ASSUME NEW id \in Ids
                 PROVE  (\E x \in 1 .. Len(Tail(todo)) : Tail(todo)[x] = id)
                          <=> id \in rows'[q0].calls /\ \A m \in q0 + 1 .. n + 1 : rows'[m].id # id
      OBVIOUS
    <3>1. (\E x \in 1 .. Len(todo) : todo[x] = id)
             <=> id \in rows[q0].calls /\ \A m \in q0 + 1 .. n : rows[m].id # id
      BY <1>4
    <3>2. (\A m \in q0 + 1 .. n + 1 : rows'[m].id # id)
             <=> id # new /\ \A m \in q0 + 1 .. n : rows[m].id # id
      BY <1>2, <1>3, <2>2, <2>3
    <3>3. rows'[q0] = rows[q0]
      BY <1>3
    <3> QED
      BY <1>11, <3>1, <3>2, <3>3
  <2> QED
    BY <1>4, <1>6, <2>1, <2>2, <2>4
<1>13. WholeInv'
  <2>1. whole' \in 1 .. n + 1 /\ (~lost /\ Tail(todo) = <<>> => whole' = n + 1)
    BY <1>0 DEF RowsInv, WholeInv
  <2>2. ASSUME NEW q \in 1 .. n, rows[q].role = "assistant", NEW id \in rows[q].calls
        PROVE  \/ Answered(q, id)'
               \/ q > whole' /\ lost
               \/ q > whole' /\ RoundOf(q, n + 1)' /\ \E x \in 1 .. Len(Tail(todo)) : Tail(todo)[x] = id
    <3>0. id \in Ids
      <4>1. rows[q] \in RowType
        BY <1>0
      <4> QED
        BY <2>2, <4>1 DEF RowType
    <3>1. \/ Answered(q, id)
          \/ q > whole /\ lost
          \/ q > whole /\ RoundOf(q, n) /\ \E x \in 1 .. Len(todo) : todo[x] = id
      BY <2>2 DEF RowsInv, WholeInv
    <3>2. CASE Answered(q, id)
      BY <1>3, <3>2
    <3>3. CASE q > whole /\ lost
      BY <1>0, <3>3
    <3>4. CASE q > whole /\ RoundOf(q, n) /\ \E x \in 1 .. Len(todo) : todo[x] = id
      <4>1. CASE id = new
        <5>1. n + 1 \in q + 1 .. n + 1
          BY <1>0
        <5>2. n + 1 \in Answers(rows', q)
          BY <1>3, <1>6, <3>4, <5>1 DEF Answers, RoundOf
        <5> QED
          BY <1>2, <1>3, <4>1, <5>2 DEF Answered
      <4>2. CASE id # new
        <5>1. \E x \in 1 .. Len(Tail(todo)) : Tail(todo)[x] = id
          BY <1>11, <3>0, <3>4, <4>2
        <5>2. Tail(todo) # <<>>
          <6>1. Tail(todo) = <<>> => Len(Tail(todo)) = 0
            BY <1>1, EmptySeq
          <6>2. 1 .. 0 = {}
            OBVIOUS
          <6> QED
            BY <5>1, <6>1, <6>2
        <5> QED
          BY <1>0, <1>6, <3>4, <5>1, <5>2
      <4> QED
        BY <4>1, <4>2
    <3> QED
      BY <3>1, <3>2, <3>3, <3>4
  <2>3. Len(rows') = n + 1 /\ todo' = Tail(todo) /\ lost' = lost
    BY <1>0, <1>3
  <2>4. ASSUME NEW q \in 1 .. n + 1, rows'[q].role = "assistant", NEW id \in rows'[q].calls
        PROVE  q \in 1 .. n /\ rows'[q] = rows[q]
    BY <1>2, <1>3, <2>4
  <2> QED
    BY <2>1, <2>2, <2>3, <2>4 DEF WholeInv
<1> QED
  BY <1>8, <1>9, <1>10, <1>12, <1>13 DEF RowsInv

LEMMA AssistantWritten ==
  ASSUME RowsInv, NEW cs \in SUBSET Ids, WriteAssistant(cs)
  PROVE  RowsInv'
<1>00. rows \in Seq(RowType)
  BY DEF RowsInv, RowTypes
<1> PICK n \in Nat : n = Len(rows)
  BY <1>00
<1> PICK order \in SetToSeqs(cs), text \in BOOLEAN :
      (text \/ cs = {}) /\ Write(AssistantRow(cs, text), order)
  BY DEF WriteAssistant
<1> PICK row : row = AssistantRow(cs, text)
  OBVIOUS
<1>0. /\ rows \in Seq(RowType) /\ n \in Nat /\ todo = <<>> /\ ~Ended
      /\ rows' = Append(rows, row) /\ todo' = order /\ lost' = lost
      /\ whole' = IF ~lost /\ order = <<>> THEN n + 1 ELSE whole
      /\ lost \in BOOLEAN /\ whole \in Nat
  BY DEF RowsInv, RowTypes, WriteAssistant, Write
<1>1. /\ order \in Seq(cs) /\ order \in Seq(Ids)
      /\ \A x, y \in 1 .. Len(order) : order[x] = order[y] => x = y
      /\ \A id \in Ids : (\E x \in 1 .. Len(order) : order[x] = id) <=> id \in cs
  <2>1. /\ order \in Seq(cs)
        /\ \A x, y \in 1 .. Len(order) : order[x] = order[y] => x = y
        /\ \A id \in cs : \E x \in 1 .. Len(order) : order[x] = id
    BY SetToSeqsIs
  <2>2. \A x \in 1 .. Len(order) : order[x] \in cs
    BY <2>1
  <2>3. order \in Seq(Ids)
    BY <2>1, <2>2
  <2> QED
    BY <2>1, <2>2, <2>3
<1>2. /\ row \in RowType /\ row.role = "assistant" /\ row.calls = cs
      /\ row.id = NoId /\ row.text = text
  BY DEF AssistantRow, Row, RowType
<1>3. /\ rows' \in Seq(RowType) /\ Len(rows') = n + 1
      /\ \A k \in 1 .. n : rows'[k] = rows[k]
      /\ rows'[n + 1] = row
      /\ \A k : k \in 1 .. n + 1 <=> k \in 1 .. n \/ k = n + 1
      /\ \A id : \A q \in 1 .. n : Answered(q, id) => Answered(q, id)'
  BY <1>0, <1>2, Appended
<1>4. n >= 1 /\ 1 \in 1 .. n /\ rows[1] = Prompt /\ whole \in 1 .. n
  <2>1. n # 0
    BY <1>0, EmptySeq DEF RowsInv, RowShape
  <2> QED
    BY <2>1 DEF RowsInv, RowShape, WholeInv
<1>5. \A q \in 1 .. n, k \in 1 .. n : RoundOf(q, k) => RoundOf(q, k)'
  <2> SUFFICES ASSUME NEW q \in 1 .. n, NEW k \in 1 .. n, RoundOf(q, k), NEW m \in q + 1 .. k
               PROVE  rows'[q].role = "assistant" /\ rows'[m].role = "tool"
    BY <1>3 DEF RoundOf
  <2>1. m \in 1 .. n
    OBVIOUS
  <2> QED
    BY <1>3, <2>1 DEF RoundOf
<1>6. RoundOf(n + 1, n + 1)'
  <2>1. (n + 1) + 1 .. n + 1 = {}
    OBVIOUS
  <2> QED
    BY <1>2, <1>3, <2>1 DEF RoundOf
<1>7. RowTypes'
  <2>1. whole' \in Nat
    BY <1>0
  <2> QED
    BY <1>0, <1>1, <1>3, <2>1 DEF RowTypes
<1>8. RowShape'
  <2>1. rows' # <<>> /\ rows'[1] = Prompt
    BY <1>0, <1>3, <1>4
  <2>2. ASSUME NEW k \in 2 .. n + 1 PROVE rows'[k].role \in {"assistant", "tool"}
    <3>1. k = n + 1 \/ k \in 2 .. n
      BY <1>0
    <3>2. k \in 2 .. n => k \in 1 .. n
      BY <1>0
    <3> QED
      BY <1>2, <1>3, <3>1, <3>2 DEF RowsInv, RowShape
  <2>3. ASSUME NEW k \in 1 .. n, rows[k].role = "assistant" PROVE rows[k].calls # {}
    <3> SUFFICES ASSUME rows[k].calls = {} PROVE FALSE
      OBVIOUS
    <3>1. k = n
      BY <1>0, <2>3 DEF RowsInv, RowShape
    <3> QED
      BY <1>0, <2>3, <3>1 DEF Ended, Last
  <2>4. ASSUME NEW k \in 1 .. n + 1
        PROVE  IF rows'[k].role = "assistant"
                 THEN /\ rows'[k].id = NoId /\ (rows'[k].text \/ rows'[k].calls = {})
                      /\ rows'[k].calls = {} => k = n + 1
                 ELSE rows'[k].calls = {}
    <3>1. CASE k = n + 1
      BY <1>2, <1>3, <3>1
    <3>2. CASE k \in 1 .. n
      BY <1>3, <2>3, <3>2 DEF RowsInv, RowShape
    <3> QED
      BY <1>3, <3>1, <3>2
  <2> QED
    BY <1>3, <2>1, <2>2, <2>4 DEF RowShape
<1>9. ResultsOwned'
  <2> SUFFICES ASSUME NEW k \in 1 .. n + 1, rows'[k].role = "tool"
               PROVE  \E q \in 1 .. k - 1 :
                        /\ RoundOf(q, k)' /\ rows'[k].id \in rows'[q].calls
                        /\ \A m \in q + 1 .. k - 1 : rows'[m].id # rows'[k].id
    BY <1>3 DEF ResultsOwned
  <2>1. k \in 1 .. n /\ rows'[k] = rows[k]
    BY <1>2, <1>3
  <2>2. PICK q \in 1 .. k - 1 : /\ RoundOf(q, k) /\ rows[k].id \in rows[q].calls
                                 /\ \A m \in q + 1 .. k - 1 : rows[m].id # rows[k].id
    BY <2>1 DEF RowsInv, ResultsOwned
  <2>3. q \in 1 .. n /\ \A m \in q + 1 .. k - 1 : m \in 1 .. n
    BY <1>0, <2>1
  <2> QED
    BY <1>3, <1>5, <2>1, <2>2, <2>3
<1>10. TodoInv'
  <2>1. n + 1 \in 1 .. n + 1 /\ (n + 1) + 1 .. n + 1 = {}
    OBVIOUS
  <2>2. \A id \in Ids : (\E x \in 1 .. Len(order) : order[x] = id)
           <=> id \in rows'[n + 1].calls /\ \A m \in (n + 1) + 1 .. n + 1 : rows'[m].id # id
    BY <1>1, <1>2, <1>3, <2>1
  <2>3. \E q \in 1 .. n + 1 :
          /\ RoundOf(q, n + 1)'
          /\ \A id \in Ids : (\E x \in 1 .. Len(order) : order[x] = id)
               <=> id \in rows'[q].calls /\ \A m \in q + 1 .. n + 1 : rows'[m].id # id
    BY <1>6, <2>1, <2>2
  <2>4. Len(rows') = n + 1 /\ todo' = order
    BY <1>0, <1>3
  <2>5. \A x, y \in 1 .. Len(order) : order[x] = order[y] => x = y
    BY <1>1
  <2> QED
    BY <2>3, <2>4, <2>5 DEF TodoInv
<1>11. WholeInv'
  <2>1. whole' \in 1 .. n + 1 /\ (~lost /\ order = <<>> => whole' = n + 1)
    BY <1>0, <1>4
  <2>2. ASSUME NEW q \in 1 .. n, rows[q].role = "assistant", NEW id \in rows[q].calls
        PROVE  \/ Answered(q, id)'
               \/ q > whole' /\ lost
    <3>1. \/ Answered(q, id)
          \/ q > whole /\ lost
          \/ q > whole /\ RoundOf(q, n) /\ \E x \in 1 .. Len(todo) : todo[x] = id
      BY <2>2 DEF RowsInv, WholeInv
    <3>2. 1 .. Len(todo) = {}
      BY <1>0
    <3> QED
      BY <1>0, <1>3, <3>1, <3>2
  <2>3. ASSUME NEW id \in cs
        PROVE  \/ n + 1 > whole' /\ lost
               \/ n + 1 > whole' /\ \E x \in 1 .. Len(order) : order[x] = id
    <3>1. \E x \in 1 .. Len(order) : order[x] = id
      BY <1>1, <2>3
    <3>2. order # <<>>
      <4>1. order = <<>> => Len(order) = 0
        OBVIOUS
      <4>2. 1 .. 0 = {}
        OBVIOUS
      <4> QED
        BY <3>1, <4>1, <4>2
    <3>3. n + 1 > whole'
      BY <1>0, <1>4, <3>2
    <3> QED
      BY <3>1, <3>3
  <2>4. Len(rows') = n + 1 /\ todo' = order /\ lost' = lost
    BY <1>0, <1>3
  <2>5. ASSUME NEW q \in 1 .. n + 1, rows'[q].role = "assistant", NEW id \in rows'[q].calls
        PROVE  \/ Answered(q, id)'
               \/ q > whole' /\ lost
               \/ q > whole' /\ RoundOf(q, n + 1)' /\ \E x \in 1 .. Len(order) : order[x] = id
    <3>1. CASE q = n + 1
      BY <1>2, <1>3, <1>6, <2>3, <2>5, <3>1
    <3>2. CASE q \in 1 .. n
      BY <1>3, <2>2, <2>5, <3>2
    <3> QED
      BY <1>3, <3>1, <3>2
  <2> QED
    BY <2>1, <2>4, <2>5 DEF WholeInv
<1> QED
  BY <1>7, <1>8, <1>9, <1>10, <1>11 DEF RowsInv

LEMMA RestLost ==
  ASSUME RowsInv, LoseRest
  PROVE  RowsInv'
<1>1. rows' = rows /\ whole' = whole /\ todo' = <<>> /\ lost' = TRUE
  BY DEF LoseRest
<1>2. RowTypes'
  <2>1. <<>> \in Seq(Ids) /\ TRUE \in BOOLEAN
    OBVIOUS
  <2> QED
    BY <1>1, <2>1 DEF RowsInv, RowTypes
<1>3. RowShape' /\ ResultsOwned'
  BY <1>1 DEF RowsInv, RowShape, ResultsOwned, RoundOf
<1>4. TodoInv'
  <2>1. (todo # <<>>)' <=> FALSE
    BY <1>1
  <2> QED
    BY <2>1 DEF TodoInv
<1>5. WholeInv'
  <2>1. \A q, id : Answered(q, id)' <=> Answered(q, id)
    BY <1>1 DEF Answered
  <2> QED
    BY <1>1, <2>1 DEF RowsInv, WholeInv
<1> QED
  BY <1>2, <1>3, <1>4, <1>5 DEF RowsInv

LEMMA RowsStep == RowsInv /\ [Next]_vars => RowsInv'
<1> SUFFICES ASSUME RowsInv, [Next]_vars PROVE RowsInv'
  OBVIOUS
<1>1. CASE WriteTool
  BY <1>1, ToolWritten
<1>2. CASE LoseRest
  BY <1>2, RestLost
<1>3. ASSUME NEW cs \in SUBSET Ids, WriteAssistant(cs) PROVE RowsInv'
  BY <1>3, AssistantWritten
<1>4. CASE UNCHANGED vars
  <2>1. rows' = rows /\ whole' = whole /\ todo' = todo /\ lost' = lost
    BY <1>4 DEF vars
  <2>2. \A q, id : Answered(q, id)' <=> Answered(q, id)
    BY <2>1 DEF Answered
  <2>3. \A q, n : RoundOf(q, n)' <=> RoundOf(q, n)
    BY <2>1 DEF RoundOf
  <2>4. RowTypes' /\ RowShape' /\ ResultsOwned'
    BY <2>1, <2>3 DEF RowsInv, RowTypes, RowShape, ResultsOwned
  <2>5. TodoInv'
    BY <2>1, <2>3 DEF RowsInv, TodoInv
  <2>6. WholeInv'
    BY <2>1, <2>2, <2>3 DEF RowsInv, WholeInv
  <2> QED
    BY <2>4, <2>5, <2>6 DEF RowsInv
<1> QED
  BY <1>1, <1>2, <1>3, <1>4 DEF Next

LEMMA RowsAlways == Spec => []RowsInv
  BY RowsInit, RowsStep, PTL DEF Spec

THEOREM AcceptedByProviderTheorem == Spec => []AcceptedByProvider
<1>1. RowsInv => AcceptedByProvider
  BY AssembledAccepted DEF RowsInv, RowTypes, AcceptedByProvider, Accepted, Assembled
<1> QED
  BY <1>1, RowsAlways, PTL

-----------------------------------------------------------------------------
(* What the messages of a turn are told of.                                 *)

\* pos names the rows that the merged messages end with, sel the merged messages
\* that are left.
Told(ms, pos, a, sel) ==
  /\ Placed(ms, rows, UsesTools(rows), Closed(rows), pos)
  /\ a \in Seq(MessageType) /\ Selects(a, ms, Len(ms), sel)

LEMMA AssembledIs ==
  ASSUME RowsInv
  PROVE  \E ms, pos, sel : Told(ms, pos, Assembled, sel)
<1> DEFINE ms == MergedMessages(rows)
<1>1. rows \in Seq(RowType)
  BY DEF RowsInv, RowTypes
<1>2. PICK pos : Placed(ms, rows, UsesTools(rows), Closed(rows), pos)
  BY <1>1, MergedIs
<1>3. Assembled = ValidMessages(ms)
  BY DEF Assembled
<1> HIDE DEF ms
<1>4. ms \in Seq(MessageType)
  BY <1>2 DEF Placed
<1>5. Assembled \in Seq(MessageType) /\ \E sel : Selects(Assembled, ms, Len(ms), sel)
  BY <1>3, <1>4, ValidIs
<1> QED
  BY <1>2, <1>5 DEF Told

\* What the messages tell.
LEMMA RolesAre ==
  ASSUME RowsInv, NEW ms, NEW pos,
         Placed(ms, rows, UsesTools(rows), Closed(rows), pos)
  PROVE  \A i \in 1 .. Len(ms) :
           /\ ms[i].role = rows[pos[i]].role
           /\ rows[pos[i]].role # "assistant" => ms[i].calls = NoCalls /\ ms[i].id = rows[pos[i]].id
           /\ rows[pos[i]].role # "assistant" => ms[i].from = {pos[i]}
<1> TAKE i \in 1 .. Len(ms)
<1>1. IsMessage(ms[i], rows, UsesTools(rows), pos[i])
  BY DEF Placed
<1>2. \A role, id, from : /\ Message(role, NoCalls, id, from).role = role
                          /\ Message(role, NoCalls, id, from).calls = NoCalls
                          /\ Message(role, NoCalls, id, from).id = id
                          /\ Message(role, NoCalls, id, from).from = from
  BY DEF Message
<1> QED
  BY <1>1, <1>2 DEF IsMessage

\* The places of the messages.
LEMMA PlacesAre ==
  ASSUME RowsInv, NEW ms, NEW pos,
         Placed(ms, rows, UsesTools(rows), Closed(rows), pos)
  PROVE  /\ Len(ms) \in Nat /\ Len(rows) \in Nat /\ rows \in Seq(RowType)
         /\ \A i \in 1 .. Len(ms) : pos[i] \in 1 .. Len(rows) /\ pos[i] \in Closed(rows)
         /\ \A i, j \in 1 .. Len(ms) : i < j => pos[i] < pos[j]
         /\ \A i, j \in 1 .. Len(ms) : pos[i] < pos[j] => i < j
         /\ \A q \in Closed(rows) : ~Silent(rows, UsesTools(rows), q) => \E i \in 1 .. Len(ms) : pos[i] = q
         /\ \A q \in 1 .. Len(rows) :
              rows[q].role # "assistant" => \E i \in 1 .. Len(ms) : pos[i] = q
         /\ \A q \in Closed(rows) : rows[q].calls # {} => \E i \in 1 .. Len(ms) : pos[i] = q
<1>1. Len(ms) \in Nat /\ Len(rows) \in Nat /\ rows \in Seq(RowType) /\ ms \in Seq(MessageType)
  BY DEF RowsInv, RowTypes, Placed
<1>2. \A i, j \in 1 .. Len(ms) : i < j => pos[i] < pos[j]
  BY DEF Placed
<1>3. Closed(rows) \subseteq 1 .. Len(rows)
  BY DEF Closed
<1>4. \A i \in 1 .. Len(ms) : pos[i] \in 1 .. Len(rows) /\ pos[i] \in Closed(rows)
  BY <1>3 DEF Placed
<1>5. \A i, j \in 1 .. Len(ms) : pos[i] < pos[j] => i < j
  <2> SUFFICES ASSUME NEW i \in 1 .. Len(ms), NEW j \in 1 .. Len(ms), pos[i] < pos[j] PROVE i < j
    OBVIOUS
  <2>1. pos[i] \in 1 .. Len(rows) /\ pos[j] \in 1 .. Len(rows)
    BY <1>4
  <2>2. j < i => pos[j] < pos[i]
    BY <1>2
  <2> QED
    BY <1>1, <2>1, <2>2
<1>6. \A q \in Closed(rows) : ~Silent(rows, UsesTools(rows), q) => \E i \in 1 .. Len(ms) : pos[i] = q
  BY DEF Placed
<1>7. \A q \in 1 .. Len(rows) : rows[q].role # "assistant" => \E i \in 1 .. Len(ms) : pos[i] = q
  BY <1>6 DEF Closed, Silent
<1>8. \A q \in Closed(rows) : rows[q].calls # {} => \E i \in 1 .. Len(ms) : pos[i] = q
  <2> SUFFICES ASSUME NEW q \in Closed(rows), rows[q].calls # {},
                      Silent(rows, UsesTools(rows), q)
               PROVE  FALSE
    BY <1>6
  <2>1. q \in 1 .. q /\ \A m \in q .. q : m = q
    BY <1>1, <1>3
  <2>2. q \in Group(rows, q)
    BY <2>1 DEF Silent, Group
  <2> QED
    BY <2>2 DEF Silent
<1> QED
  BY <1>1, <1>2, <1>4, <1>5, <1>6, <1>7, <1>8

\* The next message is a result just if the next row is.
LEMMA NextTold ==
  ASSUME RowsInv, NEW ms, NEW pos,
         Placed(ms, rows, UsesTools(rows), Closed(rows), pos), NEW i \in 1 .. Len(ms)
  PROVE  /\ i + 1 <= Len(ms) /\ ms[i + 1].role = "tool"
              <=> pos[i] + 1 <= Len(rows) /\ rows[pos[i] + 1].role = "tool"
         /\ i + 1 <= Len(ms) /\ ms[i + 1].role = "tool" => pos[i + 1] = pos[i] + 1
<1>1. /\ Len(ms) \in Nat /\ Len(rows) \in Nat
      /\ \A x \in 1 .. Len(ms) : pos[x] \in 1 .. Len(rows)
      /\ \A x, y \in 1 .. Len(ms) : x < y => pos[x] < pos[y]
      /\ \A x, y \in 1 .. Len(ms) : pos[x] < pos[y] => x < y
      /\ \A q \in 1 .. Len(rows) : rows[q].role # "assistant" => \E x \in 1 .. Len(ms) : pos[x] = q
      /\ \A q \in Closed(rows) : rows[q].calls # {} => \E x \in 1 .. Len(ms) : pos[x] = q
  BY PlacesAre
<1>0. \A x \in 1 .. Len(ms) : ms[x].role = rows[pos[x]].role
  BY RolesAre
<1>2. pos[i] \in 1 .. Len(rows) /\ i \in Nat /\ pos[i] \in Nat
  BY <1>1
<1>3. ASSUME pos[i] + 1 <= Len(rows), rows[pos[i] + 1].role = "tool"
      PROVE  i + 1 <= Len(ms) /\ ms[i + 1].role = "tool" /\ pos[i + 1] = pos[i] + 1
  <2>1. pos[i] + 1 \in 1 .. Len(rows)
    BY <1>1, <1>2, <1>3
  <2>2. PICK x \in 1 .. Len(ms) : pos[x] = pos[i] + 1
    BY <1>1, <1>3, <2>1
  <2>3. i < x
    BY <1>1, <1>2, <2>2
  <2>4. i + 1 \in 1 .. Len(ms) /\ i < i + 1 /\ (i + 1 < x \/ i + 1 = x)
    BY <1>1, <2>3
  <2>5. pos[i] < pos[i + 1] /\ pos[i + 1] \in Nat /\ (i + 1 < x => pos[i + 1] < pos[x])
    BY <1>1, <2>4
  <2>6. i + 1 = x
    BY <1>2, <2>2, <2>4, <2>5
  <2> QED
    BY <1>0, <1>1, <1>3, <2>2, <2>4, <2>6
<1>4. ASSUME i + 1 <= Len(ms), ms[i + 1].role = "tool"
      PROVE  pos[i + 1] = pos[i] + 1
  <2>1. i + 1 \in 1 .. Len(ms) /\ i < i + 1
    BY <1>1, <1>4
  <2> DEFINE r == pos[i + 1]
  <2>2. r \in 1 .. Len(rows) /\ pos[i] < r /\ rows[r].role = "tool"
    BY <1>0, <1>1, <1>4, <2>1
  <2>3. ASSUME NEW x \in 1 .. Len(ms), pos[i] < pos[x], pos[x] < r PROVE FALSE
    <3>1. i < x /\ x < i + 1
      BY <1>1, <2>1, <2>3
    <3> QED
      BY <3>1
  <2> HIDE DEF r
  <2> SUFFICES ASSUME pos[i] + 1 < r PROVE FALSE
    BY <1>1, <1>2, <2>2 DEF r
  <2>4. PICK p \in 1 .. r - 1 : RoundOf(p, r) /\ rows[r].id \in rows[p].calls
    BY <2>2 DEF RowsInv, ResultsOwned
  <2>5. p \in 1 .. Len(rows) /\ p < r /\ p + 1 \in p + 1 .. r /\ p + 1 \in 1 .. Len(rows)
    BY <1>1, <2>2
  <2>6. CASE pos[i] < p
    <3>1. p \in Closed(rows) /\ rows[p].calls # {}
      BY <2>4, <2>5 DEF Closed, RoundOf
    <3>2. PICK x \in 1 .. Len(ms) : pos[x] = p
      BY <1>1, <3>1
    <3> QED
      BY <2>3, <2>5, <2>6, <3>2
  <2>7. CASE p <= pos[i]
    <3>1. pos[i] + 1 \in p + 1 .. r /\ pos[i] + 1 \in 1 .. Len(rows) /\ pos[i] < pos[i] + 1
      BY <1>1, <1>2, <2>2, <2>5, <2>7
    <3>2. rows[pos[i] + 1].role = "tool"
      BY <2>4, <3>1 DEF RoundOf
    <3>3. PICK x \in 1 .. Len(ms) : pos[x] = pos[i] + 1
      BY <1>1, <3>1, <3>2
    <3> QED
      BY <2>3, <3>1, <3>3
  <2> QED
    BY <1>2, <2>5, <2>6, <2>7
<1>5. ASSUME i + 1 <= Len(ms), ms[i + 1].role = "tool"
      PROVE  pos[i] + 1 <= Len(rows) /\ rows[pos[i] + 1].role = "tool"
  <2>1. i + 1 \in 1 .. Len(ms)
    BY <1>1, <1>5
  <2> QED
    BY <1>0, <1>1, <1>4, <1>5, <2>1
<1> QED
  BY <1>3, <1>4, <1>5

\* The results behind a message are the tool rows behind its last row.
LEMMA FollowingIs ==
  ASSUME RowsInv, NEW ms, NEW pos,
         Placed(ms, rows, UsesTools(rows), Closed(rows), pos), NEW i \in 1 .. Len(ms)
  PROVE  FollowingIds(ms, i) = {rows[j].id : j \in Answers(rows, pos[i])}
<1> PICK q : q = pos[i]
  OBVIOUS
<1>1. Len(ms) \in Nat /\ Len(rows) \in Nat /\ q \in 1 .. Len(rows) /\ i \in Nat /\ q \in Nat
  BY PlacesAre
<1>0. /\ \A x \in 1 .. Len(ms) : rows[pos[x]].role # "assistant" => ms[x].id = rows[pos[x]].id
      /\ \A x \in 1 .. Len(ms) : ms[x].role = rows[pos[x]].role
  BY RolesAre
<1> DEFINE Before(d) == i + d <= Len(ms) /\ \A m \in i + 1 .. i + d : ms[m].role = "tool"
           Under(d) == q + d <= Len(rows) /\ \A m \in q + 1 .. q + d : rows[m].role = "tool"
           Some == {d \in Nat : (Before(d) <=> Under(d)) /\ (Before(d) => pos[i + d] = q + d)}
<1>2. 0 \in Some
  <2>1. i + 1 .. i + 0 = {} /\ q + 1 .. q + 0 = {} /\ i + 0 = i /\ q + 0 = q
    BY <1>1
  <2>2. Before(0) /\ Under(0) /\ pos[i + 0] = q + 0
    BY <1>1, <2>1
  <2> QED
    BY <2>2
<1>3. ASSUME NEW d \in Nat, d \in Some PROVE d + 1 \in Some
  <2>1. /\ \A m : m \in i + 1 .. i + (d + 1) <=> m \in i + 1 .. i + d \/ m = (i + d) + 1
        /\ \A m : m \in q + 1 .. q + (d + 1) <=> m \in q + 1 .. q + d \/ m = (q + d) + 1
        /\ i + (d + 1) = (i + d) + 1 /\ q + (d + 1) = (q + d) + 1
        /\ ((i + d) + 1 <= Len(ms) => i + d <= Len(ms))
        /\ ((q + d) + 1 <= Len(rows) => q + d <= Len(rows))
    BY <1>1
  <2>2. Before(d + 1) <=> Before(d) /\ (i + d) + 1 <= Len(ms) /\ ms[(i + d) + 1].role = "tool"
    BY <2>1
  <2>3. Under(d + 1) <=> Under(d) /\ (q + d) + 1 <= Len(rows) /\ rows[(q + d) + 1].role = "tool"
    BY <2>1
  <2>4. Before(d) =>
          /\ (i + d) + 1 <= Len(ms) /\ ms[(i + d) + 1].role = "tool"
               <=> (q + d) + 1 <= Len(rows) /\ rows[(q + d) + 1].role = "tool"
          /\ (i + d) + 1 <= Len(ms) /\ ms[(i + d) + 1].role = "tool" => pos[(i + d) + 1] = (q + d) + 1
    <3> SUFFICES ASSUME Before(d)
                 PROVE  /\ (i + d) + 1 <= Len(ms) /\ ms[(i + d) + 1].role = "tool"
                             <=> (q + d) + 1 <= Len(rows) /\ rows[(q + d) + 1].role = "tool"
                        /\ (i + d) + 1 <= Len(ms) /\ ms[(i + d) + 1].role = "tool" =>
                             pos[(i + d) + 1] = (q + d) + 1
      OBVIOUS
    <3>1. i + d \in 1 .. Len(ms) /\ pos[i + d] = q + d
      BY <1>1, <1>3
    <3> QED
      BY <3>1, NextTold
  <2>5. (Before(d) <=> Under(d)) /\ (Before(d) => pos[i + d] = q + d)
    BY <1>3
  <2> HIDE DEF Before, Under
  <2>6. (Before(d + 1) <=> Under(d + 1)) /\ (Before(d + 1) => pos[i + (d + 1)] = q + (d + 1))
    BY <2>1, <2>2, <2>3, <2>4, <2>5
  <2> QED
    BY <2>6
<1>4. Nat \subseteq Some
  <2> HIDE DEF Some
  <2> QED
    BY <1>2, <1>3, InductionOverSet
<1>5. \A d \in Nat : (Before(d) <=> Under(d)) /\ (Before(d) => pos[i + d] = q + d)
  BY <1>4
<1>6. ASSUME NEW j \in i + 1 .. Len(ms), \A m \in i + 1 .. j : ms[m].role = "tool"
      PROVE  \E r \in Answers(rows, q) : rows[r].id = ms[j].id
  <2> PICK d \in Nat : d = j - i
    BY <1>1
  <2>1. i + d = j /\ d >= 1 /\ j \in i + 1 .. j
    BY <1>1
  <2>2. Before(d)
    BY <1>1, <1>6, <2>1
  <2>3. Under(d) /\ pos[j] = q + d
    BY <1>5, <2>1, <2>2
  <2>4. q + d \in q + 1 .. Len(rows) /\ \A m \in q + 1 .. q + d : rows[m].role = "tool"
    BY <1>1, <2>1, <2>3
  <2>5. rows[q + d].role = "tool" /\ j \in 1 .. Len(ms)
    <3>1. q + d \in q + 1 .. q + d
      BY <2>1, <1>1
    <3> QED
      BY <1>1, <2>4, <3>1
  <2> QED
    BY <1>0, <1>1, <2>3, <2>4, <2>5 DEF Answers
<1>7. ASSUME NEW r \in Answers(rows, q)
      PROVE  \E j \in {x \in i + 1 .. Len(ms) : \A m \in i + 1 .. x : ms[m].role = "tool"} :
               ms[j].id = rows[r].id
  <2>0. r \in q + 1 .. Len(rows) /\ \A m \in q + 1 .. r : rows[m].role = "tool"
    BY DEF Answers
  <2> PICK d \in Nat : d = r - q
    BY <1>1, <2>0
  <2>1. q + d = r /\ d >= 1 /\ r \in q + 1 .. r
    BY <1>1, <2>0
  <2>2. Under(d)
    BY <1>1, <2>0, <2>1
  <2>3. Before(d) /\ pos[i + d] = r
    BY <1>5, <2>1, <2>2
  <2>4. /\ i + d \in i + 1 .. Len(ms) /\ \A m \in i + 1 .. i + d : ms[m].role = "tool"
        /\ i + d \in 1 .. Len(ms) /\ rows[r].role = "tool"
    <3>1. i + d \in i + 1 .. Len(ms) /\ i + d \in 1 .. Len(ms)
      BY <1>1, <2>1, <2>3
    <3>2. \A m \in i + 1 .. i + d : ms[m].role = "tool"
      BY <2>3
    <3> QED
      BY <2>0, <2>1, <3>1, <3>2
  <2> QED
    BY <1>0, <1>1, <2>3, <2>4
<1> HIDE DEF Before, Under, Some
<1> QED
  BY <1>6, <1>7 DEF FollowingIds

\* A rising f that takes each of the first n values takes them at their places.
Rising(f, L) ==
  /\ L \in Nat /\ \A i \in 1 .. L : f[i] \in Nat \ {0}
  /\ \A i, j \in 1 .. L : i < j => f[i] < f[j]
Takes(f, L, n) == n \in Nat /\ \A k \in 1 .. n : \E i \in 1 .. L : f[i] = k

LEMMA FirstPlaces ==
  ASSUME NEW L, NEW n, NEW f, Rising(f, L), Takes(f, L, n)
  PROVE  \A k \in 1 .. n : k \in 1 .. L /\ f[k] = k
<1>0. /\ L \in Nat /\ n \in Nat /\ \A i \in 1 .. L : f[i] \in Nat \ {0}
      /\ \A i, j \in 1 .. L : i < j => f[i] < f[j]
      /\ \A k \in 1 .. n : \E i \in 1 .. L : f[i] = k
  BY DEF Rising, Takes
<1> DEFINE Some == {k \in Nat : \A x \in 1 .. k : x <= n => x \in 1 .. L /\ f[x] = x}
<1>1. 0 \in Some
  <2>1. 1 .. 0 = {}
    OBVIOUS
  <2> QED
    BY <2>1
<1>2. ASSUME NEW k \in Nat, k \in Some PROVE k + 1 \in Some
  <2>1. \A x : x \in 1 .. k + 1 <=> x \in 1 .. k \/ x = k + 1
    OBVIOUS
  <2>2. ASSUME k + 1 <= n PROVE k + 1 \in 1 .. L /\ f[k + 1] = k + 1
    <3>1. k + 1 \in 1 .. n
      BY <1>0, <2>2
    <3>2. PICK i \in 1 .. L : f[i] = k + 1
      BY <1>0, <3>1
    <3>3. i \in Nat /\ i >= 1
      OBVIOUS
    <3>4. CASE i <= k
      <4>1. i \in 1 .. k /\ i <= n
        BY <1>0, <2>2, <3>3, <3>4
      <4>2. f[i] = i
        BY <1>2, <4>1
      <4> QED
        BY <3>2, <3>4, <4>2
    <3>5. CASE i > k + 1
      <4>1. k + 1 \in 1 .. L
        BY <1>0, <3>5
      <4>2. f[k + 1] < k + 1 /\ f[k + 1] \in Nat \ {0}
        BY <1>0, <3>2, <3>5, <4>1
      <4>3. k >= 1
        BY <4>2
      <4>4. k \in 1 .. k /\ k <= n /\ k < k + 1
        BY <1>0, <2>2, <4>3
      <4>5. k \in 1 .. L /\ f[k] = k
        BY <1>2, <4>4
      <4>6. f[k] < f[k + 1]
        BY <1>0, <4>1, <4>4, <4>5
      <4> QED
        BY <4>2, <4>5, <4>6
    <3> QED
      BY <3>2, <3>3, <3>4, <3>5
  <2> QED
    BY <1>2, <2>1, <2>2
<1>3. Nat \subseteq Some
  <2> HIDE DEF Some
  <2> QED
    BY <1>1, <1>2, InductionOverSet
<1>4. n \in Some
  BY <1>0, <1>3
<1> QED
  BY <1>0, <1>4

LEMMA SelectedAre ==
  ASSUME RowsInv, NEW ms, NEW pos, NEW a, NEW sel, Told(ms, pos, a, sel)
  PROVE  /\ Placed(ms, rows, UsesTools(rows), Closed(rows), pos)
         /\ Len(a) \in Nat /\ Len(ms) \in Nat /\ ms \in Seq(MessageType) /\ DOMAIN a = 1 .. Len(a)
         /\ \A j \in 1 .. Len(a) : sel[j] \in 1 .. Len(ms) /\ a[j] = ms[sel[j]] /\ Kept(ms, sel[j])
         /\ \A i, j \in 1 .. Len(a) : i < j => sel[i] < sel[j]
         /\ \A i \in 1 .. Len(ms) : Kept(ms, i) => \E j \in 1 .. Len(a) : sel[j] = i
<1>1. ms \in Seq(MessageType) /\ a \in Seq(MessageType)
  BY DEF Told, Placed
<1>2. Len(a) \in Nat /\ Len(ms) \in Nat /\ DOMAIN a = 1 .. Len(a)
  BY <1>1
<1> QED
  BY <1>1, <1>2 DEF Told, Selects

\* A message tells of rows between the ones the messages around it end with.
LEMMA TellsWithin ==
  ASSUME RowsInv, NEW ms, NEW pos,
         Placed(ms, rows, UsesTools(rows), Closed(rows), pos)
  PROVE  /\ \A i \in 1 .. Len(ms) : \A x \in ms[i].from : x \in 1 .. pos[i]
         /\ \A i, j \in 1 .. Len(ms) : i < j => \A y \in ms[j].from : pos[i] < y
<1>1. /\ Len(ms) \in Nat /\ Len(rows) \in Nat
      /\ \A i \in 1 .. Len(ms) : pos[i] \in 1 .. Len(rows) /\ pos[i] \in Closed(rows)
      /\ \A i, j \in 1 .. Len(ms) : i < j => pos[i] < pos[j]
  BY PlacesAre
<1>2. \A i \in 1 .. Len(ms) : ms[i].from = {pos[i]} \/ ms[i].from \subseteq Group(rows, pos[i])
  <2> TAKE i \in 1 .. Len(ms)
  <2>1. IsMessage(ms[i], rows, UsesTools(rows), pos[i])
    BY DEF Placed
  <2>2. \A role, id, from : Message(role, NoCalls, id, from).from = from
    BY DEF Message
  <2> QED
    BY <2>1, <2>2 DEF IsMessage, FromOf
<1>3. \A i \in 1 .. Len(ms) : \A x \in ms[i].from : x \in 1 .. pos[i]
  <2> SUFFICES ASSUME NEW i \in 1 .. Len(ms), NEW x \in ms[i].from PROVE x \in 1 .. pos[i]
    OBVIOUS
  <2>1. pos[i] \in 1 .. pos[i]
    BY <1>1
  <2> QED
    BY <1>2, <2>1 DEF Group
<1>4. ASSUME NEW i \in 1 .. Len(ms), NEW j \in 1 .. Len(ms), i < j, NEW y \in ms[j].from
      PROVE  pos[i] < y
  <2>1. pos[i] < pos[j] /\ pos[i] \in 1 .. Len(rows) /\ pos[j] \in 1 .. Len(rows)
    BY <1>1, <1>4
  <2>2. y \in 1 .. pos[j]
    BY <1>3
  <2> SUFFICES ASSUME y <= pos[i] PROVE FALSE
    BY <1>1, <2>1, <2>2
  <2>3. y \in Group(rows, pos[j])
    BY <1>1, <1>2, <2>1, <2>2
  <2>4. /\ pos[i] \in y .. pos[j] /\ pos[i] + 1 \in y .. pos[j] /\ pos[i] # Len(rows)
    BY <1>1, <2>1, <2>2
  <2>5. rows[pos[i]].role = "assistant" /\ rows[pos[i] + 1].role = "assistant"
    BY <2>3, <2>4 DEF Group
  <2> QED
    BY <1>1, <2>4, <2>5 DEF Closed
<1> QED
  BY <1>3, <1>4

LEMMA KeptFirst ==
  ASSUME RowsInv, NEW ms, NEW pos, NEW a, NEW sel, Told(ms, pos, a, sel)
  PROVE  /\ 1 \in 1 .. Len(ms) /\ pos[1] = 1 /\ 1 \in 1 .. Len(a) /\ sel[1] = 1
         /\ ms[1].role = "user" /\ ms[1].from = {1}
<1>1. /\ Len(ms) \in Nat /\ Len(rows) \in Nat
      /\ \A i \in 1 .. Len(ms) : pos[i] \in 1 .. Len(rows)
      /\ \A i, j \in 1 .. Len(ms) : i < j => pos[i] < pos[j]
      /\ \A q \in 1 .. Len(rows) : rows[q].role # "assistant" => \E i \in 1 .. Len(ms) : pos[i] = q
  BY SelectedAre, PlacesAre
<1>2. 1 \in 1 .. Len(rows) /\ rows[1].role = "user"
  BY <1>1 DEF RowsInv, RowShape, WholeInv, Prompt, Row
<1>3. \A k \in 1 .. 1 : k = 1
  OBVIOUS
<1>4. \A k \in 1 .. 1 : \E i \in 1 .. Len(ms) : pos[i] = k
  BY <1>1, <1>2, <1>3
<1>5. 1 \in 1 .. Len(ms) /\ pos[1] = 1
  <2>1. \A i \in 1 .. Len(ms) : pos[i] \in Nat \ {0}
    BY <1>1
  <2>2. Rising(pos, Len(ms)) /\ Takes(pos, Len(ms), 1)
    BY <1>1, <1>4, <2>1 DEF Rising, Takes
  <2>3. \A k \in 1 .. 1 : k \in 1 .. Len(ms) /\ pos[k] = k
    BY <2>2, FirstPlaces
  <2> QED
    BY <1>3, <2>3
<1>6. ms[1].role = "user" /\ ms[1].from = {1}
  BY <1>2, <1>5, SelectedAre, RolesAre
<1>7. Kept(ms, 1)
  BY <1>6 DEF Kept
<1>8. /\ Len(a) \in Nat /\ \A j \in 1 .. Len(a) : sel[j] \in Nat \ {0}
      /\ \A i, j \in 1 .. Len(a) : i < j => sel[i] < sel[j]
  BY SelectedAre
<1>9. \E j \in 1 .. Len(a) : sel[j] = 1
  BY <1>5, <1>7, SelectedAre
<1>10. \A k \in 1 .. 1 : k \in 1 .. Len(a) /\ sel[k] = k
  <2>1. Rising(sel, Len(a)) /\ Takes(sel, Len(a), 1)
    BY <1>3, <1>8, <1>9 DEF Rising, Takes
  <2> QED
    BY <2>1, FirstPlaces
<1> QED
  BY <1>3, <1>5, <1>6, <1>10

LEMMA ToldInOrder == RowsInv => InOrderOnce
<1> SUFFICES ASSUME RowsInv PROVE InOrderOnce
  OBVIOUS
<1> PICK a : a = Assembled
  OBVIOUS
<1>1. PICK ms, pos, sel : Told(ms, pos, a, sel)
  BY AssembledIs
<1>2. /\ Placed(ms, rows, UsesTools(rows), Closed(rows), pos)
      /\ Len(a) \in Nat /\ Len(ms) \in Nat /\ DOMAIN a = 1 .. Len(a)
      /\ \A j \in 1 .. Len(a) : sel[j] \in 1 .. Len(ms) /\ a[j] = ms[sel[j]]
      /\ \A i, j \in 1 .. Len(a) : i < j => sel[i] < sel[j]
  BY <1>1, SelectedAre
<1>3. 1 \in 1 .. Len(a) /\ a[1].from = {1}
  BY <1>1, <1>2, KeptFirst
<1>4. a # <<>>
  BY <1>2, <1>3
<1>5. ASSUME NEW i \in DOMAIN a, NEW j \in DOMAIN a, i < j, NEW x \in a[i].from, NEW y \in a[j].from
      PROVE  x < y
  <2>1. /\ sel[i] \in 1 .. Len(ms) /\ sel[j] \in 1 .. Len(ms) /\ sel[i] < sel[j]
        /\ x \in ms[sel[i]].from /\ y \in ms[sel[j]].from
    BY <1>2, <1>5
  <2>2. x \in 1 .. pos[sel[i]] /\ pos[sel[i]] < y /\ y \in 1 .. pos[sel[j]]
    BY <1>2, <2>1, TellsWithin
  <2>3. pos[sel[i]] \in 1 .. Len(rows) /\ pos[sel[j]] \in 1 .. Len(rows) /\ Len(rows) \in Nat
    BY <1>2, <2>1, PlacesAre
  <2> QED
    BY <2>2, <2>3
<1> QED
  BY <1>3, <1>4, <1>5 DEF InOrderOnce

\* The message of row k as it was.
OwnMessage(k) == Message(rows[k].role, [id \in rows[k].calls |-> <<k>>], rows[k].id, {k})

IdsOf(q) == {rows[j].id : j \in Answers(rows, q)}

LEMMA AloneIs ==
  ASSUME RowsInv, NEW q \in 2 .. Len(rows), rows[q].role = "assistant", rows[q - 1].role # "assistant"
  PROVE  Group(rows, q) = {q}
<1>0. rows \in Seq(RowType) /\ Len(rows) \in Nat
  BY DEF RowsInv, RowTypes
<1>1. q \in 1 .. Len(rows) /\ q - 1 \in 1 .. Len(rows)
  BY <1>0
<1>2. Group(rows, q) = Group(rows, q - 1) \cup {q}
  BY <1>0, <1>1, GroupIs
<1>3. Group(rows, q - 1) = {}
  BY <1>0, <1>1, GroupIs
<1> QED
  BY <1>2, <1>3

LEMMA TellsAlone ==
  ASSUME RowsInv, NEW q \in 1 .. Len(rows), Group(rows, q) = {q}, NEW c, Tells(c, rows, q)
  PROVE  c = [id \in rows[q].calls |-> <<q>>]
<1>0. rows[q] \in RowType /\ c \in CallSet
  BY DEF RowsInv, RowTypes, Tells
<1>1. rows[q].calls \in SUBSET Ids
  BY <1>0 DEF RowType
<1>2. DOMAIN c = rows[q].calls
  BY <1>1 DEF Tells
<1>3. ASSUME NEW id \in DOMAIN c PROVE c[id] = <<q>>
  <2>1. c[id] \in Seq(Nat)
    BY <1>0, CallsAre
  <2> PICK s \in Seq(Nat) : s = c[id]
    BY <2>1
  <2>2. /\ s # <<>> /\ \A x \in 1 .. Len(s) : s[x] = q
        /\ \A x, y \in 1 .. Len(s) : x < y => s[x] < s[y]
    BY DEF Tells
  <2> PICK n \in Nat : n = Len(s)
    OBVIOUS
  <2>3. n # 0
    BY <2>2, EmptySeq
  <2>4. ASSUME n > 1 PROVE FALSE
    <3>1. 1 \in 1 .. Len(s) /\ 2 \in 1 .. Len(s) /\ 1 < 2
      BY <2>3, <2>4
    <3>2. s[1] < s[2] /\ s[1] = q /\ s[2] = q
      BY <2>2, <3>1
    <3> QED
      BY <3>2
  <2>5. n = 1 /\ Len(s) = 1
    BY <2>3, <2>4
  <2>6. s[1] = q
    BY <2>2, <2>5
  <2> QED
    BY <2>5, <2>6
<1>4. c = [id \in DOMAIN c |-> c[id]]
  BY <1>0, CallsAre
<1> QED
  BY <1>2, <1>3, <1>4

\* A round with all its results, behind a row of another kind, becomes a message.
LEMMA CompleteIs ==
  ASSUME RowsInv, NEW ms, NEW pos,
         Placed(ms, rows, UsesTools(rows), Closed(rows), pos),
         NEW k \in 2 .. Len(rows), rows[k].role = "assistant", rows[k].calls \subseteq IdsOf(k),
         rows[k - 1].role # "assistant"
  PROVE  /\ rows[k].text => ~Silent(rows, UsesTools(rows), k)
         /\ Silent(rows, UsesTools(rows), k) => ~rows[k].text /\ ~UsesTools(rows) /\ rows[k].calls = {}
         /\ ~Silent(rows, UsesTools(rows), k) =>
              \E i \in 1 .. Len(ms) :
                /\ pos[i] = k /\ Kept(ms, i)
                /\ ms[i] = OwnMessage(k)
<1>0. /\ rows \in Seq(RowType) /\ Len(rows) \in Nat /\ k \in 1 .. Len(rows) /\ k \in Nat
      /\ rows[k] \in RowType
  BY DEF RowsInv, RowTypes
<1>1. Group(rows, k) = {k}
  BY AloneIs
<1>2. UsesTools(rows) \in BOOLEAN /\ (rows[k].calls # {} => UsesTools(rows))
  BY <1>0 DEF UsesTools
<1>3. FromOf(rows, UsesTools(rows), k) = IF rows[k].text \/ UsesTools(rows) THEN {k} ELSE {}
  BY <1>1 DEF FromOf
<1>4. Silent(rows, UsesTools(rows), k) <=> ~rows[k].text /\ ~UsesTools(rows) /\ rows[k].calls = {}
  BY <1>1, <1>3, <1>2 DEF Silent
<1>5. k \in Closed(rows)
  <2>1. CASE rows[k].calls = {}
    BY <1>0, <2>1 DEF Closed, RowsInv, RowShape
  <2>2. CASE rows[k].calls # {}
    <3>1. PICK j \in Answers(rows, k) : TRUE
      BY <2>2 DEF IdsOf
    <3>2. k + 1 \in k + 1 .. j /\ k + 1 \in 1 .. Len(rows)
      BY <1>0, <3>1 DEF Answers
    <3>3. rows[k + 1].role = "tool"
      BY <3>1, <3>2 DEF Answers
    <3> QED
      BY <1>0, <3>3 DEF Closed
  <2> QED
    BY <2>1, <2>2
<1>6. ASSUME ~Silent(rows, UsesTools(rows), k)
      PROVE  \E i \in 1 .. Len(ms) :
               /\ pos[i] = k /\ Kept(ms, i)
               /\ ms[i] = OwnMessage(k)
  <2>1. PICK i \in 1 .. Len(ms) : pos[i] = k
    BY <1>5, <1>6, PlacesAre
  <2>2. IsMessage(ms[i], rows, UsesTools(rows), k)
    BY <2>1 DEF Placed
  <2>3. /\ ms[i] \in MessageType /\ ms[i].role = "assistant" /\ ms[i].id = NoId
        /\ ms[i].from = {k} /\ Tells(ms[i].calls, rows, k)
    BY <1>2, <1>3, <1>4, <1>6, <2>2 DEF IsMessage
  <2>4. ms[i].calls = [id \in rows[k].calls |-> <<k>>]
    BY <1>0, <1>1, <2>3, TellsAlone
  <2>5. ms[i] = Message(ms[i].role, ms[i].calls, ms[i].id, ms[i].from)
    BY <2>3 DEF MessageType, Message
  <2>7. rows[k].id = NoId
    BY <1>0 DEF RowsInv, RowShape
  <2>6. Kept(ms, i)
    <3>1. FollowingIds(ms, i) = IdsOf(k)
      BY <2>1, FollowingIs DEF IdsOf
    <3>2. DOMAIN ms[i].calls = rows[k].calls
      BY <2>4
    <3> QED
      BY <2>3, <3>1, <3>2 DEF Kept, Opens
  <2> QED
    BY <2>1, <2>3, <2>4, <2>5, <2>6, <2>7 DEF OwnMessage
<1> QED
  BY <1>4, <1>6

LEMMA LossIsLocal == RowsInv => LossStaysLocal
<1> SUFFICES ASSUME RowsInv, NEW k \in DOMAIN rows, Complete(k), rows[k].text,
                    rows[k - 1].role # "assistant"
             PROVE  \E j \in DOMAIN Assembled : Assembled[j].from = {k}
  BY DEF LossStaysLocal
<1> PICK a : a = Assembled
  OBVIOUS
<1>1. PICK ms, pos, sel : Told(ms, pos, a, sel)
  BY AssembledIs
<1>2. /\ Placed(ms, rows, UsesTools(rows), Closed(rows), pos) /\ DOMAIN a = 1 .. Len(a)
      /\ \A j \in 1 .. Len(a) : a[j] = ms[sel[j]]
      /\ \A i \in 1 .. Len(ms) : Kept(ms, i) => \E j \in 1 .. Len(a) : sel[j] = i
  BY <1>1, SelectedAre
<1>3. /\ k \in 2 .. Len(rows) /\ rows[k].role = "assistant" /\ rows[k].calls \subseteq IdsOf(k)
  <2>1. k \in 1 .. Len(rows) /\ Len(rows) \in Nat
    BY DEF RowsInv, RowTypes
  <2>2. rows[k].role = "assistant" /\ rows[k].calls \subseteq IdsOf(k)
    BY DEF Complete, IdsOf
  <2>3. k # 1
    BY <2>2 DEF RowsInv, RowShape, Prompt, Row
  <2> QED
    BY <2>1, <2>2, <2>3
<1>4. PICK i \in 1 .. Len(ms) :
        /\ pos[i] = k /\ Kept(ms, i)
        /\ ms[i] = OwnMessage(k)
  <2>1. ~Silent(rows, UsesTools(rows), k)
    BY <1>2, <1>3, CompleteIs
  <2> QED
    BY <1>2, <1>3, <2>1, CompleteIs
<1>5. PICK j \in 1 .. Len(a) : sel[j] = i
  BY <1>2, <1>4
<1>6. a[j].from = {k}
  BY <1>2, <1>4, <1>5 DEF OwnMessage, Message
<1> QED
  BY <1>2, <1>6

LEMMA WholeRows ==
  ASSUME RowsInv, NEW k \in 1 .. whole
  PROVE  /\ k \in 1 .. Len(rows) /\ Len(rows) \in Nat /\ whole \in 1 .. Len(rows)
         /\ rows[k].role = "assistant" =>
              k \in 2 .. Len(rows) /\ rows[k].calls \subseteq IdsOf(k) /\ rows[k - 1].role # "assistant"
<1>0. rows \in Seq(RowType) /\ Len(rows) \in Nat /\ whole \in 1 .. Len(rows)
  BY DEF RowsInv, RowTypes, WholeInv
<1>1. ASSUME NEW q \in 1 .. whole, rows[q].role = "assistant" PROVE rows[q].calls \subseteq IdsOf(q)
  <2> SUFFICES ASSUME NEW id \in rows[q].calls PROVE id \in IdsOf(q)
    OBVIOUS
  <2>1. q \in 1 .. Len(rows) /\ ~(q > whole)
    BY <1>0
  <2>2. Answered(q, id)
    BY <1>1, <2>1 DEF RowsInv, WholeInv
  <2> QED
    BY <2>2 DEF Answered, IdsOf
<1>2. ASSUME rows[k].role = "assistant"
      PROVE  k \in 2 .. Len(rows) /\ rows[k].calls \subseteq IdsOf(k) /\ rows[k - 1].role # "assistant"
  <2>1. k # 1
    BY <1>2 DEF RowsInv, RowShape, Prompt, Row
  <2>2. k \in 2 .. Len(rows) /\ k - 1 \in 1 .. whole /\ k - 1 \in 1 .. Len(rows) /\ k - 1 # Len(rows)
    BY <1>0, <2>1
  <2>3. ASSUME rows[k - 1].role = "assistant" PROVE FALSE
    <3>1. rows[k - 1].calls # {}
      BY <2>2, <2>3 DEF RowsInv, RowShape
    <3>2. PICK j \in Answers(rows, k - 1) : TRUE
      BY <1>1, <2>2, <2>3, <3>1 DEF IdsOf
    <3>3. k \in (k - 1) + 1 .. j
      BY <1>0, <3>2 DEF Answers
    <3> QED
      BY <1>2, <3>2, <3>3 DEF Answers
  <2> QED
    BY <1>1, <1>2, <2>2, <2>3
<1> QED
  BY <1>0, <1>2

\* Only an answer of nothing but reasoning is silent in whole rounds.
LEMMA SilentIs ==
  ASSUME RowsInv, NEW ms, NEW pos, NEW a, NEW sel, Told(ms, pos, a, sel),
         NEW k \in 1 .. whole, Silent(rows, UsesTools(rows), k)
  PROVE  k = 2 /\ rows[k].role = "assistant" /\ ~rows[k].text /\ Len(a) = 1 /\ k = Len(rows)
<1>0. /\ k \in 1 .. Len(rows) /\ Len(rows) \in Nat /\ rows[k].role = "assistant"
      /\ Placed(ms, rows, UsesTools(rows), Closed(rows), pos)
  BY WholeRows, SelectedAre DEF Silent
<1>1. k \in 2 .. Len(rows) /\ rows[k].calls \subseteq IdsOf(k) /\ rows[k - 1].role # "assistant"
  BY <1>0, WholeRows
<1>2. ~rows[k].text /\ ~UsesTools(rows) /\ rows[k].calls = {}
  BY <1>0, <1>1, CompleteIs
<1>3. k = Len(rows)
  BY <1>0, <1>2 DEF RowsInv, RowShape
<1>4. k = 2
  <2>1. k - 1 \in 2 .. Len(rows) => rows[k - 1].role = "tool"
    BY <1>1 DEF RowsInv, RowShape
  <2>2. k - 1 \in DOMAIN rows
    BY <1>0, <1>1 DEF RowsInv, RowTypes
  <2>3. rows[k - 1].role # "tool"
    BY <1>2, <2>2 DEF UsesTools
  <2> QED
    BY <1>0, <1>1, <2>1, <2>3
<1>5. \A i \in 1 .. Len(ms) : pos[i] = 1
  <2> TAKE i \in 1 .. Len(ms)
  <2>1. pos[i] \in 1 .. Len(rows)
    BY <1>0, PlacesAre
  <2>2. pos[i] # 2
    BY <1>0, <1>4 DEF Placed
  <2> QED
    BY <1>3, <1>4, <2>1, <2>2
<1>6. /\ Len(ms) \in Nat /\ Len(a) \in Nat /\ \A j \in 1 .. Len(a) : sel[j] \in 1 .. Len(ms)
      /\ \A i, j \in 1 .. Len(a) : i < j => sel[i] < sel[j]
      /\ \A i, j \in 1 .. Len(ms) : i < j => pos[i] < pos[j]
  <2>1. \A i, j \in 1 .. Len(ms) : i < j => pos[i] < pos[j]
    BY <1>0, PlacesAre
  <2> QED
    BY <2>1, SelectedAre
<1>7. 1 \in 1 .. Len(a) /\ 1 \in 1 .. Len(ms)
  BY KeptFirst
<1>8. Len(a) = 1
  <2> PICK n \in Nat : n = Len(a)
    BY <1>6
  <2> SUFFICES ASSUME n > 1 PROVE FALSE
    BY <1>7
  <2>1. 1 \in 1 .. Len(a) /\ 2 \in 1 .. Len(a) /\ 1 < 2
    BY <1>6
  <2>2. sel[1] < sel[2] /\ sel[1] \in 1 .. Len(ms) /\ sel[2] \in 1 .. Len(ms)
    BY <1>6, <2>1
  <2>3. pos[sel[1]] < pos[sel[2]] /\ pos[sel[1]] = 1 /\ pos[sel[2]] = 1
    BY <1>5, <1>6, <2>2
  <2> QED
    BY <2>3
<1> QED
  BY <1>0, <1>2, <1>3, <1>4, <1>8

\* The messages of whole rounds stay at the places of their rows.
LEMMA WholePlaces ==
  ASSUME RowsInv, NEW ms, NEW pos, NEW a, NEW sel, Told(ms, pos, a, sel),
         NEW k \in 1 .. whole, ~Silent(rows, UsesTools(rows), k)
  PROVE  \A x \in 1 .. k : x \in 1 .. Len(ms) /\ pos[x] = x /\ ms[x] = OwnMessage(x)
<1>0. /\ k \in 1 .. Len(rows) /\ Len(rows) \in Nat /\ k \in Nat /\ \A x \in 1 .. k : x \in 1 .. whole
      /\ rows \in Seq(RowType)
  <2>1. whole \in Nat /\ rows \in Seq(RowType)
    BY DEF RowsInv, RowTypes
  <2>2. k \in 1 .. Len(rows) /\ Len(rows) \in Nat
    BY WholeRows
  <2> QED
    BY <2>1, <2>2
<1>1. Placed(ms, rows, UsesTools(rows), Closed(rows), pos)
  BY SelectedAre
<1>2. ASSUME NEW x \in 1 .. k PROVE ~Silent(rows, UsesTools(rows), x)
  <2> SUFFICES ASSUME Silent(rows, UsesTools(rows), x) PROVE FALSE
    OBVIOUS
  <2>1. x \in 1 .. whole
    BY <1>0
  <2>2. x = Len(rows)
    BY <2>1, SilentIs
  <2>3. x = k
    BY <1>0, <2>2
  <2> QED
    BY <2>3
<1>3. ASSUME NEW x \in 1 .. k, rows[x].role = "assistant"
      PROVE  \E i \in 1 .. Len(ms) : pos[i] = x /\ ms[i] = OwnMessage(x)
  <2>1. x \in 2 .. Len(rows) /\ rows[x].calls \subseteq IdsOf(x) /\ rows[x - 1].role # "assistant"
    BY <1>0, <1>3, WholeRows
  <2> QED
    BY <1>1, <1>2, <1>3, <2>1, CompleteIs
<1>4. ASSUME NEW x \in 1 .. k PROVE \E i \in 1 .. Len(ms) : pos[i] = x
  <2>1. CASE rows[x].role = "assistant"
    BY <1>3, <2>1
  <2>2. CASE rows[x].role # "assistant"
    <3>1. x \in 1 .. Len(rows)
      BY <1>0
    <3> QED
      BY <1>1, <2>2, <3>1, PlacesAre
  <2> QED
    BY <2>1, <2>2
<1>5. /\ Len(ms) \in Nat /\ \A i \in 1 .. Len(ms) : pos[i] \in Nat \ {0}
      /\ \A i, j \in 1 .. Len(ms) : i < j => pos[i] < pos[j]
  <2>1. \A i \in 1 .. Len(ms) : pos[i] \in 1 .. Len(rows)
    BY <1>1, PlacesAre
  <2>2. \A i, j \in 1 .. Len(ms) : i < j => pos[i] < pos[j]
    BY <1>1, PlacesAre
  <2> QED
    BY <1>0, <2>1, <2>2, SelectedAre
<1>6. \A x \in 1 .. k : x \in 1 .. Len(ms) /\ pos[x] = x
  <2>1. Rising(pos, Len(ms))
    BY <1>5 DEF Rising
  <2>2. Takes(pos, Len(ms), k)
    BY <1>0, <1>4 DEF Takes
  <2> QED
    BY <2>1, <2>2, FirstPlaces
<1> SUFFICES ASSUME NEW x \in 1 .. k
             PROVE  ms[x] = OwnMessage(x)
  BY <1>6
<1>7. CASE rows[x].role = "assistant"
  <2>1. PICK i \in 1 .. Len(ms) : pos[i] = x /\ ms[i] = OwnMessage(x)
    BY <1>3, <1>7
  <2>2. i = x
    <3>1. x \in 1 .. Len(ms) /\ pos[x] = x
      BY <1>6
    <3>2. ~(i < x) /\ ~(x < i)
      BY <1>0, <1>5, <2>1, <3>1
    <3> QED
      BY <1>5, <3>1, <3>2
  <2> QED
    BY <2>1, <2>2
<1>8. CASE rows[x].role # "assistant"
  <2>1. x \in 1 .. Len(ms) /\ pos[x] = x /\ x \in 1 .. Len(rows)
    BY <1>0, <1>6
  <2>2. IsMessage(ms[x], rows, UsesTools(rows), x)
    BY <1>1, <2>1 DEF Placed
  <2>3. ms[x] = Message(rows[x].role, NoCalls, rows[x].id, {x})
    BY <1>8, <2>2 DEF IsMessage
  <2>4. rows[x].calls = {}
    BY <1>8, <2>1 DEF RowsInv, RowShape
  <2>5. [id \in {} |-> <<x>>] = NoCalls
    BY DEF NoCalls
  <2> QED
    BY <1>8, <2>3, <2>4, <2>5 DEF OwnMessage
<1> QED
  BY <1>7, <1>8

LEMMA WholeKept ==
  ASSUME RowsInv, NEW ms, NEW pos, NEW a, NEW sel, Told(ms, pos, a, sel),
         NEW k \in 1 .. whole, ~Silent(rows, UsesTools(rows), k), NEW x \in 1 .. k
  PROVE  Kept(ms, x)
<1>0. /\ k \in 1 .. Len(rows) /\ Len(rows) \in Nat /\ k \in Nat /\ rows \in Seq(RowType)
  BY WholeRows DEF RowsInv, RowTypes
<1>1. Placed(ms, rows, UsesTools(rows), Closed(rows), pos)
  BY SelectedAre
<1>2. \A y \in 1 .. k : y \in 1 .. Len(ms) /\ pos[y] = y /\ ms[y] = OwnMessage(y)
  BY WholePlaces
<1>7. ASSUME NEW y \in 1 .. k, rows[y].role = "assistant" PROVE Kept(ms, y)
  <2>1. /\ y \in 2 .. Len(rows) /\ rows[y].calls \subseteq IdsOf(y) /\ rows[y - 1].role # "assistant"
        /\ y \in 1 .. whole
    <3>1. y \in 1 .. whole
      BY <1>0 DEF RowsInv, RowTypes
    <3> QED
      BY <1>7, <3>1, WholeRows
  <2>2. y \in 1 .. Len(ms) /\ pos[y] = y
    BY <1>2
  <2>3. ~Silent(rows, UsesTools(rows), y)
    BY <1>1, <2>2 DEF Placed
  <2>4. PICK i \in 1 .. Len(ms) : pos[i] = y /\ Kept(ms, i)
    BY <1>1, <1>7, <2>1, <2>3, CompleteIs
  <2>5. i = y
    <3>1. \A w, z \in 1 .. Len(ms) : w < z => pos[w] < pos[z]
      BY <1>1, PlacesAre
    <3>2. ~(i < y) /\ ~(y < i)
      BY <1>0, <2>2, <2>4, <3>1
    <3> QED
      BY <2>2, <3>2
  <2> QED
    BY <2>4, <2>5
<1>3. \A y \in 1 .. k : ms[y].role = rows[y].role /\ ms[y].id = rows[y].id
                        /\ DOMAIN ms[y].calls = rows[y].calls
  <2> TAKE y \in 1 .. k
  <2>1. ms[y] = OwnMessage(y)
    BY <1>2
  <2> QED
    BY <2>1 DEF OwnMessage, Message
<1>4. CASE rows[x].role = "assistant"
  BY <1>4, <1>7
<1>5. CASE rows[x].role = "tool"
  <2>1. x \in 1 .. Len(rows)
    BY <1>0
  <2>2. PICK p \in 1 .. x - 1 : /\ RoundOf(p, x) /\ rows[x].id \in rows[p].calls
                                /\ \A m \in p + 1 .. x - 1 : rows[m].id # rows[x].id
    BY <1>5, <2>1 DEF RowsInv, ResultsOwned
  <2>3. p \in 1 .. k /\ p \in 1 .. Len(rows) /\ \A m \in p + 1 .. x - 1 : m \in 1 .. k /\ m \in p + 1 .. x
    BY <1>0
  <2>4. rows[p].role = "assistant" /\ \A m \in p + 1 .. x - 1 : rows[m].role = "tool"
    BY <2>2, <2>3 DEF RoundOf
  <2>5. Opens(ms, p)
    <3>1. Kept(ms, p)
      BY <1>7, <2>3, <2>4
    <3>2. DOMAIN NoCalls = {}
      BY DEF NoCalls
    <3>3. ms[p].role = "assistant" /\ ms[p].calls # NoCalls
      BY <1>3, <2>2, <2>3, <2>4, <3>2
    <3> QED
      BY <3>1, <3>3 DEF Kept
  <2>6. rows[x].id \in Ids
    <3>1. rows[p] \in RowType
      BY <1>0, <2>3
    <3> QED
      BY <2>2, <3>1 DEF RowType
  <2>7. /\ ms[x].id = rows[x].id /\ ms[x].role = "tool" /\ rows[x].id \in DOMAIN ms[p].calls
        /\ \A m \in p + 1 .. x - 1 : ms[m].role = "tool" /\ ms[m].id # rows[x].id
    BY <1>3, <1>5, <2>2, <2>3, <2>4
  <2>8. rows[x].id \in Awaited(ms, x - 1)
    BY <2>5, <2>6, <2>7 DEF Awaited
  <2> QED
    BY <2>7, <2>8 DEF Kept
<1>6. CASE rows[x].role \notin {"assistant", "tool"}
  BY <1>3, <1>6 DEF Kept
<1> QED
  BY <1>4, <1>5, <1>6

LEMMA WholeAreKept == RowsInv => WholeRoundsKept
<1> SUFFICES ASSUME RowsInv PROVE WholeRoundsKept
  OBVIOUS
<1> PICK a : a = Assembled
  OBVIOUS
<1>1. PICK ms, pos, sel : Told(ms, pos, a, sel)
  BY AssembledIs
<1>2. ASSUME NEW k \in 1 .. whole, Silent(rows, UsesTools(rows), k)
      PROVE  k = 2 /\ rows[k].role = "assistant" /\ ~rows[k].text /\ Len(a) = 1
  BY <1>1, <1>2, SilentIs
<1>3. ASSUME NEW k \in 1 .. whole, ~Silent(rows, UsesTools(rows), k)
      PROVE  k \in DOMAIN a /\ a[k] = OwnMessage(k)
  <2>1. k \in Nat /\ k \in 1 .. k
    BY WholeRows
  <2>2. \A x \in 1 .. k : x \in 1 .. Len(ms) /\ Kept(ms, x)
    BY <1>1, <1>3, WholePlaces, WholeKept
  <2>3. /\ Len(a) \in Nat /\ \A j \in 1 .. Len(a) : sel[j] \in Nat \ {0}
        /\ \A i, j \in 1 .. Len(a) : i < j => sel[i] < sel[j]
        /\ DOMAIN a = 1 .. Len(a) /\ \A j \in 1 .. Len(a) : a[j] = ms[sel[j]]
    BY <1>1, SelectedAre
  <2>4. \A x \in 1 .. k : \E j \in 1 .. Len(a) : sel[j] = x
    BY <1>1, <2>2, SelectedAre
  <2>5. k \in 1 .. Len(a) /\ sel[k] = k
    <3>1. Rising(sel, Len(a))
      BY <2>3 DEF Rising
    <3>2. Takes(sel, Len(a), k)
      BY <2>1, <2>4 DEF Takes
    <3>3. \A x \in 1 .. k : x \in 1 .. Len(a) /\ sel[x] = x
      BY <3>1, <3>2, FirstPlaces
    <3> QED
      BY <2>1, <3>3
  <2>6. ms[k] = OwnMessage(k)
    BY <1>1, <1>3, <2>1, WholePlaces
  <2> QED
    BY <2>3, <2>5, <2>6
<1> QED
  BY <1>2, <1>3 DEF WholeRoundsKept, OwnMessage

\* Rows told for a call: only the last one of them has results.
OwnTold(told, id) ==
  /\ Complete(Last(told)) /\ id \in rows[Last(told)].calls
  /\ \A x \in DOMAIN told : x < Len(told) => Answers(rows, told[x]) = {}

\* Calls are told with the arguments of the round whose results are told.
LEMMA OwnArguments ==
  ASSUME RowsInv, NEW ms, NEW pos,
         Placed(ms, rows, UsesTools(rows), Closed(rows), pos),
         NEW i \in 1 .. Len(ms), Kept(ms, i), NEW id \in DOMAIN ms[i].calls
  PROVE  OwnTold(ms[i].calls[id], id)
<1> PICK q : q = pos[i]
  OBVIOUS
<1> PICK told : told = ms[i].calls[id]
  OBVIOUS
<1>0. rows \in Seq(RowType) /\ Len(rows) \in Nat /\ q \in 1 .. Len(rows) /\ q \in Nat
  <2>1. rows \in Seq(RowType) /\ Len(rows) \in Nat
    BY DEF RowsInv, RowTypes
  <2>2. q \in 1 .. Len(rows)
    BY PlacesAre
  <2> QED
    BY <2>1, <2>2
<1>1. rows[q].role = "assistant" /\ ms[i].role = "assistant" /\ ms[i].calls # NoCalls
  <2>1. DOMAIN NoCalls = {}
    BY DEF NoCalls
  <2>2. ms[i].role = rows[q].role /\ (rows[q].role # "assistant" => ms[i].calls = NoCalls)
    BY RolesAre
  <2> QED
    BY <2>1, <2>2
<1>2. Tells(ms[i].calls, rows, q)
  <2>1. IsMessage(ms[i], rows, UsesTools(rows), q)
    BY DEF Placed
  <2> QED
    BY <1>1, <2>1 DEF IsMessage
<1>3. DOMAIN ms[i].calls \subseteq IdsOf(q)
  <2>1. DOMAIN ms[i].calls \subseteq FollowingIds(ms, i)
    BY <1>1 DEF Kept, Opens
  <2> QED
    BY <2>1, FollowingIs DEF IdsOf
<1>4. q \in Group(rows, q) /\ \A x \in Group(rows, q) : x \in 1 .. q
  <2>1. \A m \in q .. q : m = q
    BY <1>0
  <2> QED
    BY <1>0, <1>1, <2>1 DEF Group
<1>5. id \in rows[q].calls
  <2>1. PICK j \in Answers(rows, q) : rows[j].id = id
    BY <1>3 DEF IdsOf
  <2>2. /\ j \in 1 .. Len(rows) /\ q \in 1 .. j /\ j \in q + 1 .. j
        /\ \A m \in q + 1 .. j : rows[m].role = "tool"
    BY <1>0 DEF Answers
  <2>3. RoundOf(q, j) /\ rows[j].role = "tool"
    BY <1>1, <2>2 DEF RoundOf
  <2>4. PICK p \in 1 .. j - 1 : RoundOf(p, j) /\ rows[j].id \in rows[p].calls
    BY <2>2, <2>3 DEF RowsInv, ResultsOwned
  <2>5. p \in 1 .. j
    BY <1>0, <2>2
  <2>6. RowTypes
    BY DEF RowsInv
  <2>7. p = q
    BY <2>2, <2>3, <2>4, <2>5, <2>6, OneRound
  <2> QED
    BY <2>1, <2>4, <2>7
<1>6. told \in Seq(Nat)
  <2>1. ms[i].calls \in CallSet
    BY <1>2 DEF Tells
  <2> QED
    BY <2>1, CallsAre
<1>7. /\ told # <<>> /\ \A x \in 1 .. Len(told) : told[x] \in Group(rows, q)
      /\ \E x \in 1 .. Len(told) : told[x] = q
      /\ \A x, y \in 1 .. Len(told) : x < y => told[x] < told[y]
  BY <1>2, <1>4, <1>5 DEF Tells
<1> PICK n \in Nat : n = Len(told)
  BY <1>6
<1>8. n \in 1 .. n /\ told[n] = q
  <2>1. PICK x \in 1 .. n : told[x] = q
    BY <1>7
  <2>2. n \in 1 .. n
    BY <2>1
  <2>3. told[n] \in 1 .. q
    BY <1>4, <1>7, <2>2
  <2>4. x < n => q < told[n]
    BY <1>7, <2>1, <2>2
  <2>5. x = n
    BY <1>0, <2>1, <2>3, <2>4
  <2> QED
    BY <2>1, <2>2, <2>5
<1>9. Last(told) = q
  BY <1>6, <1>8 DEF Last
<1>10. Complete(q)
  <2>1. ASSUME NEW c \in rows[q].calls PROVE c \in IdsOf(q)
    <3>1. rows[q] \in RowType
      BY <1>0
    <3>2. c \in Ids
      BY <3>1 DEF RowType
    <3>3. c \in DOMAIN ms[i].calls
      BY <1>2, <1>4, <3>2 DEF Tells
    <3> QED
      BY <1>3, <3>3
  <2> QED
    BY <1>1, <2>1 DEF Complete, IdsOf
<1>11. ASSUME NEW x \in DOMAIN told, x < n PROVE Answers(rows, told[x]) = {}
  <2>1. x \in 1 .. n
    BY <1>6
  <2>2. told[x] \in Group(rows, q) /\ told[x] < q /\ told[x] \in 1 .. q
    BY <1>4, <1>7, <1>8, <1>11, <2>1
  <2>3. told[x] + 1 \in told[x] .. q
    BY <1>0, <2>2
  <2>4. rows[told[x] + 1].role = "assistant"
    BY <2>2, <2>3 DEF Group
  <2>5. ASSUME NEW j \in Answers(rows, told[x]) PROVE FALSE
    <3>1. told[x] + 1 \in told[x] + 1 .. j
      BY <1>0, <2>2, <2>5 DEF Answers
    <3> QED
      BY <2>4, <2>5, <3>1 DEF Answers
  <2> QED
    BY <2>5
<1> QED
  BY <1>5, <1>9, <1>10, <1>11 DEF OwnTold

LEMMA ArgumentsOwn == RowsInv => ArgumentsAreOwn
<1> SUFFICES ASSUME RowsInv PROVE ArgumentsAreOwn
  OBVIOUS
<1> PICK a : a = Assembled
  OBVIOUS
<1>1. PICK ms, pos, sel : Told(ms, pos, a, sel)
  BY AssembledIs
<1>2. /\ Placed(ms, rows, UsesTools(rows), Closed(rows), pos) /\ DOMAIN a = 1 .. Len(a)
      /\ \A k \in 1 .. Len(a) : sel[k] \in 1 .. Len(ms) /\ a[k] = ms[sel[k]] /\ Kept(ms, sel[k])
  BY <1>1, SelectedAre
<1>3. ASSUME NEW k \in DOMAIN a, NEW id \in DOMAIN a[k].calls
      PROVE  OwnTold(a[k].calls[id], id)
  <2>1. sel[k] \in 1 .. Len(ms) /\ a[k] = ms[sel[k]] /\ Kept(ms, sel[k])
    BY <1>2
  <2> QED
    BY <1>2, <2>1, OwnArguments
<1> QED
  BY <1>3 DEF ArgumentsAreOwn, OwnTold

THEOREM TurnIsToldTheorem == Spec => []TurnIsTold
<1>1. RowsInv => TurnIsTold
  BY WholeAreKept, ToldInOrder, LossIsLocal, ArgumentsOwn DEF TurnIsTold
<1> QED
  BY <1>1, RowsAlways, PTL

-----------------------------------------------------------------------------
(* The scenes of MCRound.                                                   *)

\* Of the three scenes, two leave the stored rows alone and the third is Spec.
LEMMA ScenesAreRows == MCSpec => Spec
<1>1. MCInit => Init
  BY DEF MCInit
<1>2. [MCNext]_<<vars, callVars, answerVars, scene>> => [Next]_vars
  BY DEF MCNext, vars
<1> QED
  BY <1>1, <1>2, PTL DEF MCSpec, Spec

\* In every scene, the assembled turn is one a provider accepts and tells what
\* was stored (context.rs:175-328).
COROLLARY TurnInEveryScene == MCSpec => [](AcceptedByProvider /\ TurnIsTold)
  BY ScenesAreRows, AcceptedByProviderTheorem, TurnIsToldTheorem, PTL

-----------------------------------------------------------------------------
(* What the parts of a sequence of sequences make together.                 *)

\* f grows by one part of seqs after the other.
Grows(f, seqs, n) == \A i \in 1..n : f[i] = IF i = 1 THEN seqs[i] ELSE f[i-1] \o seqs[i]

LEMMA FlattenIs ==
    ASSUME NEW S, NEW seqs \in Seq(Seq(S)), seqs # <<>>
    PROVE  \E f \in [1..Len(seqs) -> Seq(S)] :
              Grows(f, seqs, Len(seqs)) /\ FlattenSeq(seqs) = f[Len(seqs)]
<1> DEFINE N == Len(seqs)
           Some == {n \in Nat : n <= N => \E f \in [1..n -> Seq(S)] : Grows(f, seqs, n)}
<1>0. N \in Nat \ {0} /\ \A i \in 1..N : seqs[i] \in Seq(S)
    BY EmptySeq
<1>1. 0 \in Some
    <2>1. [i \in 1..0 |-> seqs[i]] \in [1..0 -> Seq(S)] /\ 1..0 = {}
        OBVIOUS
    <2> QED
        BY <2>1 DEF Grows
<1>2. ASSUME NEW n \in Nat, n \in Some PROVE n + 1 \in Some
    <2> SUFFICES ASSUME n + 1 <= N PROVE \E f \in [1..(n + 1) -> Seq(S)] : Grows(f, seqs, n + 1)
        OBVIOUS
    <2>1. PICK f \in [1..n -> Seq(S)] : Grows(f, seqs, n)
        BY <1>0, <1>2
    <2> DEFINE v == IF n = 0 THEN seqs[1] ELSE f[n] \o seqs[n + 1]
               g == [i \in 1..(n + 1) |-> IF i = n + 1 THEN v ELSE f[i]]
    <2>2. v \in Seq(S)
        <3>1. n + 1 \in 1..N
            BY <1>0
        <3>2. n # 0 => f[n] \in Seq(S)
            OBVIOUS
        <3> QED
            BY <1>0, <3>1, <3>2, ConcatProperties
    <2> HIDE DEF v
    <2>3. g \in [1..(n + 1) -> Seq(S)]
        BY <2>2
    <2>4. ASSUME NEW i \in 1..(n + 1) PROVE g[i] = IF i = 1 THEN seqs[i] ELSE g[i-1] \o seqs[i]
        <3>1. CASE i = n + 1
            BY <3>1 DEF v
        <3>2. CASE i # n + 1
            <4>1. i \in 1..n /\ g[i] = f[i]
                BY <3>2
            <4>2. i # 1 => i - 1 \in 1..n /\ g[i - 1] = f[i - 1]
                BY <3>2
            <4>3. f[i] = IF i = 1 THEN seqs[i] ELSE f[i-1] \o seqs[i]
                BY <2>1, <4>1 DEF Grows
            <4> HIDE DEF g
            <4> QED
                BY <4>1, <4>2, <4>3
        <3> QED
            BY <3>1, <3>2
    <2> QED
        BY <2>3, <2>4 DEF Grows
<1>3. N \in Some
    <2>1. Nat \subseteq Some
        <3> HIDE DEF Some
        <3> QED
            BY <1>1, <1>2, InductionOverSet
    <2> QED
        BY <1>0, <2>1
<1>4. PICK f \in [1..N -> Seq(S)] : Grows(f, seqs, N)
    BY <1>0, <1>3
<1>5. f = [i \in 1..N |-> IF i = 1 THEN seqs[i] ELSE f[i-1] \o seqs[i]]
    BY <1>4 DEF Grows
<1> DEFINE flatten == CHOOSE h : h = [i \in 1..N |-> IF i = 1 THEN seqs[i] ELSE h[i-1] \o seqs[i]]
<1>6. flatten = [i \in 1..N |-> IF i = 1 THEN seqs[i] ELSE flatten[i-1] \o seqs[i]]
    BY <1>5
<1>7. FlattenSeq(seqs) = flatten[N]
    BY <1>0 DEF FlattenSeq
<1> HIDE DEF flatten
<1>8. Grows(flatten, seqs, N) /\ DOMAIN flatten = 1..N
    BY <1>6 DEF Grows
<1> DEFINE Agree == {n \in Nat : n \in 1..N => flatten[n] = f[n]}
<1>9. 0 \in Agree
    OBVIOUS
<1>10. ASSUME NEW n \in Nat, n \in Agree PROVE n + 1 \in Agree
    <2> SUFFICES ASSUME NEW m \in 1..N, m = n + 1 PROVE flatten[m] = f[m]
        OBVIOUS
    <2>1. flatten[m] = IF m = 1 THEN seqs[m] ELSE flatten[m-1] \o seqs[m]
        BY <1>8 DEF Grows
    <2>2. f[m] = IF m = 1 THEN seqs[m] ELSE f[m-1] \o seqs[m]
        BY <1>4 DEF Grows
    <2>3. m # 1 => m - 1 = n /\ n \in 1..N
        BY <1>0
    <2>4. m # 1 => flatten[m - 1] = f[m - 1]
        BY <2>3, <1>10
    <2> HIDE DEF Agree
    <2> QED
        BY <2>1, <2>2, <2>4
<1>11. flatten[N] = f[N]
    <2>1. Nat \subseteq Agree
        <3> HIDE DEF Agree
        <3> QED
            BY <1>9, <1>10, InductionOverSet
    <2>2. N \in Agree
        BY <1>0, <2>1
    <2>3. N \in 1..N
        BY <1>0
    <2> QED
        BY <2>2, <2>3
<1> QED
    BY <1>4, <1>7, <1>11

Same(a, b, n) == \A i \in 1..n : a[i] = b[i]

\* The two ways to grow a flattened sequence step by step are one.
LEMMA GrowsOnce ==
    ASSUME NEW seqs, NEW more, NEW n \in Nat, Same(seqs, more, n),
           NEW f, NEW g, Grows(f, seqs, n), Grows(g, more, n), n \in 1..n
    PROVE  f[n] = g[n]
<1> DEFINE Agree == {m \in Nat : m \in 1..n => f[m] = g[m]}
<1>1. 0 \in Agree
    OBVIOUS
<1>2. ASSUME NEW m \in Nat, m \in Agree PROVE m + 1 \in Agree
    <2> SUFFICES ASSUME NEW k \in 1..n, k = m + 1 PROVE f[k] = g[k]
        OBVIOUS
    <2>1. f[k] = IF k = 1 THEN seqs[k] ELSE f[k-1] \o seqs[k]
        BY DEF Grows
    <2>2. g[k] = IF k = 1 THEN more[k] ELSE g[k-1] \o more[k]
        BY DEF Grows
    <2>3. k # 1 => k - 1 = m /\ m \in 1..n
        OBVIOUS
    <2>4. k # 1 => f[k - 1] = g[k - 1]
        BY <2>3, <1>2
    <2> HIDE DEF Agree
    <2>5. seqs[k] = more[k]
        BY DEF Same
    <2> QED
        BY <2>1, <2>2, <2>4, <2>5
<1>3. Nat \subseteq Agree
    <2> HIDE DEF Agree
    <2> QED
        BY <1>1, <1>2, InductionOverSet
<1> QED
    BY <1>3

LEMMA FlattenEmpty == FlattenSeq(<<>>) = <<>>
BY DEF FlattenSeq

LEMMA FlattenType ==
    ASSUME NEW S, NEW seqs \in Seq(Seq(S))
    PROVE  FlattenSeq(seqs) \in Seq(S)
<1>1. CASE seqs = <<>>
    BY <1>1, FlattenEmpty, EmptySeq
<1>2. CASE seqs # <<>>
    <2>1. PICK f \in [1..Len(seqs) -> Seq(S)] :
              Grows(f, seqs, Len(seqs)) /\ FlattenSeq(seqs) = f[Len(seqs)]
        BY <1>2, FlattenIs
    <2>2. Len(seqs) \in 1..Len(seqs)
        BY <1>2, EmptySeq
    <2> QED
        BY <2>1, <2>2
<1> QED
    BY <1>1, <1>2

LEMMA FlattenAppend ==
    ASSUME NEW S, NEW seqs \in Seq(Seq(S)), NEW part \in Seq(S)
    PROVE  FlattenSeq(Append(seqs, part)) = FlattenSeq(seqs) \o part
<1> PICK n : n = Len(seqs)
    OBVIOUS
<1> PICK k : k = n + 1
    OBVIOUS
<1> PICK more : more = Append(seqs, part)
    OBVIOUS
<1>0. /\ more \in Seq(Seq(S)) /\ more # <<>> /\ Len(more) = k /\ n \in Nat /\ k \in Nat
      /\ \A i \in 1..n : more[i] = seqs[i]
      /\ more[k] = part
    BY AppendProperties
<1>1. PICK g \in [1..k -> Seq(S)] : Grows(g, more, k) /\ FlattenSeq(more) = g[k]
    <2>1. \E g \in [1..Len(more) -> Seq(S)] : Grows(g, more, Len(more)) /\ FlattenSeq(more) = g[Len(more)]
        BY <1>0, FlattenIs
    <2> QED
        BY <1>0, <2>1
<1>2. g[k] = IF k = 1 THEN more[k] ELSE g[k - 1] \o more[k]
    <2>1. k \in 1..k
        BY <1>0
    <2> QED
        BY <1>1, <2>1 DEF Grows
<1>3. CASE seqs = <<>>
    <2>1. n = 0 /\ k = 1 /\ FlattenSeq(seqs) = <<>> /\ <<>> \o part = part
        BY <1>0, <1>3, FlattenEmpty
    <2> QED
        BY <1>0, <1>1, <1>2, <2>1
<1>4. CASE seqs # <<>>
    <2>1. n \in 1..n /\ k # 1 /\ k - 1 = n
        BY <1>0, <1>4, EmptySeq
    <2>2. PICK f \in [1..n -> Seq(S)] : Grows(f, seqs, n) /\ FlattenSeq(seqs) = f[n]
        BY <1>0, <1>4, FlattenIs
    <2>3. Grows(g, more, n)
        <3>1. \A i \in 1..n : i \in 1..k
            BY <1>0
        <3> QED
            BY <1>1, <3>1 DEF Grows
    <2>4. g[n] = f[n]
        <3>1. n \in Nat /\ n \in 1..n /\ Same(more, seqs, n)
            BY <1>0, <2>1 DEF Same
        <3>2. Grows(f, seqs, n)
            BY <2>2
        <3> QED
            BY <2>3, <3>1, <3>2, GrowsOnce
    <2> QED
        BY <1>0, <1>1, <1>2, <2>1, <2>2, <2>4
<1> QED
    BY <1>3, <1>4

LEMMA FlattenConcatMore ==
    ASSUME NEW S, NEW a \in Seq(Seq(S)), NEW b \in Seq(Seq(S)), NEW part \in Seq(S),
           FlattenSeq(a \o b) = FlattenSeq(a) \o FlattenSeq(b)
    PROVE  FlattenSeq(a \o Append(b, part)) = FlattenSeq(a) \o FlattenSeq(Append(b, part))
<1>1. a \o b \in Seq(Seq(S)) /\ <<part>> \in Seq(Seq(S))
    BY ConcatProperties
<1>2. (a \o b) \o <<part>> = a \o (b \o <<part>>)
    BY <1>1, ConcatAssociative, SMTT(60)
<1>3. Append(a \o b, part) = a \o Append(b, part)
    BY <1>1, <1>2, AppendIsConcat
<1>4. FlattenSeq(Append(a \o b, part)) = FlattenSeq(a \o b) \o part
    BY <1>1, FlattenAppend
<1>5. FlattenSeq(Append(b, part)) = FlattenSeq(b) \o part
    BY FlattenAppend
<1>6. FlattenSeq(a) \in Seq(S) /\ FlattenSeq(b) \in Seq(S)
    BY FlattenType
<1>7. (FlattenSeq(a) \o FlattenSeq(b)) \o part = FlattenSeq(a) \o (FlattenSeq(b) \o part)
    BY <1>6, ConcatAssociative
<1> QED
    BY <1>3, <1>4, <1>5, <1>7

\* The first m elements and the next one.
LEMMA CutMore ==
    ASSUME NEW T, NEW b \in Seq(T), NEW m \in Nat, m + 1 <= Len(b)
    PROVE  /\ SubSeq(b, 1, m) \in Seq(T) /\ b[m + 1] \in T
           /\ SubSeq(b, 1, m + 1) = Append(SubSeq(b, 1, m), b[m + 1])
<1>1. m + 1 \in 1..Len(b) /\ 1 \in 1..Len(b) /\ m + 1 - 1 = m /\ 1 \in Int /\ m \in Int
      /\ (\A i \in 1..m : b[i] \in T) /\ b[m + 1] \in T
    OBVIOUS
<1>2. SubSeq(b, 1, m) \in Seq(T)
    BY <1>1, SubSeqProperties
<1>3. SubSeq(b, 1, m + 1) = SubSeq(b, 1, m) \o <<b[m + 1]>>
    <2>1. m + 1 \in 1..Len(b)
        BY <1>1
    <2> QED
        BY <1>1, <2>1, SubSeqRecursiveSecond
<1> QED
    BY <1>1, <1>2, <1>3, AppendIsConcat

LEMMA FlattenConcat ==
    ASSUME NEW S, NEW a \in Seq(Seq(S)), NEW b \in Seq(Seq(S))
    PROVE  FlattenSeq(a \o b) = FlattenSeq(a) \o FlattenSeq(b)
<1> DEFINE Some == {m \in Nat : m <= Len(b) =>
                      FlattenSeq(a \o SubSeq(b, 1, m)) = FlattenSeq(a) \o FlattenSeq(SubSeq(b, 1, m))}
<1>0. Len(b) \in Nat /\ FlattenSeq(a) \in Seq(S)
    BY FlattenType
<1>1. 0 \in Some
    <2>1. SubSeq(b, 1, 0) = <<>> /\ a \o <<>> = a
        BY SubSeqEmpty, ConcatEmptySeq
    <2>2. FlattenSeq(a) \o <<>> = FlattenSeq(a)
        BY <1>0, ConcatEmptySeq
    <2> QED
        BY <2>1, <2>2, FlattenEmpty
<1>2. ASSUME NEW m \in Nat, m \in Some PROVE m + 1 \in Some
    <2> SUFFICES ASSUME m + 1 <= Len(b)
                 PROVE  FlattenSeq(a \o SubSeq(b, 1, m + 1))
                          = FlattenSeq(a) \o FlattenSeq(SubSeq(b, 1, m + 1))
        OBVIOUS
    <2>1. /\ SubSeq(b, 1, m) \in Seq(Seq(S)) /\ b[m + 1] \in Seq(S)
          /\ SubSeq(b, 1, m + 1) = Append(SubSeq(b, 1, m), b[m + 1])
        BY CutMore
    <2>2. FlattenSeq(a \o SubSeq(b, 1, m)) = FlattenSeq(a) \o FlattenSeq(SubSeq(b, 1, m))
        BY <1>0, <1>2
    <2> HIDE DEF Some
    <2> QED
        BY <2>1, <2>2, FlattenConcatMore
<1>3. Len(b) \in Some
    <2>1. Nat \subseteq Some
        <3> HIDE DEF Some
        <3> QED
            BY <1>1, <1>2, InductionOverSet
    <2> QED
        BY <1>0, <2>1
<1>4. SubSeq(b, 1, Len(b)) = b
    BY SubSeqFull
<1>5. FlattenSeq(a \o SubSeq(b, 1, Len(b))) = FlattenSeq(a) \o FlattenSeq(SubSeq(b, 1, Len(b)))
    BY <1>0, <1>3
<1> QED
    BY <1>4, <1>5

\* Parts that are empty but for one leave that one.
LEMMA FlattenOne ==
    ASSUME NEW S, NEW seqs \in Seq(Seq(S)), NEW j \in Nat,
           \A i \in 1..Len(seqs) : i # j => seqs[i] = <<>>
    PROVE  FlattenSeq(seqs) = IF j \in 1..Len(seqs) THEN seqs[j] ELSE <<>>
<1> DEFINE N == Len(seqs)
           Part(m) == IF j \in 1..m THEN seqs[j] ELSE <<>>
<1>0. N \in Nat /\ \A i \in 1..N : seqs[i] \in Seq(S)
    OBVIOUS
<1>1. CASE seqs = <<>>
    <2>1. N = 0 /\ j \notin 1..0
        BY <1>1
    <2> QED
        BY <1>1, <2>1, FlattenEmpty
<1>2. CASE seqs # <<>>
    <2>1. PICK f \in [1..N -> Seq(S)] : Grows(f, seqs, N) /\ FlattenSeq(seqs) = f[N]
        BY <1>2, FlattenIs
    <2> DEFINE Done == {m \in Nat : m \in 1..N => f[m] = Part(m)}
    <2>2. 0 \in Done
        OBVIOUS
    <2>3. ASSUME NEW m \in Nat, m \in Done PROVE m + 1 \in Done
        <3> SUFFICES ASSUME NEW k \in 1..N, k = m + 1 PROVE f[k] = Part(k)
            OBVIOUS
        <3>1. f[k] = IF k = 1 THEN seqs[k] ELSE f[k-1] \o seqs[k]
            BY <2>1 DEF Grows
        <3>2. k # 1 => k - 1 = m /\ m \in 1..N /\ f[m] = Part(m)
            BY <1>0, <2>3
        <3>3. CASE k = 1
            <4>1. f[k] = seqs[k] /\ (j \in 1..k <=> j = k)
                BY <3>1, <3>3
            <4> QED
                BY <4>1
        <3>4. CASE k # 1 /\ k = j
            <4>1. j \notin 1..m /\ j \in 1..k /\ <<>> \o seqs[k] = seqs[k]
                BY <1>0, <3>4, ConcatEmptySeq
            <4> HIDE DEF Done
            <4> QED
                BY <3>1, <3>2, <3>4, <4>1
        <3>5. CASE k # 1 /\ k # j
            <4>1. seqs[k] = <<>> /\ (j \in 1..k <=> j \in 1..m)
                BY <1>0, <3>5
            <4>2. f[m] \in Seq(S) /\ f[m] \o <<>> = f[m]
                BY <3>2, <3>5, ConcatEmptySeq
            <4> HIDE DEF Done
            <4> QED
                BY <3>1, <3>2, <3>5, <4>1, <4>2
        <3> QED
            BY <3>3, <3>4, <3>5
    <2>4. Nat \subseteq Done
        <3> HIDE DEF Done
        <3> QED
            BY <2>2, <2>3, InductionOverSet
    <2>5. N \in 1..N /\ N \in Nat
        BY <1>0, <1>2, EmptySeq
    <2> QED
        BY <2>1, <2>4, <2>5
<1> QED
    BY <1>1, <1>2

-----------------------------------------------------------------------------
(* The calls of a round: what their deltas say together.                    *)

\* The pieces of names and arguments.
Pieces == {"n", "n1", "n2", "a1", "a2"}

DeltaType == [id : Seq(Nat), name : Seq(Pieces), arguments : Seq(Pieces)]

\* The operators of the library are the instance's too.
LEMMA SameOperators ==
  /\ \A s : Calls!FlattenSeq(s) = FlattenSeq(s)
  /\ \A s : Calls!Cardinality(s) = Cardinality(s)
  /\ \A f : Calls!IsInjective(f) = IsInjective(f)
  /\ \A s : Calls!Last(s) = Last(s)
  /\ \A f : Calls!Range(f) = Range(f)
<1>1. \A s : Calls!FlattenSeq(s) = FlattenSeq(s)
  BY DEF Calls!FlattenSeq, FlattenSeq
<1>2. \A s : Calls!Cardinality(s) = Cardinality(s)
  BY DEF Calls!Cardinality, Cardinality
<1>3. \A f : Calls!IsInjective(f) = IsInjective(f)
  BY DEF Calls!IsInjective, IsInjective
<1>4. \A s : Calls!Last(s) = Last(s)
  BY DEF Calls!Last, Last
<1>5. \A f : Calls!Range(f) = Range(f)
  BY DEF Calls!Range, Range
<1> QED
  BY <1>1, <1>2, <1>3, <1>4, <1>5

LEMMA OnePiece ==
  ASSUME NEW S, NEW piece \in S
  PROVE  <<piece>> \in Seq(S)
OBVIOUS

LEMMA DeltaIs ==
  ASSUME NEW id \in Seq(Nat), NEW name \in Seq(Pieces), NEW arguments \in Seq(Pieces)
  PROVE  /\ Calls!Delta(id, name, arguments) \in DeltaType
         /\ Calls!Delta(id, name, arguments).id = id
         /\ Calls!Delta(id, name, arguments).name = name
         /\ Calls!Delta(id, name, arguments).arguments = arguments
BY DEF Calls!Delta, DeltaType

LEMMA DeltasAre ==
  ASSUME NEW id \in Nat
  PROVE  /\ Calls!Delta(<<id>>, <<"n">>, <<"a1">>) \in DeltaType
         /\ Calls!Delta(<<id>>, <<"n">>, <<>>) \in DeltaType
         /\ Calls!Delta(<<>>, <<>>, <<"a1">>) \in DeltaType
         /\ Calls!Delta(<<>>, <<>>, <<"a2">>) \in DeltaType
         /\ Calls!Delta(<<id>>, <<"n1">>, <<>>) \in DeltaType
         /\ Calls!Delta(<<>>, <<"n2">>, <<"a1">>) \in DeltaType
         /\ Calls!Delta(<<>>, <<"n">>, <<"a1">>) \in DeltaType
         /\ Calls!Delta(<<id>>, <<>>, <<"a1">>) \in DeltaType
<1>1. /\ <<>> \in Seq(Nat) /\ <<id>> \in Seq(Nat) /\ <<>> \in Seq(Pieces)
  BY OnePiece, EmptySeq
<1>2. "n" \in Pieces /\ "a1" \in Pieces /\ "a2" \in Pieces /\ "n1" \in Pieces /\ "n2" \in Pieces
  BY DEF Pieces
<1>3. /\ <<"n">> \in Seq(Pieces) /\ <<"a1">> \in Seq(Pieces)
      /\ <<"a2">> \in Seq(Pieces) /\ <<"n1">> \in Seq(Pieces) /\ <<"n2">> \in Seq(Pieces)
  BY <1>2, OnePiece, Zenon
<1> QED
  BY <1>1, <1>3, DeltaIs, Zenon

LEMMA ThreeDeltas ==
  ASSUME NEW x \in DeltaType, NEW y \in DeltaType, NEW z \in DeltaType
  PROVE  /\ <<x, y, z>> \in Seq(DeltaType) /\ Len(<<x, y, z>>) = 3
         /\ <<x, y, z>>[1] = x /\ <<x, y, z>>[2] = y /\ <<x, y, z>>[3] = z
<1> HIDE DEF DeltaType
<1> QED
  OBVIOUS

\* The identifier of a streamed call comes with its first delta or never.
StartsWithId(d, id) ==
  /\ d \in Seq(DeltaType) /\ d # <<>>
  /\ d[1].id \in {<<>>, <<id>>}
  /\ \A k \in 1 .. Len(d) : k # 1 => d[k].id = <<>>

LEMMA StreamedAre ==
  ASSUME NEW id \in Nat, NEW d \in Calls!WellFormed(id) \cup Calls!Malformed(id)
  PROVE  StartsWithId(d, id)
<1> USE DEF Calls!NoText
<1>1. CASE d = <<Calls!Delta(<<id>>, <<"n">>, <<"a1">>)>>
  <2>1. d \in Seq(DeltaType)
    BY <1>1, DeltasAre
  <2> QED
    BY <1>1, <2>1 DEF StartsWithId, Calls!Delta
<1>2. CASE d = <<Calls!Delta(<<id>>, <<"n">>, <<>>), Calls!Delta(<<>>, <<>>, <<"a1">>),
                 Calls!Delta(<<>>, <<>>, <<"a2">>)>>
  <2>1. d \in Seq(DeltaType)
    BY <1>2, DeltasAre, ThreeDeltas, Zenon
  <2> QED
    BY <1>2, <2>1 DEF StartsWithId, Calls!Delta
<1>3. CASE d = <<Calls!Delta(<<id>>, <<"n">>, <<>>)>>
  <2>1. d \in Seq(DeltaType)
    BY <1>3, DeltasAre
  <2> QED
    BY <1>3, <2>1 DEF StartsWithId, Calls!Delta
<1>4. CASE d = <<Calls!Delta(<<id>>, <<"n1">>, <<>>), Calls!Delta(<<>>, <<"n2">>, <<"a1">>)>>
  <2>1. d \in Seq(DeltaType)
    BY <1>4, DeltasAre
  <2> QED
    BY <1>4, <2>1 DEF StartsWithId, Calls!Delta
<1>5. CASE d = <<Calls!Delta(<<>>, <<"n">>, <<"a1">>)>>
  <2>1. d \in Seq(DeltaType)
    BY <1>5, DeltasAre, OnePiece, Zenon
  <2> QED
    BY <1>5, <2>1 DEF StartsWithId, Calls!Delta
<1>6. CASE d = <<Calls!Delta(<<id>>, <<>>, <<"a1">>)>>
  <2>1. d \in Seq(DeltaType)
    BY <1>6, DeltasAre
  <2> QED
    BY <1>6, <2>1 DEF StartsWithId, Calls!Delta
<1> QED
  BY <1>1, <1>2, <1>3, <1>4, <1>5, <1>6 DEF Calls!WellFormed, Calls!Malformed

\* The deltas of n calls, whose identifiers are 1 to n in some order.
Streams(p, n, order) ==
  /\ n \in Nat \ {0} /\ DOMAIN p = 1 .. n /\ p \in Seq(Seq(DeltaType)) /\ Len(p) = n
  /\ order \in [1 .. n -> 1 .. n]
  /\ \A i, j \in 1 .. n : order[i] = order[j] => i = j
  /\ \A i \in 1 .. n : StartsWithId(p[i], order[i])

LEMMA PlansAre ==
  ASSUME NEW p \in Calls!Plans
  PROVE  \E n, order : Streams(p, n, order)
<1>1. PICK n \in 1 .. MaxCalls :
        /\ p \in [1 .. n -> UNION {Calls!WellFormed(id) \cup Calls!Malformed(id) : id \in 1 .. n}]
        /\ \E order \in [1 .. n -> 1 .. n] :
             /\ IsInjective(order)
             /\ \A i \in 1 .. n : p[i] \in Calls!WellFormed(order[i]) \cup Calls!Malformed(order[i])
  <2>1. PICK n \in 1 .. MaxCalls :
          p \in {q \in [1 .. n -> UNION {Calls!WellFormed(id) \cup Calls!Malformed(id) : id \in 1 .. n}] :
                  \E order \in [1 .. n -> 1 .. n] :
                    /\ Calls!IsInjective(order)
                    /\ \A i \in 1 .. n : q[i] \in Calls!WellFormed(order[i]) \cup Calls!Malformed(order[i])}
    BY Zenon DEF Calls!Plans
  <2> QED
    BY <2>1, SameOperators, Zenon
<1>2. PICK order \in [1 .. n -> 1 .. n] :
        /\ IsInjective(order)
        /\ \A i \in 1 .. n : p[i] \in Calls!WellFormed(order[i]) \cup Calls!Malformed(order[i])
  BY <1>1
<1>3. n \in Nat \ {0}
  BY MCRoundAssumption
<1>4. \A i, j \in 1 .. n : order[i] = order[j] => i = j
  BY <1>2 DEF IsInjective
<1>5. ASSUME NEW i \in 1 .. n PROVE StartsWithId(p[i], order[i])
  <2>1. order[i] \in Nat
    BY <1>3
  <2> QED
    BY <1>2, <2>1, StreamedAre
<1>6. p \in Seq(Seq(DeltaType)) /\ Len(p) = n /\ DOMAIN p = 1 .. n
  <2>1. \A i \in 1 .. n : p[i] \in Seq(DeltaType)
    BY <1>5 DEF StartsWithId
  <2>2. DOMAIN p = 1 .. n /\ p = [i \in 1 .. n |-> p[i]]
    BY <1>1
  <2>3. p \in [1 .. n -> Seq(DeltaType)]
    BY <2>1, <2>2
  <2> QED
    BY <1>3, <2>2, <2>3
<1> QED
  BY <1>3, <1>4, <1>5, <1>6 DEF Streams

-----------------------------------------------------------------------------
(* The text of the first deltas, one more at a time.                        *)

\* What the first m deltas say together.
Heard(d, m) == Calls!Text(SubSeq(d, 1, m))

LEMMA TextIs ==
  ASSUME NEW d
  PROVE  /\ Calls!Text(d) = [id |-> FlattenSeq([k \in DOMAIN d |-> d[k].id]),
                             name |-> FlattenSeq([k \in DOMAIN d |-> d[k].name]),
                             arguments |-> FlattenSeq([k \in DOMAIN d |-> d[k].arguments])]
         /\ Calls!Text(d).id = FlattenSeq([k \in DOMAIN d |-> d[k].id])
         /\ Calls!Text(d).name = FlattenSeq([k \in DOMAIN d |-> d[k].name])
         /\ Calls!Text(d).arguments = FlattenSeq([k \in DOMAIN d |-> d[k].arguments])
<1>1. /\ Calls!FlattenSeq([k \in DOMAIN d |-> d[k].id]) = FlattenSeq([k \in DOMAIN d |-> d[k].id])
      /\ Calls!FlattenSeq([k \in DOMAIN d |-> d[k].name]) = FlattenSeq([k \in DOMAIN d |-> d[k].name])
      /\ Calls!FlattenSeq([k \in DOMAIN d |-> d[k].arguments])
           = FlattenSeq([k \in DOMAIN d |-> d[k].arguments])
  BY SameOperators
<1> QED
  BY <1>1 DEF Calls!Text, Calls!Delta

LEMMA TextType ==
  ASSUME NEW d \in Seq(DeltaType)
  PROVE  /\ Calls!Text(d) \in DeltaType
         /\ [k \in DOMAIN d |-> d[k].id] \in Seq(Seq(Nat))
         /\ [k \in DOMAIN d |-> d[k].name] \in Seq(Seq(Pieces))
         /\ [k \in DOMAIN d |-> d[k].arguments] \in Seq(Seq(Pieces))
<1>0. Len(d) \in Nat /\ DOMAIN d = 1 .. Len(d) /\ \A k \in 1 .. Len(d) : d[k] \in DeltaType
  OBVIOUS
<1>1. \A k \in 1 .. Len(d) : d[k].id \in Seq(Nat) /\ d[k].name \in Seq(Pieces) /\ d[k].arguments \in Seq(Pieces)
  BY <1>0 DEF DeltaType
<1>2. /\ [k \in DOMAIN d |-> d[k].id] \in Seq(Seq(Nat))
      /\ [k \in DOMAIN d |-> d[k].name] \in Seq(Seq(Pieces))
      /\ [k \in DOMAIN d |-> d[k].arguments] \in Seq(Seq(Pieces))
  BY <1>0, <1>1
<1>3. /\ FlattenSeq([k \in DOMAIN d |-> d[k].id]) \in Seq(Nat)
      /\ FlattenSeq([k \in DOMAIN d |-> d[k].name]) \in Seq(Pieces)
      /\ FlattenSeq([k \in DOMAIN d |-> d[k].arguments]) \in Seq(Pieces)
  BY <1>2, FlattenType
<1>4. Calls!Text(d) \in DeltaType
  <2>1. \A a \in Seq(Nat), b, c \in Seq(Pieces) : [id |-> a, name |-> b, arguments |-> c] \in DeltaType
    BY DEF DeltaType
  <2> HIDE DEF DeltaType
  <2> QED
    BY <1>3, <2>1, TextIs, Zenon
<1> QED
  BY <1>2, <1>4

LEMMA TextAppended ==
  ASSUME NEW d \in Seq(DeltaType), NEW e \in DeltaType
  PROVE  Calls!Text(Append(d, e)) =
           Calls!Delta(Calls!Text(d).id \o e.id, Calls!Text(d).name \o e.name,
                       Calls!Text(d).arguments \o e.arguments)
<1> PICK n : n = Len(d)
  OBVIOUS
<1> PICK more : more = Append(d, e)
  OBVIOUS
<1>0. /\ n \in Nat /\ DOMAIN d = 1 .. n /\ DOMAIN more = 1 .. n + 1 /\ more[n + 1] = e
      /\ \A k \in 1 .. n : more[k] = d[k]
  BY AppendProperties
<1>1. /\ e.id \in Seq(Nat) /\ e.name \in Seq(Pieces) /\ e.arguments \in Seq(Pieces)
  BY DEF DeltaType
<1>2. [k \in DOMAIN more |-> more[k].id] = Append([k \in DOMAIN d |-> d[k].id], e.id)
  BY <1>0, <1>1, TextType
<1>3. [k \in DOMAIN more |-> more[k].name] = Append([k \in DOMAIN d |-> d[k].name], e.name)
  BY <1>0, <1>1, TextType
<1>4. [k \in DOMAIN more |-> more[k].arguments] = Append([k \in DOMAIN d |-> d[k].arguments], e.arguments)
  BY <1>0, <1>1, TextType
<1>5. FlattenSeq([k \in DOMAIN more |-> more[k].id]) = FlattenSeq([k \in DOMAIN d |-> d[k].id]) \o e.id
  BY <1>1, <1>2, TextType, FlattenAppend
<1>6. FlattenSeq([k \in DOMAIN more |-> more[k].name]) = FlattenSeq([k \in DOMAIN d |-> d[k].name]) \o e.name
  BY <1>1, <1>3, TextType, FlattenAppend
<1>7. FlattenSeq([k \in DOMAIN more |-> more[k].arguments])
        = FlattenSeq([k \in DOMAIN d |-> d[k].arguments]) \o e.arguments
  BY <1>1, <1>4, TextType, FlattenAppend
<1>8. Calls!Text(more) = [id |-> Calls!Text(d).id \o e.id, name |-> Calls!Text(d).name \o e.name,
                          arguments |-> Calls!Text(d).arguments \o e.arguments]
  BY <1>5, <1>6, <1>7, TextIs
<1> QED
  BY <1>8 DEF Calls!Delta

\* What was heard of a call with its next delta.
LEMMA HeardMore ==
  ASSUME NEW d \in Seq(DeltaType), NEW m \in Nat, m < Len(d)
  PROVE  /\ Heard(d, m) \in DeltaType
         /\ Heard(d, m + 1) = Calls!Delta(Heard(d, m).id \o d[m + 1].id,
                                Heard(d, m).name \o d[m + 1].name,
                                Heard(d, m).arguments \o d[m + 1].arguments)
<1>1. m + 1 <= Len(d)
  OBVIOUS
<1>2. /\ SubSeq(d, 1, m) \in Seq(DeltaType) /\ d[m + 1] \in DeltaType
      /\ SubSeq(d, 1, m + 1) = Append(SubSeq(d, 1, m), d[m + 1])
  BY <1>1, CutMore
<1> QED
  BY <1>2, TextType, TextAppended DEF Heard

LEMMA HeardNothing ==
  ASSUME NEW d \in Seq(DeltaType)
  PROVE  Heard(d, 0) = Calls!NewPartial
<1>1. SubSeq(d, 1, 0) = <<>>
  BY SubSeqEmpty
<1>2. /\ [k \in DOMAIN <<>> |-> <<>>[k].id] = <<>> /\ [k \in DOMAIN <<>> |-> <<>>[k].name] = <<>>
      /\ [k \in DOMAIN <<>> |-> <<>>[k].arguments] = <<>>
  OBVIOUS
<1>3. Calls!Text(<<>>) = [id |-> <<>>, name |-> <<>>, arguments |-> <<>>]
  <2>1. /\ FlattenSeq([k \in DOMAIN <<>> |-> <<>>[k].id]) = <<>>
        /\ FlattenSeq([k \in DOMAIN <<>> |-> <<>>[k].name]) = <<>>
        /\ FlattenSeq([k \in DOMAIN <<>> |-> <<>>[k].arguments]) = <<>>
    BY <1>2, FlattenEmpty, Zenon
  <2>2. PICK d0 : d0 = <<>>
    OBVIOUS
  <2>3. Calls!Text(d0) = [id |-> FlattenSeq([k \in DOMAIN d0 |-> d0[k].id]),
                          name |-> FlattenSeq([k \in DOMAIN d0 |-> d0[k].name]),
                          arguments |-> FlattenSeq([k \in DOMAIN d0 |-> d0[k].arguments])]
    BY TextIs, Zenon
  <2> QED
    BY <2>1, <2>2, <2>3, Zenon
<1> QED
  BY <1>1, <1>3 DEF Heard, Calls!NewPartial, Calls!NoText, Calls!Delta

LEMMA HeardAll ==
  ASSUME NEW d \in Seq(DeltaType)
  PROVE  Heard(d, Len(d)) = Calls!Text(d)
BY SubSeqFull DEF Heard

LEMMA TextId ==
  ASSUME NEW d, NEW id \in Nat, StartsWithId(d, id)
  PROVE  Calls!Text(d).id = d[1].id
<1> PICK parts : parts = [k \in DOMAIN d |-> d[k].id]
  OBVIOUS
<1>1. d \in Seq(DeltaType) /\ d # <<>> /\ 1 \in 1 .. Len(d) /\ DOMAIN d = 1 .. Len(d)
  BY EmptySeq DEF StartsWithId
<1>2. parts \in Seq(Seq(Nat)) /\ Len(parts) = Len(d) /\ parts[1] = d[1].id
  <2>1. parts \in Seq(Seq(Nat))
    BY <1>1, TextType
  <2>2. DOMAIN parts = 1 .. Len(d) /\ Len(d) \in Nat
    BY <1>1
  <2> QED
    BY <1>1, <2>1, <2>2
<1>3. \A i \in 1 .. Len(parts) : i # 1 => parts[i] = <<>>
  BY <1>1, <1>2 DEF StartsWithId
<1>4. FlattenSeq(parts) = parts[1]
  BY <1>1, <1>2, <1>3, FlattenOne
<1> QED
  BY <1>2, <1>4, TextIs

-----------------------------------------------------------------------------
(* The order of the indices and of the identifiers.                         *)

LEMMA InOrderIs ==
  ASSUME NEW n \in Nat
  PROVE  Calls!InOrder(1 .. n) = [k \in 1 .. n |-> k]
<1>1. Cardinality(1 .. n) = n
  BY FS_Interval
<1>2. ASSUME NEW k \in 1 .. n
      PROVE  (CHOOSE i \in 1 .. n : Calls!Cardinality({j \in 1 .. n : j < i}) = k - 1) = k
  <2>1. ASSUME NEW i \in 1 .. n PROVE Calls!Cardinality({j \in 1 .. n : j < i}) = i - 1
    <3>1. {j \in 1 .. n : j < i} = 1 .. (i - 1)
      OBVIOUS
    <3>2. Cardinality(1 .. (i - 1)) = i - 1
      BY FS_Interval
    <3> QED
      BY <3>1, <3>2, SameOperators
  <2>2. \A i \in 1 .. n : Calls!Cardinality({j \in 1 .. n : j < i}) = k - 1 <=> i = k
    BY <2>1
  <2> QED
    BY <2>2
<1>3. Calls!Cardinality(1 .. n) = n
  BY <1>1, SameOperators
<1> QED
  BY <1>2, <1>3 DEF Calls!InOrder

\* Identifiers that differ and are 1 to n are all of them.
Distinct(order, n) == \A i, j \in 1 .. n : order[i] = order[j] => i = j

LEMMA OrderIsOnto ==
  ASSUME NEW n \in Nat, NEW order \in [1 .. n -> 1 .. n], Distinct(order, n),
         NEW id \in 1 .. n
  PROVE  \E i \in 1 .. n : order[i] = id
<1>1. order \in Injection(1 .. n, 1 .. n)
  BY DEF Distinct, Injection, IsInjective
<1>2. IsFiniteSet(1 .. n)
  BY FS_Interval
<1>3. order \in Surjection(1 .. n, 1 .. n)
  BY <1>1, <1>2, FS_Injection
<1> QED
  BY <1>3 DEF Surjection

-----------------------------------------------------------------------------
(* What holds of the calls of a round between two chunks.                   *)

AllCalls == \A i \in DOMAIN plan : Calls!IsCall(Calls!Text(plan[i]))

HeardSoFar == [i \in {j \in DOMAIN plan : sent[j] > 0} |-> Heard(plan[i], sent[i])]

CallsInv ==
  /\ plan \in Calls!Plans
  /\ sent \in [DOMAIN plan -> Nat] /\ \A i \in DOMAIN plan : sent[i] <= Len(plan[i])
  /\ reasons \in Nat
  /\ phase \in {"streaming", "finished", "unannounced", "failed"}
  /\ results # <<>> => AllCalls /\ results = Calls!Asked
  /\ reasons = 0 => results = <<>>
  /\ reasons = 0 /\ phase = "streaming" => partials = HeardSoFar
  /\ reasons > 0 /\ phase # "failed" => AllCalls /\ results = Calls!Asked /\ partials = <<>>
  /\ phase = "finished" => live = results /\ calls = results

LEMMA AskedIs ==
  ASSUME NEW n, NEW order, Streams(plan, n, order)
  PROVE  /\ n \in Nat \ {0} /\ DOMAIN plan = 1 .. n /\ Len(plan) = n
         /\ Calls!Asked = [i \in 1 .. n |-> Calls!Call(Calls!Text(plan[i]))]
         /\ Len(Calls!Asked) = n /\ Calls!Asked # <<>> /\ DOMAIN Calls!Asked = 1 .. n
         /\ <<>> \o Calls!Asked = Calls!Asked /\ Calls!Asked \o <<>> = Calls!Asked
<1>1. n \in Nat \ {0} /\ DOMAIN plan = 1 .. n /\ Len(plan) = n
  BY DEF Streams
<1>2. Calls!Asked = [i \in 1 .. n |-> Calls!Call(Calls!Text(plan[i]))]
  BY <1>1 DEF Calls!Asked, Calls!Indices
<1>3. PICK S : S = {Calls!Call(Calls!Text(plan[i])) : i \in 1 .. n}
  OBVIOUS
<1>4. Calls!Asked \in Seq(S) /\ Len(Calls!Asked) = n
  BY <1>1, <1>2, <1>3
<1>5. Calls!Asked # <<>>
  BY <1>1, <1>4
<1>6. <<>> \o Calls!Asked = Calls!Asked /\ Calls!Asked \o <<>> = Calls!Asked
  BY <1>4, ConcatEmptySeq
<1> QED
  BY <1>1, <1>2, <1>4, <1>5, <1>6

\* A new attempt, and the first one.
NothingHeard ==
  /\ plan \in Calls!Plans /\ sent = [i \in Calls!Indices |-> 0] /\ reasons = 0
  /\ partials = Calls!NoPartials /\ results = <<>> /\ phase = "streaming"

LEMMA CallsStart == NothingHeard => CallsInv
<1> SUFFICES ASSUME NothingHeard PROVE CallsInv
  OBVIOUS
<1> USE DEF NothingHeard
<1>1. PICK n, order : Streams(plan, n, order)
  BY PlansAre
<1>2. DOMAIN plan = 1 .. n /\ \A i \in 1 .. n : plan[i] \in Seq(DeltaType)
  BY <1>1 DEF Streams
<1>3. sent \in [DOMAIN plan -> Nat] /\ \A i \in DOMAIN plan : sent[i] = 0
  BY DEF Calls!Indices
<1>4. \A i \in DOMAIN plan : sent[i] <= Len(plan[i])
  BY <1>2, <1>3
<1>5. partials = HeardSoFar
  <2>1. {j \in DOMAIN plan : sent[j] > 0} = {}
    BY <1>3
  <2>2. HeardSoFar = <<>>
    BY <2>1 DEF HeardSoFar
  <2> QED
    BY <2>2 DEF Calls!NoPartials
<1> QED
  BY <1>3, <1>4, <1>5 DEF CallsInv

LEMMA CallsStartOver == NothingHeard' => CallsInv'
BY CallsStart, PTL

LEMMA ChunkDeltaKeeps ==
  ASSUME CallsInv, NEW i \in Calls!Indices, Calls!ChunkDelta(i)
  PROVE  CallsInv'
<1>1. PICK n, order : Streams(plan, n, order)
  BY PlansAre DEF CallsInv
<1>2. /\ DOMAIN plan = 1 .. n /\ plan[i] \in Seq(DeltaType) /\ i \in DOMAIN plan
      /\ \A j \in 1 .. n : plan[j] \in Seq(DeltaType)
  BY <1>1 DEF Streams, Calls!Indices
<1>3. /\ phase = "streaming" /\ reasons = 0 /\ sent[i] < Len(plan[i])
      /\ sent' = [sent EXCEPT ![i] = sent[i] + 1]
      /\ partials' = Calls!ApplyChoiceDelta(i, plan[i][sent[i] + 1])
      /\ plan' = plan /\ reasons' = reasons /\ results' = results /\ phase' = phase
      /\ live' = live /\ calls' = calls
  BY DEF Calls!ChunkDelta
<1>4. /\ sent \in [DOMAIN plan -> Nat] /\ \A j \in DOMAIN plan : sent[j] <= Len(plan[j])
      /\ results = <<>> /\ partials = HeardSoFar
  BY <1>3 DEF CallsInv
<1>5. /\ sent' \in [DOMAIN plan -> Nat] /\ \A j \in DOMAIN plan : sent'[j] <= Len(plan[j])
      /\ sent'[i] = sent[i] + 1 /\ \A j \in DOMAIN plan : j # i => sent'[j] = sent[j]
      /\ sent[i] \in Nat
  BY <1>2, <1>3, <1>4
<1>6. partials' = HeardSoFar'
  <2> PICK m : m = sent[i]
    OBVIOUS
  <2> PICK before : before = IF i \in DOMAIN partials THEN partials[i] ELSE Calls!NewPartial
    OBVIOUS
  <2>1. before = Heard(plan[i], m)
    <3>1. DOMAIN partials = {j \in DOMAIN plan : sent[j] > 0}
      BY <1>4 DEF HeardSoFar
    <3>2. CASE m > 0
      <4>1. partials[i] = Heard(plan[i], m) /\ i \in DOMAIN partials
        BY <1>2, <1>4, <3>1, <3>2 DEF HeardSoFar
      <4> QED
        BY <4>1
    <3>3. CASE ~ (m > 0)
      <4>1. m = 0 /\ i \notin DOMAIN partials
        BY <1>5, <3>1, <3>3
      <4> QED
        BY <1>2, <4>1, HeardNothing
    <3> QED
      BY <3>2, <3>3
  <2>2. Heard(plan[i], m + 1) =
          Calls!Delta(before.id \o plan[i][m + 1].id, before.name \o plan[i][m + 1].name,
                      before.arguments \o plan[i][m + 1].arguments)
    <3>1. m \in Nat /\ m < Len(plan[i])
      BY <1>3, <1>5
    <3> QED
      BY <1>2, <2>1, <3>1, HeardMore
  <2>3. partials' = [j \in DOMAIN partials \cup {i} |->
                       IF j = i THEN Heard(plan[i], m + 1) ELSE partials[j]]
    BY <1>3, <2>2 DEF Calls!ApplyChoiceDelta
  <2>4. DOMAIN partials \cup {i} = {j \in DOMAIN plan : sent'[j] > 0}
    BY <1>2, <1>4, <1>5 DEF HeardSoFar
  <2>5. \A j \in DOMAIN partials \cup {i} :
          (IF j = i THEN Heard(plan[i], m + 1) ELSE partials[j]) = Heard(plan[j], sent'[j])
    BY <1>4, <1>5 DEF HeardSoFar
  <2>6. partials' = [j \in {j \in DOMAIN plan : sent'[j] > 0} |-> Heard(plan[j], sent'[j])]
    BY <2>3, <2>4, <2>5
  <2>7. HeardSoFar' = [j \in {j \in DOMAIN plan : sent'[j] > 0} |-> Heard(plan[j], sent'[j])]
    BY <1>3 DEF HeardSoFar, Heard, Calls!Text, Calls!Delta
  <2> QED
    BY <2>6, <2>7
<1> QED
  BY <1>3, <1>4, <1>5, <1>6 DEF CallsInv, AllCalls, Calls!Asked, Calls!Indices

\* The calls that are completed when everything was sent are those asked for.
LEMMA CompletedAre ==
  ASSUME CallsInv, phase = "streaming", reasons = 0, Calls!AllSent
  PROVE  /\ DOMAIN partials = DOMAIN plan
         /\ \A i \in DOMAIN plan : partials[i] = Calls!Text(plan[i])
         /\ Calls!Completed = Calls!Asked
<1>1. PICK n, order : Streams(plan, n, order)
  BY PlansAre DEF CallsInv
<1>2. /\ DOMAIN plan = 1 .. n /\ n \in Nat
      /\ \A j \in 1 .. n : plan[j] \in Seq(DeltaType) /\ Len(plan[j]) \in Nat /\ Len(plan[j]) > 0
  BY <1>1, EmptySeq DEF Streams, StartsWithId
<1>3. \A i \in DOMAIN plan : sent[i] = Len(plan[i])
  BY DEF Calls!AllSent, Calls!Indices
<1>4. partials = HeardSoFar
  BY DEF CallsInv
<1>5. {j \in DOMAIN plan : sent[j] > 0} = 1 .. n
  BY <1>2, <1>3
<1>6. \A i \in 1 .. n : Heard(plan[i], sent[i]) = Calls!Text(plan[i])
  BY <1>2, <1>3, HeardAll
<1>7. DOMAIN partials = 1 .. n /\ \A i \in 1 .. n : partials[i] = Calls!Text(plan[i])
  BY <1>4, <1>5, <1>6 DEF HeardSoFar
<1>8. Calls!Cardinality(1 .. n) = n
  BY <1>2, SameOperators, FS_Interval
<1>9. Calls!Completed = [k \in 1 .. n |-> Calls!Call(Calls!Text(plan[k]))]
  <2>1. Calls!Completed = [k \in 1 .. n |-> Calls!Call(partials[Calls!InOrder(1 .. n)[k]])]
    BY <1>7, <1>8 DEF Calls!Completed
  <2>2. \A k \in 1 .. n : Calls!InOrder(1 .. n)[k] = k
    BY <1>2, InOrderIs
  <2>3. \A k \in 1 .. n : partials[Calls!InOrder(1 .. n)[k]] = Calls!Text(plan[k])
    BY <1>7, <2>2
  <2> QED
    BY <2>1, <2>3
<1> QED
  BY <1>1, <1>2, <1>7, <1>9, AskedIs

LEMMA ChunkReasonKeeps ==
  ASSUME CallsInv, Calls!ChunkReason
  PROVE  CallsInv'
<1>1. PICK n, order : Streams(plan, n, order)
  BY PlansAre DEF CallsInv
<1>2. /\ phase = "streaming" /\ Calls!AllSent
      /\ reasons' = reasons + 1 /\ partials' = <<>>
      /\ IF \A i \in DOMAIN partials : Calls!IsCall(partials[i])
         THEN results' = results \o Calls!Completed /\ phase' = phase
         ELSE phase' = "failed" /\ results' = results
      /\ plan' = plan /\ sent' = sent /\ live' = live /\ calls' = calls
  BY DEF Calls!ChunkReason, Calls!NoPartials
<1>3. /\ reasons \in Nat /\ reasons' \in Nat /\ reasons' > 0
      /\ AllCalls' = AllCalls /\ Calls!Asked' = Calls!Asked
  BY <1>2 DEF CallsInv, AllCalls, Calls!Asked, Calls!Indices
<1>4. CASE \A i \in DOMAIN partials : Calls!IsCall(partials[i])
  <2>1. AllCalls /\ results' = Calls!Asked
    <3>1. CASE reasons = 0
      BY <1>1, <1>2, <1>4, <3>1, CompletedAre, AskedIs DEF CallsInv, AllCalls
    <3>2. CASE reasons # 0
      <4>1. reasons > 0 /\ partials = <<>> /\ results = Calls!Asked /\ AllCalls
        BY <1>2, <1>3, <3>2 DEF CallsInv
      <4>2. Calls!Completed = <<>>
        <5>1. DOMAIN partials = {} /\ Calls!Cardinality({}) = 0
          BY <4>1, SameOperators, FS_EmptySet
        <5> QED
          BY <5>1 DEF Calls!Completed
      <4> QED
        BY <1>1, <1>2, <1>4, <4>1, <4>2, AskedIs
    <3> QED
      BY <3>1, <3>2
  <2> QED
    BY <1>2, <1>3, <1>4, <2>1 DEF CallsInv
<1>5. CASE ~ \A i \in DOMAIN partials : Calls!IsCall(partials[i])
  BY <1>2, <1>3, <1>5 DEF CallsInv
<1> QED
  BY <1>4, <1>5

LEMMA ChunkErrorKeeps ==
  ASSUME CallsInv, Calls!ChunkError
  PROVE  CallsInv'
<1>1. CASE attempt < MaxAttempts
  <2>1. NothingHeard'
    BY <1>1 DEF Calls!ChunkError, Calls!Indices, NothingHeard, Calls!Plans, Calls!NoPartials
  <2> QED
    BY <2>1, CallsStartOver
<1>2. CASE ~ (attempt < MaxAttempts)
  BY <1>2 DEF Calls!ChunkError, CallsInv, AllCalls, Calls!Asked, Calls!Indices
<1> QED
  BY <1>1, <1>2

LEMMA RoundOverKeeps ==
  ASSUME CallsInv, Calls!ChunkFinished \/ Calls!StreamOver
  PROVE  CallsInv'
<1>1. /\ phase = "streaming" /\ phase' \in {"finished", "unannounced"}
      /\ phase' = "finished" => live' = results /\ calls' = results
      /\ plan' = plan /\ sent' = sent /\ reasons' = reasons
      /\ partials' = partials /\ results' = results
  BY DEF Calls!ChunkFinished, Calls!StreamOver
<1>2. AllCalls' = AllCalls /\ Calls!Asked' = Calls!Asked
  BY <1>1 DEF AllCalls, Calls!Asked, Calls!Indices
<1> QED
  BY <1>1, <1>2 DEF CallsInv

LEMMA CallsStay ==
  ASSUME CallsInv, UNCHANGED callVars
  PROVE  CallsInv'
<1>1. /\ plan' = plan /\ sent' = sent /\ reasons' = reasons /\ partials' = partials
      /\ results' = results /\ phase' = phase /\ live' = live /\ calls' = calls
  BY DEF callVars
<1>2. AllCalls' = AllCalls /\ Calls!Asked' = Calls!Asked /\ HeardSoFar' = HeardSoFar
  BY <1>1 DEF AllCalls, Calls!Asked, Calls!Indices, HeardSoFar, Heard, Calls!Text, Calls!Delta
<1> QED
  BY <1>1, <1>2 DEF CallsInv

LEMMA CallsAlways == MCSpec => []CallsInv
<1>1. MCInit => CallsInv
  BY CallsStart DEF MCInit, Calls!Init, NothingHeard
<1>2. CallsInv /\ [MCNext]_<<vars, callVars, answerVars, scene>> => CallsInv'
  <2> SUFFICES ASSUME CallsInv, [MCNext]_<<vars, callVars, answerVars, scene>>
               PROVE  CallsInv'
    OBVIOUS
  <2>1. CASE UNCHANGED callVars
    BY <2>1, CallsStay
  <2>2. CASE Calls!Next
    <3>1. ASSUME NEW i \in Calls!Indices, Calls!ChunkDelta(i) PROVE CallsInv'
      BY <3>1, ChunkDeltaKeeps
    <3> QED
      BY <2>2, <3>1, ChunkReasonKeeps, ChunkErrorKeeps, RoundOverKeeps DEF Calls!Next
  <2> QED
    BY <2>1, <2>2 DEF MCNext
<1> QED
  BY <1>1, <1>2, PTL DEF MCSpec

\* A round runs the calls that were asked for, all of them or, without the reason
\* tool_calls, none, and nothing else (runner.rs, ToolCallAccumulator).
THEOREM CallsAreRunTheorem == MCSpec => []CallsAreRun
<1>1. CallsInv => CallsAreRun
  <2> SUFFICES ASSUME CallsInv PROVE CallsAreRun
    OBVIOUS
  <2>1. PICK n, order : Streams(plan, n, order)
    BY PlansAre DEF CallsInv
  <2>2. Calls!RunsWhatWasAsked
    BY DEF CallsInv, AllCalls, Calls!RunsWhatWasAsked, Calls!Indices
  <2>3. Calls!NoCallLost
    <3>1. Len(Calls!Asked) = Len(plan)
      BY <2>1, AskedIs
    <3> QED
      BY <3>1 DEF CallsInv, Calls!NoCallLost, Calls!NoPartials
  <2> QED
    BY <2>2, <2>3 DEF CallsAreRun, Calls!CallsAreRun
<1> QED
  BY <1>1, CallsAlways, PTL

-----------------------------------------------------------------------------
(* The stored calls, read back.                                             *)

CallType == [id : Nat, name : Seq(Pieces), arguments : Seq(Pieces \cup {"{}"})]

LEMMA CallTypeIs ==
  ASSUME NEW id \in Nat, NEW name \in Seq(Pieces), NEW arguments \in Seq(Pieces \cup {"{}"})
  PROVE  [id |-> id, name |-> name, arguments |-> arguments] \in CallType
BY DEF CallType

LEMMA MorePieces ==
  ASSUME NEW S, NEW T, S \subseteq T, NEW s \in Seq(S)
  PROVE  s \in Seq(T)
OBVIOUS

LEMMA SingleIs ==
  ASSUME NEW x
  PROVE  DOMAIN <<x>> = {1} /\ <<x>>[1] = x /\ [k \in {1} |-> x] = <<x>>
<1>1. <<x>> \in Seq({x}) /\ Len(<<x>>) = 1 /\ <<x>>[1] = x
  OBVIOUS
<1>2. DOMAIN <<x>> = 1 .. 1 /\ 1 .. 1 = {1}
  BY <1>1
<1>3. [k \in {1} |-> x] \in Seq({x}) /\ Len([k \in {1} |-> x]) = 1
  BY <1>2
<1> QED
  BY <1>1, <1>2, <1>3

LEMMA FlattenSingle ==
  ASSUME NEW S, NEW part \in Seq(S)
  PROVE  FlattenSeq(<<part>>) = part
<1>1. <<>> \in Seq(Seq(S)) /\ Append(<<>>, part) = <<part>> /\ <<>> \o part = part
  BY EmptySeq, ConcatEmptySeq
<1> QED
  BY <1>1, FlattenAppend, FlattenEmpty

LEMMA CallIs ==
  ASSUME NEW d, NEW id \in Nat, StartsWithId(d, id), Calls!IsCall(Calls!Text(d))
  PROVE  /\ Calls!Call(Calls!Text(d)) \in CallType
         /\ Calls!Call(Calls!Text(d)).id = id
<1> PICK t : t = Calls!Text(d)
  OBVIOUS
<1>1. d \in Seq(DeltaType) /\ d[1].id \in {<<>>, <<id>>}
  BY DEF StartsWithId
<1>2. t \in DeltaType
  BY <1>1, TextType
<1>3. t.id # <<>>
  BY DEF Calls!IsCall, Calls!NoText
<1>4. t.id = <<id>>
  BY <1>1, <1>3, TextId
<1>5. Head(t.id) = id
  BY <1>4
<1>6. t.name \in Seq(Pieces) /\ t.arguments \in Seq(Pieces)
  BY <1>2 DEF DeltaType
<1>7. Calls!ArgumentsValue(t.arguments) \in Seq(Pieces \cup {"{}"})
  <2>1. <<"{}">> \in Seq(Pieces \cup {"{}"})
    BY OnePiece
  <2>2. t.arguments \in Seq(Pieces \cup {"{}"})
    BY <1>6, MorePieces
  <2> QED
    BY <2>1, <2>2 DEF Calls!ArgumentsValue
<1>8. Calls!Call(t) = [id |-> id, name |-> t.name, arguments |-> Calls!ArgumentsValue(t.arguments)]
  BY <1>5 DEF Calls!Call
<1>9. Calls!Call(t) \in CallType
  BY <1>6, <1>7, <1>8, CallTypeIs, Zenon
<1> QED
  BY <1>8, <1>9

\* A call that has an identifier of its own is all there is of it.
LEMMA OwnIs ==
  ASSUME NEW cs \in Seq(CallType), NEW j \in 1 .. Len(cs),
         \A k \in 1 .. Len(cs) : cs[k].id = cs[j].id => k = j
  PROVE  Calls!PersistedPartial(cs, cs[j].id) = cs[j]
<1> PICK id : id = cs[j].id
  OBVIOUS
<1> PICK parts : parts = [k \in DOMAIN cs |-> IF cs[k].id = id THEN <<cs[k]>> ELSE <<>>]
  OBVIOUS
<1>0. /\ Len(cs) \in Nat /\ DOMAIN cs = 1 .. Len(cs) /\ j \in Nat
      /\ \A k \in 1 .. Len(cs) : cs[k] \in CallType
  OBVIOUS
<1>1. parts \in Seq(Seq(CallType)) /\ Len(parts) = Len(cs)
  <2>1. \A k \in 1 .. Len(cs) : parts[k] \in Seq(CallType)
    <3>1. \A k \in 1 .. Len(cs) : <<cs[k]>> \in Seq(CallType)
      BY <1>0, OnePiece
    <3> QED
      BY <1>0, <3>1, EmptySeq
  <2>2. DOMAIN parts = 1 .. Len(cs)
    BY <1>0
  <2>3. parts = [k \in 1 .. Len(cs) |-> parts[k]]
    BY <1>0
  <2> QED
    BY <1>0, <2>1, <2>2, <2>3
<1>2. \A k \in 1 .. Len(parts) : k # j => parts[k] = <<>>
  BY <1>0, <1>1
<1>3. FlattenSeq(parts) = <<cs[j]>>
  <2>1. FlattenSeq(parts) = parts[j]
    BY <1>0, <1>1, <1>2, FlattenOne
  <2> QED
    BY <1>0, <2>1
<1>4. Calls!Own(cs, id) = <<cs[j]>>
  BY <1>3, SameOperators DEF Calls!Own
<1> PICK own : own = <<cs[j]>>
  OBVIOUS
<1>5. Calls!Last(own) = cs[j]
  BY SameOperators DEF Last
<1>6. FlattenSeq([k \in DOMAIN own |-> own[k].arguments]) = cs[j].arguments
  <2> PICK args : args = [k \in DOMAIN own |-> own[k].arguments]
    OBVIOUS
  <2> PICK arg : arg = cs[j].arguments
    OBVIOUS
  <2> PICK T : T = Pieces \cup {"{}"}
    OBVIOUS
  <2>1. arg \in Seq(T)
    BY <1>0 DEF CallType
  <2>2. DOMAIN own = {1} /\ own[1] = cs[j]
    BY SingleIs
  <2>3. args = [k \in {1} |-> arg]
    BY <2>2
  <2>4. args = <<arg>>
    BY <2>3, SingleIs
  <2>5. FlattenSeq(args) = arg
    BY <2>1, <2>4, FlattenSingle
  <2> QED
    BY <2>5
<1>7. Calls!PersistedPartial(cs, id) = [id |-> id, name |-> cs[j].name, arguments |-> cs[j].arguments]
  BY <1>4, <1>5, <1>6, SameOperators DEF Calls!PersistedPartial
<1>8. cs[j] = [id |-> cs[j].id, name |-> cs[j].name, arguments |-> cs[j].arguments]
  BY <1>0 DEF CallType
<1> QED
  BY <1>7, <1>8

LEMMA ReadBack ==
  ASSUME NEW n, NEW order, Streams(plan, n, order), AllCalls
  PROVE  /\ Len(Calls!PersistedCompleted(Calls!Asked)) = Len(Calls!Asked)
         /\ Calls!Range(Calls!PersistedCompleted(Calls!Asked)) = Calls!Range(Calls!Asked)
<1> PICK cs : cs = Calls!Asked
  OBVIOUS
<1>1. /\ n \in Nat \ {0} /\ DOMAIN plan = 1 .. n
      /\ cs = [i \in 1 .. n |-> Calls!Call(Calls!Text(plan[i]))]
      /\ Len(cs) = n /\ DOMAIN cs = 1 .. n
  BY AskedIs
<1>2. /\ order \in [1 .. n -> 1 .. n] /\ \A i, j \in 1 .. n : order[i] = order[j] => i = j
      /\ \A i \in 1 .. n : StartsWithId(plan[i], order[i])
  BY DEF Streams
<1>3. \A i \in 1 .. n : cs[i] \in CallType /\ cs[i].id = order[i]
  <2> TAKE i \in 1 .. n
  <2>1. order[i] \in Nat /\ StartsWithId(plan[i], order[i]) /\ Calls!IsCall(Calls!Text(plan[i]))
    BY <1>1, <1>2 DEF AllCalls
  <2> QED
    BY <1>1, <2>1, CallIs
<1>4. cs \in Seq(CallType)
  BY <1>1, <1>3
<1>5. ASSUME NEW id \in 1 .. n PROVE \E i \in 1 .. n : order[i] = id
  <2>1. Distinct(order, n)
    BY <1>2 DEF Distinct
  <2>2. n \in Nat /\ order \in [1 .. n -> 1 .. n]
    BY <1>1, <1>2
  <2> QED
    BY <2>1, <2>2, OrderIsOnto
<1>6. {cs[k].id : k \in DOMAIN cs} = 1 .. n
  <2>1. \A k \in 1 .. n : cs[k].id \in 1 .. n
    BY <1>2, <1>3
  <2>2. \A id \in 1 .. n : \E k \in 1 .. n : cs[k].id = id
    BY <1>3, <1>5
  <2>3. DOMAIN cs = 1 .. n
    BY <1>1
  <2> QED
    BY <2>1, <2>2, <2>3
<1>7. \A j \in 1 .. n : Calls!PersistedPartial(cs, order[j]) = cs[j]
  <2> TAKE j \in 1 .. n
  <2>1. j \in 1 .. Len(cs) /\ cs[j].id = order[j] /\ \A k \in 1 .. Len(cs) : cs[k].id = cs[j].id => k = j
    BY <1>1, <1>2, <1>3
  <2> QED
    BY <1>4, <2>1, OwnIs
<1> PICK back : back = Calls!PersistedCompleted(cs)
  OBVIOUS
<1>8. back = [k \in 1 .. n |-> Calls!PersistedPartial(cs, k)]
  <2>1. Calls!InOrder({cs[k].id : k \in DOMAIN cs}) = [k \in 1 .. n |-> k]
    BY <1>1, <1>6, InOrderIs
  <2>2. back = [k \in DOMAIN [i \in 1 .. n |-> i] |-> Calls!PersistedPartial(cs, [i \in 1 .. n |-> i][k])]
    BY <2>1 DEF Calls!PersistedCompleted
  <2> QED
    BY <2>2
<1>9. Len(back) = n /\ DOMAIN back = 1 .. n
  BY <1>1, <1>8
<1>10. \A j \in 1 .. n : order[j] \in 1 .. n /\ back[order[j]] = cs[j]
  BY <1>2, <1>7, <1>8
<1>11. {back[k] : k \in 1 .. n} = {cs[k] : k \in 1 .. n}
  BY <1>5, <1>10
<1> QED
  BY <1>1, <1>9, <1>11 DEF Calls!Range

LEMMA NothingReadBack ==
  /\ Calls!Range(Calls!PersistedCompleted(<<>>)) = Calls!Range(<<>>)
  /\ Len(Calls!PersistedCompleted(<<>>)) = Len(<<>>)
<1>1. Calls!InOrder({}) = <<>>
  <2>1. Calls!Cardinality({}) = 0
    BY SameOperators, FS_EmptySet
  <2>2. 1 .. Calls!Cardinality({}) = {}
    BY <2>1
  <2> QED
    BY <2>2 DEF Calls!InOrder
<1> PICK e : e = <<>>
  OBVIOUS
<1> PICK ids : ids = {e[k].id : k \in DOMAIN e}
  OBVIOUS
<1>2. ids = {}
  OBVIOUS
<1> PICK order : order = Calls!InOrder(ids)
  OBVIOUS
<1>3. DOMAIN order = {}
  BY <1>1, <1>2
<1>4. Calls!PersistedCompleted(e) = [k \in DOMAIN order |-> Calls!PersistedPartial(e, order[k])]
  BY DEF Calls!PersistedCompleted
<1>5. Calls!PersistedCompleted(e) = <<>>
  BY <1>3, <1>4
<1> QED
  BY <1>5

\* The next task's context has the calls the running task's context has, name
\* and arguments included (context.rs, PersistedToolCallAccumulator).
THEOREM ReadBackTheSameTheorem == MCSpec => []ReadBackTheSame
<1>1. CallsInv => ReadBackTheSame
  <2> SUFFICES ASSUME CallsInv, phase = "finished"
               PROVE  /\ Calls!Range(Calls!PersistedCompleted(calls)) = Calls!Range(live)
                      /\ Len(Calls!PersistedCompleted(calls)) = Len(live)
    BY DEF ReadBackTheSame, Calls!ReadBackTheSame
  <2>1. PICK n, order : Streams(plan, n, order)
    BY PlansAre DEF CallsInv
  <2>2. reasons \in Nat /\ live = results /\ calls = results
    BY DEF CallsInv
  <2>3. CASE reasons > 0
    <3>1. AllCalls /\ live = Calls!Asked /\ calls = Calls!Asked
      BY <2>3 DEF CallsInv
    <3> QED
      BY <2>1, <3>1, ReadBack
  <2>4. CASE reasons = 0
    <3>1. live = <<>> /\ calls = <<>>
      BY <2>2, <2>4 DEF CallsInv
    <3> QED
      BY <3>1, NothingReadBack
  <2> QED
    BY <2>2, <2>3, <2>4
<1> QED
  BY <1>1, CallsAlways, PTL

-----------------------------------------------------------------------------
(* Answers: what a reader sees of blocks.                                   *)

LEMMA SameForAnswers ==
  /\ \A s : Answer!FlattenSeq(s) = FlattenSeq(s)
  /\ \A s : Answer!Last(s) = Last(s)
  /\ \A s : Answer!Front(s) = Front(s)
  /\ \A f : Answer!Range(f) = Range(f)
  /\ \A s, t : Answer!IsPrefix(s, t) = IsPrefix(s, t)
<1>1. \A s : Answer!FlattenSeq(s) = FlattenSeq(s)
  BY DEF Answer!FlattenSeq, FlattenSeq
<1>2. \A s : Answer!Last(s) = Last(s)
  BY DEF Answer!Last, Last
<1>3. \A s : Answer!Front(s) = Front(s)
  BY DEF Answer!Front, Front
<1>4. \A f : Answer!Range(f) = Range(f)
  BY DEF Answer!Range, Range
<1>5. \A s, t : Answer!IsPrefix(s, t) = IsPrefix(s, t)
  BY DEF Answer!IsPrefix, IsPrefix
<1> QED
  BY <1>1, <1>2, <1>3, <1>4, <1>5

Texts == Nat \X Nat \X Nat
Items == Ids \cup Texts
Kinds == {"reasoning", "content"}

AnyArgs == Args \cup {Answer!SomeArgs}
Displays == AnyArgs \cup {Answer!None}

StartedCalls == [id : Ids, name : {"run_command", "other"}, args : {<<a>> : a \in AnyArgs}]

Tools == [id : Ids, name : {"", "run_command", "other"}, status : {"running", "done", "failed"},
          args : Seq(AnyArgs), display : Displays]

TextBlocks == [type : {"reasoning", "content", "retry", "round_finished"},
               text : Seq(Items), tool : {Answer!NoTool}]
ToolBlocks == [type : {"tool"}, text : Seq(Items), tool : Tools]
Blocks == TextBlocks \cup ToolBlocks

\* What a block shows of one kind of text, and of its call.
Part(b, kind) == CASE b.type = kind   -> b.text
                   [] b.type = "tool" -> <<b.tool.id>>
                   [] OTHER           -> <<>>

Brief(tool) == [id |-> tool.id, name |-> tool.name, display |-> tool.display]

LEMMA PartIs ==
  ASSUME NEW b, NEW kind \in Kinds
  PROVE  /\ b.type = kind => Part(b, kind) = b.text
         /\ b.type = "tool" => Part(b, kind) = <<b.tool.id>>
         /\ b.type \notin {kind, "tool"} => Part(b, kind) = <<>>
<1>1. kind # "tool"
  BY DEF Kinds
<1> QED
  BY <1>1 DEF Part

LEMMA PartType ==
  ASSUME NEW b \in Blocks, NEW kind \in Kinds
  PROVE  Part(b, kind) \in Seq(Items)
<1>1. CASE b \in TextBlocks
  BY <1>1, EmptySeq DEF Part, TextBlocks, Kinds
<1>2. CASE b \in ToolBlocks
  <2>1. b.type = "tool" /\ b.type # kind /\ b.tool.id \in Items
    BY <1>2 DEF ToolBlocks, Tools, Kinds, Items
  <2>2. <<b.tool.id>> \in Seq(Items)
    BY <2>1
  <2> QED
    BY <2>1, <2>2 DEF Part
<1> QED
  BY <1>1, <1>2 DEF Blocks

LEMMA ShownIs ==
  ASSUME NEW bs \in Seq(Blocks), NEW kind \in Kinds
  PROVE  /\ [k \in DOMAIN bs |-> Part(bs[k], kind)] \in Seq(Seq(Items))
         /\ Answer!Shown(bs, kind) = FlattenSeq([k \in DOMAIN bs |-> Part(bs[k], kind)])
         /\ Answer!Shown(bs, kind) \in Seq(Items)
<1>0. Len(bs) \in Nat /\ DOMAIN bs = 1 .. Len(bs) /\ \A k \in 1 .. Len(bs) : bs[k] \in Blocks
  OBVIOUS
<1>1. \A k \in 1 .. Len(bs) : Part(bs[k], kind) \in Seq(Items)
  BY <1>0, PartType
<1>2. [k \in DOMAIN bs |-> Part(bs[k], kind)] \in Seq(Seq(Items))
  BY <1>0, <1>1
<1>3. Answer!Shown(bs, kind) = FlattenSeq([k \in DOMAIN bs |-> Part(bs[k], kind)])
  BY SameForAnswers DEF Answer!Shown, Part
<1> QED
  BY <1>2, <1>3, FlattenType

LEMMA ShownNothing ==
  ASSUME NEW kind \in Kinds
  PROVE  Answer!Shown(<<>>, kind) = <<>>
<1>1. [k \in DOMAIN <<>> |-> Part(<<>>[k], kind)] = <<>>
  OBVIOUS
<1>2. <<>> \in Seq(Blocks)
  OBVIOUS
<1> QED
  BY <1>1, <1>2, ShownIs, FlattenEmpty

LEMMA ShownAppended ==
  ASSUME NEW bs \in Seq(Blocks), NEW b \in Blocks, NEW kind \in Kinds
  PROVE  Answer!Shown(Append(bs, b), kind) = Answer!Shown(bs, kind) \o Part(b, kind)
<1> PICK more : more = Append(bs, b)
  OBVIOUS
<1> PICK old : old = [k \in DOMAIN bs |-> Part(bs[k], kind)]
  OBVIOUS
<1> PICK new : new = [k \in DOMAIN more |-> Part(more[k], kind)]
  OBVIOUS
<1>1. /\ more \in Seq(Blocks) /\ Len(bs) \in Nat /\ DOMAIN bs = 1 .. Len(bs)
      /\ DOMAIN more = 1 .. Len(bs) + 1 /\ more[Len(bs) + 1] = b
      /\ \A k \in 1 .. Len(bs) : more[k] = bs[k]
  BY AppendProperties
<1>2. old \in Seq(Seq(Items)) /\ Part(b, kind) \in Seq(Items)
  BY ShownIs, PartType
<1>3. new = Append(old, Part(b, kind))
  <2>1. DOMAIN old = 1 .. Len(bs) /\ Len(old) = Len(bs) /\ DOMAIN new = 1 .. Len(bs) + 1
    BY <1>1
  <2>2. /\ \A k \in 1 .. Len(bs) : new[k] = old[k]
        /\ new[Len(bs) + 1] = Part(b, kind)
    BY <1>1, <2>1
  <2>3. new \in Seq(Seq(Items))
    BY <1>1, ShownIs
  <2>4. Len(new) = Len(bs) + 1
    BY <1>1, <2>1, <2>3
  <2> QED
    BY <1>1, <1>2, <2>1, <2>2, <2>3, <2>4
<1>4. FlattenSeq(new) = FlattenSeq(old) \o Part(b, kind)
  BY <1>2, <1>3, FlattenAppend
<1> QED
  BY <1>1, <1>4, ShownIs

LEMMA ToolsOfIs ==
  ASSUME NEW bs, NEW t
  PROVE  t \in Answer!ToolsOf(bs) <=> \E k \in DOMAIN bs : bs[k].type = "tool" /\ t = Brief(bs[k].tool)
BY DEF Answer!ToolsOf, Brief

LEMMA LastApart ==
  ASSUME NEW S, NEW s \in Seq(S), s # <<>>
  PROVE  /\ Front(s) \in Seq(S) /\ Last(s) \in S
         /\ s = Append(Front(s), Last(s))
         /\ Len(s) \in DOMAIN s /\ Last(s) = s[Len(s)]
         /\ Len(Front(s)) = Len(s) - 1
<1>1. Len(s) \in Nat /\ Len(s) > 0 /\ Len(s) - 1 \in Nat /\ (Len(s) - 1) + 1 = Len(s)
  BY EmptySeq
<1>2. /\ SubSeq(s, 1, Len(s) - 1) \in Seq(S) /\ s[(Len(s) - 1) + 1] \in S
      /\ SubSeq(s, 1, (Len(s) - 1) + 1) = Append(SubSeq(s, 1, Len(s) - 1), s[(Len(s) - 1) + 1])
  BY <1>1, CutMore
<1>3. SubSeq(s, 1, Len(s)) = s
  BY SubSeqFull
<1>4. Len(SubSeq(s, 1, Len(s) - 1)) = Len(s) - 1
  BY <1>1
<1> QED
  BY <1>1, <1>2, <1>3, <1>4 DEF Front, Last

-----------------------------------------------------------------------------
(* What the operations on blocks do to what a reader sees.                  *)

LEMMA ToolsAppended ==
  ASSUME NEW bs \in Seq(Blocks), NEW b \in Blocks
  PROVE  Answer!ToolsOf(Append(bs, b)) =
           Answer!ToolsOf(bs) \cup (IF b.type = "tool" THEN {Brief(b.tool)} ELSE {})
<1> PICK more : more = Append(bs, b)
  OBVIOUS
<1>1. /\ Len(bs) \in Nat /\ DOMAIN bs = 1 .. Len(bs)
      /\ DOMAIN more = 1 .. Len(bs) + 1 /\ more[Len(bs) + 1] = b
      /\ \A k \in 1 .. Len(bs) : more[k] = bs[k]
  BY AppendProperties
<1>2. ASSUME NEW t
      PROVE  t \in Answer!ToolsOf(more) <=>
               t \in Answer!ToolsOf(bs) \/ (b.type = "tool" /\ t = Brief(b.tool))
  <2>1. \A k : k \in DOMAIN more <=> k \in DOMAIN bs \/ k = Len(bs) + 1
    BY <1>1
  <2>2. t \in Answer!ToolsOf(more) <=> \E k \in DOMAIN more : more[k].type = "tool" /\ t = Brief(more[k].tool)
    BY ToolsOfIs
  <2>3. t \in Answer!ToolsOf(bs) <=> \E k \in DOMAIN bs : bs[k].type = "tool" /\ t = Brief(bs[k].tool)
    BY ToolsOfIs
  <2>4. \A k \in DOMAIN bs : more[k] = bs[k]
    BY <1>1
  <2> QED
    BY <1>1, <2>1, <2>2, <2>3, <2>4
<1> QED
  BY <1>2

LEMMA Regrouped ==
  \A a, b, c \in Seq(Items) : a \o (b \o c) = (a \o b) \o c
BY ConcatAssociative

\* The blocks show more text of one kind, and nothing else changes.
GrownText(old, new, kind, text) ==
  /\ new \in Seq(Blocks)
  /\ \A other \in Kinds : Answer!Shown(new, other) =
       IF other = kind THEN Answer!Shown(old, kind) \o text ELSE Answer!Shown(old, other)
  /\ Answer!ToolsOf(new) = Answer!ToolsOf(old)

LEMMA LastGrows ==
  ASSUME NEW front \in Seq(Blocks), NEW kind \in Kinds, NEW text \in Seq(Items),
         NEW last \in TextBlocks, last.type = kind,
         NEW b \in TextBlocks, b.type = kind, b.text = last.text \o text
  PROVE  GrownText(Append(front, last), Append(front, b), kind, text)
<1> SUFFICES ASSUME NEW other \in Kinds
             PROVE  /\ Append(front, b) \in Seq(Blocks)
                    /\ Answer!Shown(Append(front, b), other) =
                         IF other = kind THEN Answer!Shown(Append(front, last), kind) \o text
                         ELSE Answer!Shown(Append(front, last), other)
                    /\ Answer!ToolsOf(Append(front, b)) = Answer!ToolsOf(Append(front, last))
  BY DEF GrownText, Kinds
<1> PICK shown : shown = Answer!Shown(front, other)
  OBVIOUS
<1>1. b \in Blocks /\ last \in Blocks
  BY DEF Blocks
<1>2. Append(front, b) \in Seq(Blocks)
  BY <1>1, AppendProperties
<1>3. Answer!Shown(Append(front, b), other) = shown \o Part(b, other)
  BY <1>1, ShownAppended
<1>4. Answer!Shown(Append(front, last), other) = shown \o Part(last, other)
  BY <1>1, ShownAppended
<1> PICK was : was = last.text
  OBVIOUS
<1>5. shown \in Seq(Items) /\ was \in Seq(Items)
  BY ShownIs DEF TextBlocks
<1>6. shown \o (was \o text) = (shown \o was) \o text
  BY <1>5, Regrouped
<1>7. b.type # "tool" /\ last.type # "tool"
  BY DEF Kinds
<1>8. other = kind => Part(b, other) = was \o text /\ Part(last, other) = was
  BY PartIs, Zenon
<1>9. other # kind => Part(b, other) = Part(last, other)
  BY <1>7, PartIs
<1>10. Answer!ToolsOf(Append(front, b)) = Answer!ToolsOf(Append(front, last))
  BY <1>1, <1>7, ToolsAppended
<1> QED
  BY <1>2, <1>3, <1>4, <1>6, <1>8, <1>9, <1>10

LEMMA AppendTextIs ==
  ASSUME NEW bs \in Seq(Blocks), NEW kind \in Kinds, NEW text \in Seq(Items), NEW other \in Kinds
  PROVE  /\ Answer!AppendText(bs, kind, text) \in Seq(Blocks)
         /\ Answer!Shown(Answer!AppendText(bs, kind, text), other) =
              IF other = kind THEN Answer!Shown(bs, kind) \o text ELSE Answer!Shown(bs, other)
         /\ Answer!ToolsOf(Answer!AppendText(bs, kind, text)) = Answer!ToolsOf(bs)
<1> PICK new : new = Answer!AppendText(bs, kind, text)
  OBVIOUS
<1>0. Answer!Shown(bs, kind) \in Seq(Items) /\ Answer!Shown(bs, other) \in Seq(Items)
  BY ShownIs
<1>1. CASE text = <<>>
  <2>1. new = bs
    BY <1>1 DEF Answer!AppendText
  <2>2. Answer!Shown(bs, kind) \o text = Answer!Shown(bs, kind)
    BY <1>0, <1>1, ConcatEmptySeq
  <2> QED
    BY <2>1, <2>2
<1>2. CASE text # <<>> /\ bs # <<>> /\ Last(bs).type = kind
  <2> PICK front, last : front = Front(bs) /\ last = Last(bs)
    OBVIOUS
  <2> DEFINE b == [last EXCEPT !.text = last.text \o text]
  <2>1. new = Append(front, b)
    BY <1>2, SameForAnswers DEF Answer!AppendText
  <2>2. front \in Seq(Blocks) /\ last \in Blocks /\ bs = Append(front, last)
    BY <1>2, LastApart
  <2>3. last \in TextBlocks /\ last.text \in Seq(Items) /\ last.type = kind
    BY <1>2, <2>2 DEF Blocks, TextBlocks, ToolBlocks, Kinds
  <2>4. last.text \o text \in Seq(Items)
    BY <2>3, ConcatProperties
  <2>5. b \in TextBlocks /\ b.type = kind /\ b.text = last.text \o text
    BY <2>3, <2>4 DEF TextBlocks
  <2>6. GrownText(Append(front, last), Append(front, b), kind, text)
    <3>1. front \in Seq(Blocks) /\ last \in TextBlocks /\ last.type = kind
      BY <2>2, <2>3
    <3>2. b \in TextBlocks /\ b.type = kind /\ b.text = last.text \o text
      BY <2>5
    <3> HIDE DEF b
    <3> QED
      BY <3>1, <3>2, LastGrows
  <2> QED
    BY <2>1, <2>2, <2>6 DEF GrownText
<1>3. CASE text # <<>> /\ ~ (bs # <<>> /\ Last(bs).type = kind)
  <2> PICK b : b = Answer!Block(kind, text, Answer!NoTool)
    OBVIOUS
  <2>1. new = Append(bs, b)
    BY <1>3, SameForAnswers DEF Answer!AppendText
  <2>2. b \in TextBlocks /\ b.type = kind /\ b.text = text
    BY DEF Answer!Block, TextBlocks, Kinds
  <2>3. b \in Blocks
    BY <2>2 DEF Blocks
  <2>4. new \in Seq(Blocks)
    BY <2>1, <2>3, AppendProperties
  <2>5. Answer!Shown(new, other) = Answer!Shown(bs, other) \o Part(b, other)
    BY <2>1, <2>3, ShownAppended
  <2>6. Part(b, other) = IF other = kind THEN text ELSE <<>>
    BY <2>2 DEF Part, Kinds
  <2>7. Answer!Shown(bs, other) \o <<>> = Answer!Shown(bs, other)
    BY <1>0, ConcatEmptySeq
  <2>8. Answer!ToolsOf(new) = Answer!ToolsOf(bs)
    <3>1. b.type # "tool"
      BY <2>2 DEF Kinds
    <3> QED
      BY <2>1, <2>3, <3>1, ToolsAppended
  <2> QED
    BY <2>4, <2>5, <2>6, <2>7, <2>8
<1> QED
  BY <1>1, <1>2, <1>3

Deltas == [reasoning : Seq(Items), content : Seq(Items)]

LEMMA AppendDeltaIs ==
  ASSUME NEW bs \in Seq(Blocks), NEW d, d.reasoning \in Seq(Items), d.content \in Seq(Items),
         NEW kind \in Kinds
  PROVE  /\ Answer!AppendDelta(bs, d) \in Seq(Blocks)
         /\ Answer!Shown(Answer!AppendDelta(bs, d), kind) = Answer!Shown(bs, kind) \o d[kind]
         /\ Answer!ToolsOf(Answer!AppendDelta(bs, d)) = Answer!ToolsOf(bs)
<1> PICK mid : mid = Answer!AppendText(bs, "reasoning", d.reasoning)
  OBVIOUS
<1> PICK new : new = Answer!AppendText(mid, "content", d.content)
  OBVIOUS
<1>1. new = Answer!AppendDelta(bs, d)
  BY DEF Answer!AppendDelta
<1>2. "reasoning" \in Kinds /\ "content" \in Kinds
  BY DEF Kinds
<1>3. /\ mid \in Seq(Blocks)
      /\ Answer!Shown(mid, kind) = IF kind = "reasoning" THEN Answer!Shown(bs, "reasoning") \o d.reasoning
                                   ELSE Answer!Shown(bs, kind)
      /\ Answer!ToolsOf(mid) = Answer!ToolsOf(bs)
  BY <1>2, AppendTextIs
<1>4. /\ new \in Seq(Blocks) /\ kind \in {"reasoning", "content"}
      /\ Answer!Shown(new, kind) = IF kind = "content" THEN Answer!Shown(mid, "content") \o d.content
                                   ELSE Answer!Shown(mid, kind)
      /\ Answer!ToolsOf(new) = Answer!ToolsOf(mid)
  BY <1>2, <1>3, AppendTextIs DEF Kinds
<1> QED
  BY <1>1, <1>3, <1>4

\* Of blocks one of which has the call there is another version.
Has(tools, id) == \E t \in tools : t.id = id

After(patch, t) ==
  IF t.id = patch.id
  THEN [id |-> t.id,
        name |-> IF "name" \in DOMAIN patch THEN patch.name ELSE t.name,
        display |-> IF "display" \in DOMAIN patch THEN patch.display ELSE t.display]
  ELSE t

Fits(patch) ==
  /\ patch.id \in Ids
  /\ \A t \in Tools : t.id = patch.id =>
       Answer!Patched(t, patch) \in Tools /\ Brief(Answer!Patched(t, patch)) = After(patch, Brief(t))

LEMMA ToolIs ==
  ASSUME NEW t \in Tools, NEW patch
  PROVE  Answer!Patched(t, patch) =
           [id |-> IF "id" \in DOMAIN patch THEN patch.id ELSE t.id,
            name |-> IF "name" \in DOMAIN patch THEN patch.name ELSE t.name,
            status |-> IF "status" \in DOMAIN patch THEN patch.status ELSE t.status,
            args |-> IF "more" \in DOMAIN patch THEN t.args \o patch.more
                     ELSE IF "args" \in DOMAIN patch THEN patch.args ELSE t.args,
            display |-> IF "display" \in DOMAIN patch THEN patch.display ELSE t.display]
<1>1. DOMAIN t = {"id", "name", "status", "args", "display"}
  BY DEF Tools
<1> QED
  BY <1>1 DEF Answer!Patched

LEMMA StartFits ==
  ASSUME NEW c \in StartedCalls, NEW display \in Displays
  PROVE  Fits([id |-> c.id, name |-> c.name, status |-> "running", args |-> c.args,
               display |-> display])
<1> PICK patch : patch = [id |-> c.id, name |-> c.name, status |-> "running", args |-> c.args,
               display |-> display]
  OBVIOUS
<1>1. /\ c.id \in Ids /\ c.name \in {"run_command", "other"} /\ c.args \in Seq(AnyArgs)
  <2>1. \A a \in AnyArgs : <<a>> \in Seq(AnyArgs)
    OBVIOUS
  <2> QED
    BY <2>1 DEF StartedCalls
<1>2. DOMAIN patch = {"id", "name", "status", "args", "display"}
  OBVIOUS
<1>3. ASSUME NEW t \in Tools, t.id = patch.id
      PROVE  Answer!Patched(t, patch) \in Tools /\ Brief(Answer!Patched(t, patch)) = After(patch, Brief(t))
  <2>1. Answer!Patched(t, patch) = [id |-> c.id, name |-> c.name, status |-> "running",
                                    args |-> c.args, display |-> display]
    BY <1>2, ToolIs
  <2>2. [id |-> c.id, name |-> c.name, status |-> "running", args |-> c.args, display |-> display] \in Tools
    BY <1>1 DEF Tools
  <2>3. Answer!Patched(t, patch) \in Tools
    BY <2>1, <2>2
  <2> QED
    BY <1>2, <1>3, <2>1, <2>3 DEF Brief, After
<1> QED
  BY <1>1, <1>3 DEF Fits

LEMMA StoredFits ==
  ASSUME NEW c \in StartedCalls, NEW display \in Displays
  PROVE  Fits([id |-> c.id, name |-> c.name, status |-> "running", more |-> c.args,
               display |-> display])
<1> PICK patch : patch = [id |-> c.id, name |-> c.name, status |-> "running", more |-> c.args,
               display |-> display]
  OBVIOUS
<1>1. /\ c.id \in Ids /\ c.name \in {"run_command", "other"} /\ c.args \in Seq(AnyArgs)
  <2>1. \A a \in AnyArgs : <<a>> \in Seq(AnyArgs)
    OBVIOUS
  <2> QED
    BY <2>1 DEF StartedCalls
<1>2. DOMAIN patch = {"id", "name", "status", "more", "display"}
  OBVIOUS
<1>3. ASSUME NEW t \in Tools, t.id = patch.id
      PROVE  Answer!Patched(t, patch) \in Tools /\ Brief(Answer!Patched(t, patch)) = After(patch, Brief(t))
  <2> PICK args : args = t.args \o c.args
    OBVIOUS
  <2>1. Answer!Patched(t, patch) = [id |-> c.id, name |-> c.name, status |-> "running",
                                    args |-> args, display |-> display]
    BY <1>2, ToolIs
  <2>2. args \in Seq(AnyArgs)
    <3>1. t.args \in Seq(AnyArgs)
      BY DEF Tools
    <3> QED
      BY <1>1, <3>1, ConcatProperties
  <2>3. [id |-> c.id, name |-> c.name, status |-> "running", args |-> args, display |-> display] \in Tools
    BY <1>1, <2>2 DEF Tools
  <2>4. Answer!Patched(t, patch) \in Tools
    BY <2>1, <2>3
  <2> QED
    BY <1>2, <1>3, <2>1, <2>4 DEF Brief, After
<1> QED
  BY <1>1, <1>3 DEF Fits

LEMMA FinishFits ==
  ASSUME NEW id \in Ids, NEW name \in {"run_command", "other"}, NEW status \in {"done", "failed"}
  PROVE  Fits([id |-> id, name |-> name, status |-> status])
<1> PICK patch : patch = [id |-> id, name |-> name, status |-> status]
  OBVIOUS
<1>2. DOMAIN patch = {"id", "name", "status"}
  OBVIOUS
<1>3. ASSUME NEW t \in Tools, t.id = patch.id
      PROVE  Answer!Patched(t, patch) \in Tools /\ Brief(Answer!Patched(t, patch)) = After(patch, Brief(t))
  <2>1. Answer!Patched(t, patch) = [id |-> id, name |-> name, status |-> status,
                                    args |-> t.args, display |-> t.display]
    BY <1>2, ToolIs
  <2>2. t.args \in Seq(AnyArgs) /\ t.display \in Displays
    BY DEF Tools
  <2>3. [id |-> id, name |-> name, status |-> status, args |-> t.args, display |-> t.display] \in Tools
    BY <2>2 DEF Tools
  <2>4. Answer!Patched(t, patch) \in Tools
    BY <2>1, <2>3
  <2> QED
    BY <1>2, <1>3, <2>1, <2>4 DEF Brief, After
<1> QED
  BY <1>3 DEF Fits

LEMMA DoneFits ==
  ASSUME NEW id \in Ids
  PROVE  Fits([id |-> id, status |-> "done"])
<1> PICK patch : patch = [id |-> id, status |-> "done"]
  OBVIOUS
<1>2. DOMAIN patch = {"id", "status"}
  OBVIOUS
<1>3. ASSUME NEW t \in Tools, t.id = patch.id
      PROVE  Answer!Patched(t, patch) \in Tools /\ Brief(Answer!Patched(t, patch)) = After(patch, Brief(t))
  <2>1. Answer!Patched(t, patch) = [id |-> id, name |-> t.name, status |-> "done",
                                    args |-> t.args, display |-> t.display]
    BY <1>2, ToolIs
  <2>2. t.args \in Seq(AnyArgs) /\ t.display \in Displays /\ t.name \in {"", "run_command", "other"}
    BY DEF Tools
  <2>3. [id |-> id, name |-> t.name, status |-> "done", args |-> t.args, display |-> t.display] \in Tools
    BY <2>2 DEF Tools
  <2>4. Answer!Patched(t, patch) \in Tools
    BY <2>1, <2>3
  <2> QED
    BY <1>2, <1>3, <2>1, <2>4 DEF Brief, After
<1> QED
  BY <1>3 DEF Fits

\* The blocks after a patch: a call that was there is patched where it stands,
\* and one that was not stands at the end.
Upserted(old, new, patch) ==
  /\ new \in Seq(Blocks)
  /\ \A kind \in Kinds : Answer!Shown(new, kind) =
       IF Has(Answer!ToolsOf(old), patch.id) THEN Answer!Shown(old, kind)
       ELSE Append(Answer!Shown(old, kind), patch.id)
  /\ Answer!ToolsOf(new) =
       {After(patch, t) : t \in Answer!ToolsOf(old)} \cup
       (IF Has(Answer!ToolsOf(old), patch.id) THEN {}
        ELSE {After(patch, Brief(Answer!NewTool(patch.id)))})

LEMMA HasIs ==
  ASSUME NEW bs \in Seq(Blocks), NEW id \in Ids
  PROVE  Has(Answer!ToolsOf(bs), id) <=> \E k \in DOMAIN bs : bs[k].tool.id = id
<1>1. \A t : t \in Answer!ToolsOf(bs) <=> \E k \in DOMAIN bs : bs[k].type = "tool" /\ t = Brief(bs[k].tool)
  BY ToolsOfIs
<1>2. \A k \in DOMAIN bs : bs[k].tool.id = id => bs[k].type = "tool"
  <2>1. ASSUME NEW b \in Blocks, b.tool.id = id PROVE b.type = "tool"
    <3>1. id # "none"
      BY MCRoundAssumption
    <3>2. b \notin TextBlocks
      BY <2>1, <3>1 DEF TextBlocks, Answer!NoTool, Answer!None
    <3> QED
      BY <3>2 DEF Blocks, ToolBlocks
  <2>2. \A k \in DOMAIN bs : bs[k] \in Blocks
    OBVIOUS
  <2> QED
    BY <2>1, <2>2
<1>3. \A tool : Brief(tool).id = tool.id
  BY DEF Brief
<1> QED
  BY <1>1, <1>2, <1>3 DEF Has

\* One block, patched.
BlockAfter(patch, b) ==
  IF b.tool.id = patch.id THEN [b EXCEPT !.tool = Answer!Patched(b.tool, patch)] ELSE b

LEMMA BlockPatched ==
  ASSUME NEW b \in Blocks, NEW patch, Fits(patch), NEW new, new = BlockAfter(patch, b)
  PROVE  /\ new \in Blocks /\ new.type = b.type
         /\ \A kind \in Kinds : Part(new, kind) = Part(b, kind)
         /\ b.type = "tool" => Brief(new.tool) = After(patch, Brief(b.tool))
<1>0. \A t : After(patch, t) = IF t.id = patch.id THEN After(patch, t) ELSE t
  BY DEF After
<1>01. \A tool : Brief(tool).id = tool.id
  BY DEF Brief
<1>1. CASE b.tool.id # patch.id
  BY <1>0, <1>01, <1>1 DEF BlockAfter
<1>2. CASE b.tool.id = patch.id
  <2> PICK tool : tool = Answer!Patched(b.tool, patch)
    OBVIOUS
  <2>0. patch.id \in Ids /\ patch.id # "none"
    BY MCRoundAssumption DEF Fits
  <2>1. b \in ToolBlocks /\ b.tool \in Tools
    BY <1>2, <2>0 DEF Blocks, TextBlocks, ToolBlocks, Answer!NoTool, Answer!None
  <2>2. tool \in Tools /\ Brief(tool) = After(patch, Brief(b.tool))
    BY <1>2, <2>1 DEF Fits
  <2>3. tool.id = b.tool.id
    <3>1. After(patch, Brief(b.tool)).id = Brief(b.tool).id
      BY DEF After
    <3> QED
      BY <1>01, <2>2, <3>1
  <2>4. new = [type |-> b.type, text |-> b.text, tool |-> tool]
    BY <1>2, <2>1 DEF ToolBlocks, BlockAfter
  <2>5. new \in Blocks /\ new.type = b.type /\ new.tool = tool /\ new.text = b.text
    BY <2>1, <2>2, <2>4 DEF Blocks, ToolBlocks
  <2>6. \A kind \in Kinds : Part(new, kind) = Part(b, kind)
    BY <2>3, <2>5, Zenon DEF Part
  <2> QED
    BY <2>2, <2>5, <2>6
<1> QED
  BY <1>1, <1>2

LEMMA UpsertHad ==
  ASSUME NEW bs \in Seq(Blocks), NEW patch, Fits(patch), Has(Answer!ToolsOf(bs), patch.id)
  PROVE  Upserted(bs, Answer!UpsertToolCallBlock(bs, patch), patch)
<1> PICK new : new = Answer!UpsertToolCallBlock(bs, patch)
  OBVIOUS
<1>0. Len(bs) \in Nat /\ DOMAIN bs = 1 .. Len(bs) /\ \A k \in DOMAIN bs : bs[k] \in Blocks
  OBVIOUS
<1>01. patch.id \in Ids
  BY DEF Fits
<1>1. new = [k \in DOMAIN bs |-> BlockAfter(patch, bs[k])]
  BY <1>01, HasIs DEF Answer!UpsertToolCallBlock, BlockAfter
<1>2. DOMAIN new = DOMAIN bs /\ \A k \in DOMAIN bs : new[k] = BlockAfter(patch, bs[k])
  BY <1>1
<1>3. \A k \in DOMAIN bs :
        /\ new[k] \in Blocks /\ new[k].type = bs[k].type
        /\ \A kind \in Kinds : Part(new[k], kind) = Part(bs[k], kind)
        /\ bs[k].type = "tool" => Brief(new[k].tool) = After(patch, Brief(bs[k].tool))
  <2> TAKE k \in DOMAIN bs
  <2>1. bs[k] \in Blocks
    BY <1>0
  <2>2. new[k] = BlockAfter(patch, bs[k])
    BY <1>2
  <2> QED
    BY <2>1, <2>2, BlockPatched
<1>4. new \in Seq(Blocks)
  <2>1. new \in [1 .. Len(bs) -> Blocks]
    <3>1. new = [k \in 1 .. Len(bs) |-> new[k]]
      BY <1>0, <1>1
    <3>2. \A k \in 1 .. Len(bs) : new[k] \in Blocks
      BY <1>0, <1>3
    <3> QED
      BY <3>1, <3>2
  <2> QED
    BY <1>0, <2>1
<1>5. ASSUME NEW kind \in Kinds PROVE Answer!Shown(new, kind) = Answer!Shown(bs, kind)
  <2>1. [k \in DOMAIN new |-> Part(new[k], kind)] = [k \in DOMAIN bs |-> Part(bs[k], kind)]
    BY <1>2, <1>3
  <2>2. Answer!Shown(new, kind) = FlattenSeq([k \in DOMAIN new |-> Part(new[k], kind)])
    BY <1>4, ShownIs
  <2>3. Answer!Shown(bs, kind) = FlattenSeq([k \in DOMAIN bs |-> Part(bs[k], kind)])
    BY ShownIs
  <2> QED
    BY <2>1, <2>2, <2>3
<1>6. Answer!ToolsOf(new) = {After(patch, t) : t \in Answer!ToolsOf(bs)}
  <2>1. \A t : t \in Answer!ToolsOf(new) <=> \E k \in DOMAIN new : new[k].type = "tool" /\ t = Brief(new[k].tool)
    BY ToolsOfIs
  <2>2. \A t : t \in Answer!ToolsOf(bs) <=> \E k \in DOMAIN bs : bs[k].type = "tool" /\ t = Brief(bs[k].tool)
    BY ToolsOfIs
  <2>3. \A t : t \in Answer!ToolsOf(new) <=>
               \E k \in DOMAIN bs : bs[k].type = "tool" /\ t = After(patch, Brief(bs[k].tool))
    BY <1>2, <1>3, <2>1
  <2> QED
    BY <2>2, <2>3
<1> QED
  BY <1>4, <1>5, <1>6 DEF Upserted

LEMMA NewToolIs ==
  ASSUME NEW id \in Ids
  PROVE  Answer!NewTool(id) \in Tools /\ Answer!NewTool(id).id = id
<1>1. <<>> \in Seq(AnyArgs)
  OBVIOUS
<1> QED
  BY <1>1 DEF Answer!NewTool, Tools, Displays

LEMMA UpsertNew ==
  ASSUME NEW bs \in Seq(Blocks), NEW patch, Fits(patch), ~ Has(Answer!ToolsOf(bs), patch.id)
  PROVE  Upserted(bs, Answer!UpsertToolCallBlock(bs, patch), patch)
<1> PICK new : new = Answer!UpsertToolCallBlock(bs, patch)
  OBVIOUS
<1> PICK tool : tool = Answer!Patched(Answer!NewTool(patch.id), patch)
  OBVIOUS
<1> PICK b : b = [type |-> "tool", text |-> <<>>, tool |-> tool]
  OBVIOUS
<1>0. patch.id \in Ids
  BY DEF Fits
<1>1. tool \in Tools /\ Brief(tool) = After(patch, Brief(Answer!NewTool(patch.id)))
  BY <1>0, NewToolIs DEF Fits
<1>2. tool.id = patch.id
  <2>1. After(patch, Brief(Answer!NewTool(patch.id))).id = patch.id
    BY <1>0, NewToolIs DEF After, Brief
  <2> QED
    BY <1>1, <2>1 DEF Brief
<1>3. new = Append(bs, b)
  BY <1>0, HasIs DEF Answer!UpsertToolCallBlock, Answer!Block
<1>4. b \in Blocks /\ b.type = "tool" /\ b.tool = tool
  <2>1. <<>> \in Seq(Items)
    OBVIOUS
  <2> QED
    BY <1>1, <2>1 DEF Blocks, ToolBlocks
<1>5. new \in Seq(Blocks)
  BY <1>3, <1>4, AppendProperties
<1>6. ASSUME NEW kind \in Kinds PROVE Answer!Shown(new, kind) = Append(Answer!Shown(bs, kind), patch.id)
  <2> PICK old : old = Answer!Shown(bs, kind)
    OBVIOUS
  <2>1. Answer!Shown(new, kind) = old \o Part(b, kind)
    BY <1>3, <1>4, ShownAppended
  <2>2. Part(b, kind) = <<patch.id>>
    BY <1>2, <1>4, PartIs
  <2>3. old \in Seq(Items) /\ patch.id \in Items
    BY <1>0, ShownIs DEF Items
  <2>4. old \o <<patch.id>> = Append(old, patch.id)
    BY <2>3, AppendIsConcat
  <2> QED
    BY <2>1, <2>2, <2>4
<1>7. Answer!ToolsOf(new) = Answer!ToolsOf(bs) \cup {Brief(tool)}
  BY <1>3, <1>4, ToolsAppended
<1>8. {After(patch, t) : t \in Answer!ToolsOf(bs)} = Answer!ToolsOf(bs)
  <2>1. \A t \in Answer!ToolsOf(bs) : After(patch, t) = t
    BY DEF Has, After
  <2> QED
    BY <2>1
<1> QED
  BY <1>1, <1>5, <1>6, <1>7, <1>8 DEF Upserted

-----------------------------------------------------------------------------
(* What calls add to what a reader sees.                                    *)

BriefOf(c) == [id |-> c.id, name |-> c.name, display |-> Answer!Display(c.name, c.args)]

NewId(tools, c) == IF Has(tools, c.id) THEN <<>> ELSE <<c.id>>

NewIds(tools, cs) == FlattenSeq([k \in DOMAIN cs |-> NewId(tools, cs[k])])

AddTools(tools, cs) ==
  {t \in tools : \A k \in DOMAIN cs : cs[k].id # t.id} \cup {BriefOf(cs[k]) : k \in DOMAIN cs}

Apart(cs) == \A i, j \in DOMAIN cs : cs[i].id = cs[j].id => i = j

Grown(old, new, d, cs) ==
  /\ new \in Seq(Blocks)
  /\ \A kind \in Kinds : Answer!Shown(new, kind) =
       Answer!Shown(old, kind) \o (d[kind] \o NewIds(Answer!ToolsOf(old), cs))
  /\ Answer!ToolsOf(new) = AddTools(Answer!ToolsOf(old), cs)

CallAdded(old, new, c) ==
  /\ new \in Seq(Blocks)
  /\ \A kind \in Kinds : Answer!Shown(new, kind) =
       IF Has(Answer!ToolsOf(old), c.id) THEN Answer!Shown(old, kind)
       ELSE Append(Answer!Shown(old, kind), c.id)
  /\ Answer!ToolsOf(new) = {t \in Answer!ToolsOf(old) : t.id # c.id} \cup {BriefOf(c)}

Alike(old, new) ==
  /\ new \in Seq(Blocks)
  /\ \A kind \in Kinds : Answer!Shown(new, kind) = Answer!Shown(old, kind)
  /\ Answer!ToolsOf(new) = Answer!ToolsOf(old)

LEMMA UpsertIs ==
  ASSUME NEW bs \in Seq(Blocks), NEW patch, Fits(patch)
  PROVE  Upserted(bs, Answer!UpsertToolCallBlock(bs, patch), patch)
BY UpsertHad, UpsertNew

LEMMA UpsertAdds ==
  ASSUME NEW bs, NEW new, NEW patch, Upserted(bs, new, patch), NEW c, patch.id = c.id,
         \A t : t.id = c.id => After(patch, t) = BriefOf(c)
  PROVE  CallAdded(bs, new, c)
<1> PICK tools : tools = Answer!ToolsOf(bs)
  OBVIOUS
<1>1. \A t : t.id # c.id => After(patch, t) = t
  BY DEF After
<1>2. CASE Has(tools, c.id)
  <2>1. PICK s \in tools : s.id = c.id
    BY <1>2 DEF Has
  <2>2. Answer!ToolsOf(new) = {After(patch, t) : t \in tools}
    BY <1>2 DEF Upserted
  <2>3. {After(patch, t) : t \in tools} = {t \in tools : t.id # c.id} \cup {BriefOf(c)}
    BY <1>1, <2>1
  <2> QED
    BY <1>2, <2>2, <2>3 DEF Upserted, CallAdded
<1>3. CASE ~ Has(tools, c.id)
  <2>1. \A t \in tools : t.id # c.id
    BY <1>3 DEF Has
  <2> PICK fresh : fresh = Brief(Answer!NewTool(patch.id))
    OBVIOUS
  <2>2. fresh.id = c.id
    BY DEF Brief, Answer!NewTool
  <2>3. Answer!ToolsOf(new) = {After(patch, t) : t \in tools} \cup {After(patch, fresh)}
    BY <1>3 DEF Upserted
  <2>4. After(patch, fresh) = BriefOf(c)
    BY <2>2
  <2>5. {After(patch, t) : t \in tools} = {t \in tools : t.id # c.id}
    BY <1>1, <2>1
  <2> QED
    BY <1>3, <2>3, <2>4, <2>5 DEF Upserted, CallAdded
<1> QED
  BY <1>2, <1>3

LEMMA UpsertLeaves ==
  ASSUME NEW bs, NEW new, NEW patch, Upserted(bs, new, patch), Has(Answer!ToolsOf(bs), patch.id),
         \A t \in Answer!ToolsOf(bs) : After(patch, t) = t
  PROVE  Alike(bs, new)
<1>1. {After(patch, t) : t \in Answer!ToolsOf(bs)} = Answer!ToolsOf(bs)
  OBVIOUS
<1> QED
  BY <1>1 DEF Upserted, Alike

LEMMA DisplayType ==
  ASSUME NEW c \in StartedCalls
  PROVE  Answer!Display(c.name, c.args) \in Displays
<1>1. PICK a \in AnyArgs : c.args = <<a>>
  BY DEF StartedCalls
<1>2. <<a>>[1] = a
  OBVIOUS
<1> QED
  BY <1>1, <1>2 DEF Answer!Display, Displays

\* tool_call_started
LEMMA StartAdds ==
  ASSUME NEW bs \in Seq(Blocks), NEW c \in StartedCalls
  PROVE  CallAdded(bs, Answer!UpsertToolCallBlock(bs,
           [id |-> c.id, name |-> c.name, status |-> "running", args |-> c.args,
            display |-> Answer!Display(c.name, c.args)]), c)
<1> PICK display : display = Answer!Display(c.name, c.args)
  OBVIOUS
<1> PICK patch : patch = [id |-> c.id, name |-> c.name, status |-> "running", args |-> c.args,
                          display |-> display]
  OBVIOUS
<1>1. Fits(patch)
  BY DisplayType, StartFits
<1>2. Upserted(bs, Answer!UpsertToolCallBlock(bs, patch), patch)
  BY <1>1, UpsertIs
<1>3. \A t : t.id = c.id => After(patch, t) = BriefOf(c)
  BY DEF After, BriefOf
<1>4. patch.id = c.id
  OBVIOUS
<1> QED
  BY <1>2, <1>3, <1>4, UpsertAdds

\* applyStoredToolCalls, of one call.
LEMMA StoredAdds ==
  ASSUME NEW bs \in Seq(Blocks), NEW c \in StartedCalls, NEW page,
         Answer!AttachDisplay(page, c) = Answer!Display(c.name, c.args)
  PROVE  CallAdded(bs, Answer!ApplyStoredToolCall(bs, page, c), c)
<1> PICK display : display = Answer!Display(c.name, c.args)
  OBVIOUS
<1> PICK patch : patch = [id |-> c.id, name |-> c.name, status |-> "running", more |-> c.args,
                          display |-> display]
  OBVIOUS
<1>1. Fits(patch)
  BY DisplayType, StoredFits
<1>2. Upserted(bs, Answer!UpsertToolCallBlock(bs, patch), patch)
  BY <1>1, UpsertIs
<1>3. \A t : t.id = c.id => After(patch, t) = BriefOf(c)
  BY DEF After, BriefOf
<1>4. patch.id = c.id
  OBVIOUS
<1>5. Answer!ApplyStoredToolCall(bs, page, c) = Answer!UpsertToolCallBlock(bs, patch)
  BY DEF Answer!ApplyStoredToolCall
<1> QED
  BY <1>2, <1>3, <1>4, <1>5, UpsertAdds

\* tool_call_finished
LEMMA FinishLeaves ==
  ASSUME NEW bs \in Seq(Blocks), NEW c \in StartedCalls, NEW status \in {"done", "failed"},
         Has(Answer!ToolsOf(bs), c.id),
         \A t \in Answer!ToolsOf(bs) : t.id = c.id => t = BriefOf(c)
  PROVE  Alike(bs, Answer!UpsertToolCallBlock(bs, [id |-> c.id, name |-> c.name, status |-> status]))
<1> PICK patch : patch = [id |-> c.id, name |-> c.name, status |-> status]
  OBVIOUS
<1>1. Fits(patch)
  BY FinishFits DEF StartedCalls
<1>2. Upserted(bs, Answer!UpsertToolCallBlock(bs, patch), patch)
  BY <1>1, UpsertIs
<1>3. \A t \in Answer!ToolsOf(bs) : After(patch, t) = t
  BY DEF After, BriefOf
<1>4. patch.id = c.id
  OBVIOUS
<1> QED
  BY <1>2, <1>3, <1>4, UpsertLeaves

\* mapMessageRecords, of a stored result.
LEMMA DoneLeaves ==
  ASSUME NEW bs \in Seq(Blocks), NEW id \in Ids, Has(Answer!ToolsOf(bs), id)
  PROVE  Alike(bs, Answer!UpsertToolCallBlock(bs, [id |-> id, status |-> "done"]))
<1> PICK patch : patch = [id |-> id, status |-> "done"]
  OBVIOUS
<1>1. Fits(patch)
  BY DoneFits
<1>2. Upserted(bs, Answer!UpsertToolCallBlock(bs, patch), patch)
  BY <1>1, UpsertIs
<1>3. \A t : t = [id |-> t.id, name |-> t.name, display |-> t.display] => After(patch, t) = t
  BY DEF After
<1>4. \A t \in Answer!ToolsOf(bs) : t = [id |-> t.id, name |-> t.name, display |-> t.display]
  BY ToolsOfIs DEF Brief
<1>5. patch.id = id
  OBVIOUS
<1> QED
  BY <1>2, <1>3, <1>4, <1>5, UpsertLeaves

LEMMA RegroupedTwice ==
  ASSUME NEW a \in Seq(Items), NEW b \in Seq(Items), NEW c \in Seq(Items), NEW d \in Seq(Items)
  PROVE (a \o (b \o c)) \o d = a \o (b \o (c \o d))
<1>1. b \o c \in Seq(Items)
  BY ConcatProperties
<1>2. a \o ((b \o c) \o d) = (a \o (b \o c)) \o d
  BY <1>1, Regrouped
<1>3. b \o (c \o d) = (b \o c) \o d
  BY Regrouped
<1> QED
  BY <1>2, <1>3

Cat(a, b) == a \o b

LEMMA CatTwice ==
  \A p \in Seq(Items), q \in Seq(Items), r \in Seq(Items), s \in Seq(Items) :
    Cat(Cat(p, Cat(q, r)), s) = Cat(p, Cat(q, Cat(r, s)))
BY RegroupedTwice DEF Cat

LEMMA CallIds == \A c \in StartedCalls : c.id \in Ids /\ c.id \in Items
BY DEF StartedCalls, Items

LEMMA NewIdsType ==
  ASSUME NEW tools, NEW cs \in Seq(StartedCalls)
  PROVE  /\ [k \in DOMAIN cs |-> NewId(tools, cs[k])] \in Seq(Seq(Items))
         /\ NewIds(tools, cs) \in Seq(Items)
<1>1. Len(cs) \in Nat /\ DOMAIN cs = 1 .. Len(cs) /\ \A k \in 1 .. Len(cs) : cs[k].id \in Items
  BY CallIds
<1>2. [k \in DOMAIN cs |-> NewId(tools, cs[k])] \in Seq(Seq(Items))
  <2>1. \A i \in Items : <<i>> \in Seq(Items)
    OBVIOUS
  <2>2. \A k \in 1 .. Len(cs) : NewId(tools, cs[k]) \in Seq(Items)
    BY <1>1, <2>1 DEF NewId
  <2> QED
    BY <1>1, <2>2
<1> QED
  BY <1>2, FlattenType DEF NewIds

LEMMA NewIdsNone == \A tools : NewIds(tools, <<>>) = <<>>
<1> TAKE tools
<1>1. [k \in DOMAIN <<>> |-> NewId(tools, <<>>[k])] = <<>>
  OBVIOUS
<1> QED
  BY <1>1, FlattenEmpty DEF NewIds

LEMMA NewIdsMore ==
  ASSUME NEW tools, NEW cs \in Seq(StartedCalls), NEW c \in StartedCalls
  PROVE  NewIds(tools, Append(cs, c)) =
           NewIds(tools, cs) \o NewId(tools, c)
<1> PICK more : more = Append(cs, c)
  OBVIOUS
<1> PICK old : old = [k \in DOMAIN cs |-> NewId(tools, cs[k])]
  OBVIOUS
<1> PICK new : new = [k \in DOMAIN more |-> NewId(tools, more[k])]
  OBVIOUS
<1> PICK part : part = NewId(tools, c)
  OBVIOUS
<1>1. /\ more \in Seq(StartedCalls) /\ Len(cs) \in Nat /\ DOMAIN cs = 1 .. Len(cs)
      /\ DOMAIN more = 1 .. Len(cs) + 1 /\ more[Len(cs) + 1] = c
      /\ \A k \in 1 .. Len(cs) : more[k] = cs[k]
  BY AppendProperties
<1>2. old \in Seq(Seq(Items)) /\ new \in Seq(Seq(Items))
  BY <1>1, NewIdsType
<1>3. part \in Seq(Items)
  <2>1. c.id \in Items
    BY CallIds
  <2> QED
    BY <2>1 DEF NewId
<1>4. new = Append(old, part)
  <2>1. DOMAIN old = 1 .. Len(cs) /\ Len(old) = Len(cs) /\ DOMAIN new = 1 .. Len(cs) + 1
    BY <1>1
  <2>2. /\ \A k \in 1 .. Len(cs) : new[k] = old[k]
        /\ new[Len(cs) + 1] = part
    BY <1>1, <2>1
  <2>4. Len(new) = Len(cs) + 1
    BY <1>1, <1>2, <2>1
  <2> QED
    BY <1>1, <1>2, <1>3, <2>1, <2>2, <2>4
<1>5. FlattenSeq(new) = FlattenSeq(old) \o part
  BY <1>2, <1>3, <1>4, FlattenAppend
<1> QED
  BY <1>5 DEF NewIds

LEMMA AddToolsNone == \A tools : AddTools(tools, <<>>) = tools
BY DEF AddTools

LEMMA AddToolsMore ==
  ASSUME NEW tools, NEW cs \in Seq(StartedCalls), NEW c \in StartedCalls, Apart(Append(cs, c))
  PROVE  /\ AddTools(tools, Append(cs, c)) = {t \in AddTools(tools, cs) : t.id # c.id} \cup {BriefOf(c)}
         /\ Has(AddTools(tools, cs), c.id) <=> Has(tools, c.id)
<1> PICK more : more = Append(cs, c)
  OBVIOUS
<1>1. /\ Len(cs) \in Nat /\ DOMAIN cs = 1 .. Len(cs)
      /\ DOMAIN more = 1 .. Len(cs) + 1 /\ more[Len(cs) + 1] = c
      /\ \A k \in 1 .. Len(cs) : more[k] = cs[k]
  BY AppendProperties
<1>2. \A k \in DOMAIN cs : cs[k].id # c.id
  BY <1>1 DEF Apart
<1>3. \A b : BriefOf(b).id = b.id
  BY DEF BriefOf
<1>4. \A k : k \in DOMAIN more <=> k \in DOMAIN cs \/ k = Len(cs) + 1
  BY <1>1
<1>5. \A k \in DOMAIN cs : more[k] = cs[k]
  BY <1>1
<1>6. ASSUME NEW t
      PROVE  t \in AddTools(tools, more) <=> (t \in AddTools(tools, cs) /\ t.id # c.id) \/ t = BriefOf(c)
  <2>1. t \in AddTools(tools, more) <=>
          (t \in tools /\ \A k \in DOMAIN more : more[k].id # t.id) \/ \E k \in DOMAIN more : t = BriefOf(more[k])
    BY DEF AddTools
  <2>2. t \in AddTools(tools, cs) <=>
          (t \in tools /\ \A k \in DOMAIN cs : cs[k].id # t.id) \/ \E k \in DOMAIN cs : t = BriefOf(cs[k])
    BY DEF AddTools
  <2>3. (\A k \in DOMAIN more : more[k].id # t.id) <=> (\A k \in DOMAIN cs : cs[k].id # t.id) /\ c.id # t.id
    BY <1>1, <1>4, <1>5
  <2>4. (\E k \in DOMAIN more : t = BriefOf(more[k])) <=> (\E k \in DOMAIN cs : t = BriefOf(cs[k])) \/ t = BriefOf(c)
    BY <1>1, <1>4, <1>5
  <2> QED
    BY <1>2, <1>3, <2>1, <2>2, <2>3, <2>4
<1>7. Has(AddTools(tools, cs), c.id) <=> Has(tools, c.id)
  BY <1>2, <1>3 DEF Has, AddTools
<1> QED
  BY <1>6, <1>7

LEMMA GrownMore ==
  ASSUME NEW old \in Seq(Blocks), NEW mid, NEW new, NEW d, NEW cs \in Seq(StartedCalls), NEW c \in StartedCalls,
         d.reasoning \in Seq(Items), d.content \in Seq(Items),
         Grown(old, mid, d, cs), CallAdded(mid, new, c), Apart(Append(cs, c))
  PROVE  Grown(old, new, d, Append(cs, c))
<1> PICK tools : tools = Answer!ToolsOf(old)
  OBVIOUS
<1> PICK part : part = NewId(tools, c)
  OBVIOUS
<1>1. NewIds(tools, Append(cs, c)) = NewIds(tools, cs) \o part
  BY NewIdsMore
<1>2. /\ AddTools(tools, Append(cs, c)) = {t \in AddTools(tools, cs) : t.id # c.id} \cup {BriefOf(c)}
      /\ Has(AddTools(tools, cs), c.id) <=> Has(tools, c.id)
  BY AddToolsMore
<1>3. Answer!ToolsOf(mid) = AddTools(tools, cs)
  BY DEF Grown
<1>4. ASSUME NEW kind \in Kinds
      PROVE  Answer!Shown(new, kind) = Answer!Shown(old, kind) \o (d[kind] \o NewIds(tools, Append(cs, c)))
  <2> PICK was, ids, text : was = Answer!Shown(old, kind) /\ ids = NewIds(tools, cs) /\ text = d[kind]
    OBVIOUS
  <2>1. Answer!Shown(mid, kind) = was \o (text \o ids)
    BY DEF Grown
  <2>2. was \in Seq(Items) /\ ids \in Seq(Items) /\ text \in Seq(Items)
    <3>1. was \in Seq(Items) /\ ids \in Seq(Items)
      BY ShownIs, NewIdsType
    <3> QED
      BY <3>1 DEF Kinds
  <2>3. Answer!Shown(new, kind) = (was \o (text \o ids)) \o part
    <3>1. Answer!Shown(new, kind) = IF Has(tools, c.id) THEN was \o (text \o ids) ELSE Append(was \o (text \o ids), c.id)
      BY <1>2, <1>3, <2>1 DEF CallAdded
    <3>2. was \o (text \o ids) \in Seq(Items)
      BY <2>2, ConcatProperties
    <3> PICK so : so = was \o (text \o ids)
      OBVIOUS
    <3>3. c.id \in Items
      BY DEF StartedCalls, Items
    <3>4. so \o <<>> = so /\ so \o <<c.id>> = Append(so, c.id)
      BY <3>2, <3>3, AppendIsConcat, ConcatEmptySeq
    <3> QED
      BY <3>1, <3>4 DEF NewId
  <2>4. part \in Seq(Items)
    <3>1. c.id \in Items
      BY CallIds
    <3> QED
      BY <3>1 DEF NewId
  <2>5. (was \o (text \o ids)) \o part = was \o (text \o (ids \o part))
    <3>1. Cat(Cat(was, Cat(text, ids)), part) = Cat(was, Cat(text, Cat(ids, part)))
      BY <2>2, <2>4, CatTwice
    <3> QED
      BY <3>1 DEF Cat
  <2> QED
    BY <1>1, <2>3, <2>5
<1> QED
  BY <1>2, <1>3, <1>4 DEF Grown, CallAdded

\* Text alone.
LEMMA GrownNothing ==
  ASSUME NEW old \in Seq(Blocks), NEW d, d.reasoning \in Seq(Items), d.content \in Seq(Items)
  PROVE  Grown(old, Answer!AppendDelta(old, d), d, <<>>)
<1>1. ASSUME NEW kind \in Kinds
      PROVE  d[kind] \o NewIds(Answer!ToolsOf(old), <<>>) = d[kind]
  <2>1. d[kind] \in Seq(Items)
    BY DEF Kinds
  <2> QED
    BY <2>1, NewIdsNone, ConcatEmptySeq
<1>2. AddTools(Answer!ToolsOf(old), <<>>) = Answer!ToolsOf(old)
  BY AddToolsNone
<1>3. \A kind \in Kinds :
        /\ Answer!AppendDelta(old, d) \in Seq(Blocks)
        /\ Answer!Shown(Answer!AppendDelta(old, d), kind) = Answer!Shown(old, kind) \o d[kind]
        /\ Answer!ToolsOf(Answer!AppendDelta(old, d)) = Answer!ToolsOf(old)
  BY AppendDeltaIs
<1>4. "content" \in Kinds
  BY DEF Kinds
<1> QED
  BY <1>1, <1>2, <1>3, <1>4 DEF Grown

-----------------------------------------------------------------------------
(* What is left of a sequence.                                              *)

Just(x, S) == IF x \in S THEN <<x>> ELSE <<>>

Justs(s, S) == [k \in DOMAIN s |-> Just(s[k], S)]

LEMMA OnlyFlat == \A s, S : Answer!Only(s, S) = FlattenSeq(Justs(s, S))
BY SameForAnswers DEF Answer!Only, Just, Justs

LEMMA JustsType ==
  ASSUME NEW T, NEW s \in Seq(T), NEW S
  PROVE  /\ Justs(s, S) \in Seq(Seq(T)) /\ Len(Justs(s, S)) = Len(s)
         /\ \A k \in 1 .. Len(s) : Justs(s, S)[k] = Just(s[k], S)
<1>1. Len(s) \in Nat /\ DOMAIN s = 1 .. Len(s) /\ \A k \in 1 .. Len(s) : s[k] \in T
  OBVIOUS
<1>2. \A x \in T : Just(x, S) \in Seq(T)
  BY DEF Just
<1>3. \A k \in 1 .. Len(s) : Just(s[k], S) \in Seq(T)
  BY <1>1, <1>2
<1> QED
  BY <1>1, <1>3 DEF Justs

LEMMA OnlyIs ==
  ASSUME NEW T, NEW s \in Seq(T), NEW S
  PROVE  Answer!Only(s, S) \in Seq(T)
<1>1. Justs(s, S) \in Seq(Seq(T))
  BY JustsType
<1>2. FlattenSeq(Justs(s, S)) \in Seq(T)
  BY <1>1, FlattenType
<1> QED
  BY <1>2, OnlyFlat

LEMMA OnlyEmpty == \A S : Answer!Only(<<>>, S) = <<>>
<1> TAKE S
<1>1. Justs(<<>>, S) = <<>>
  BY DEF Justs
<1> QED
  BY <1>1, OnlyFlat, FlattenEmpty

\* A sequence whose entries are those of two others.
LEMMA SameEntries ==
  ASSUME NEW T, NEW p \in Seq(T), NEW q \in Seq(T), NEW r \in Seq(T), Len(r) = Len(p) + Len(q),
         \A k \in 1 .. Len(p) + Len(q) : r[k] = IF k <= Len(p) THEN p[k] ELSE q[k - Len(p)]
  PROVE  r = p \o q
<1>1. /\ p \o q \in Seq(T) /\ Len(p \o q) = Len(p) + Len(q)
      /\ \A k \in 1 .. Len(p) + Len(q) : (p \o q)[k] = IF k <= Len(p) THEN p[k] ELSE q[k - Len(p)]
  BY ConcatProperties
<1> PICK both, N, M : both = p \o q /\ N = Len(p) /\ M = Len(p) + Len(q)
  OBVIOUS
<1>2. both \in Seq(T) /\ Len(both) = M /\ Len(r) = M
  BY <1>1
<1>3. \A k \in 1 .. M : both[k] = IF k <= N THEN p[k] ELSE q[k - N]
  BY <1>1
<1>4. \A k \in 1 .. M : r[k] = IF k <= N THEN p[k] ELSE q[k - N]
  OBVIOUS
<1>5. \A k \in 1 .. M : r[k] = both[k]
  BY <1>3, <1>4
<1>6. r = both
  BY <1>2, <1>5, SeqEqual
<1> QED
  BY <1>6

LEMMA OnlyJoined ==
  ASSUME NEW T, NEW a \in Seq(T), NEW b \in Seq(T), NEW S
  PROVE  Answer!Only(a \o b, S) = Answer!Only(a, S) \o Answer!Only(b, S)
<1> PICK both, pa, pb, pc : /\ both = a \o b
                            /\ pa = Justs(a, S) /\ pb = Justs(b, S) /\ pc = Justs(both, S)
  OBVIOUS
<1> PICK N, M : N = Len(a) /\ M = Len(b)
  OBVIOUS
<1>1. /\ both \in Seq(T) /\ N \in Nat /\ M \in Nat /\ Len(both) = N + M
      /\ \A k \in 1 .. N + M : both[k] = IF k <= N THEN a[k] ELSE b[k - N]
  BY ConcatProperties
<1>2. /\ pa \in Seq(Seq(T)) /\ Len(pa) = N /\ \A k \in 1 .. N : pa[k] = Just(a[k], S)
      /\ pb \in Seq(Seq(T)) /\ Len(pb) = M /\ \A k \in 1 .. M : pb[k] = Just(b[k], S)
  BY JustsType
<1>3. pc \in Seq(Seq(T)) /\ Len(pc) = N + M /\ \A k \in 1 .. N + M : pc[k] = Just(both[k], S)
  <2>1. pc \in Seq(Seq(T)) /\ Len(pc) = Len(both) /\ \A k \in 1 .. Len(both) : pc[k] = Just(both[k], S)
    BY <1>1, JustsType
  <2> QED
    BY <1>1, <2>1
<1>4. ASSUME NEW k \in 1 .. N + M PROVE pc[k] = IF k <= N THEN pa[k] ELSE pb[k - N]
  <2>1. pc[k] = Just(both[k], S)
    BY <1>3
  <2>2. CASE k <= N
    <3>1. k \in 1 .. N
      BY <1>1, <2>2
    <3> QED
      BY <1>1, <1>2, <2>1, <2>2, <3>1
  <2>3. CASE ~ (k <= N)
    <3>1. k - N \in 1 .. M
      BY <1>1, <2>3
    <3> QED
      BY <1>1, <1>2, <2>1, <2>3, <3>1
  <2> QED
    BY <2>2, <2>3
<1>5. pc = pa \o pb
  <2> PICK U : U = Seq(T)
    OBVIOUS
  <2>1. pa \in Seq(U) /\ pb \in Seq(U) /\ pc \in Seq(U) /\ Len(pc) = Len(pa) + Len(pb)
    BY <1>2, <1>3
  <2>2. \A k \in 1 .. Len(pa) + Len(pb) : pc[k] = IF k <= Len(pa) THEN pa[k] ELSE pb[k - Len(pa)]
    BY <1>2, <1>4
  <2> QED
    BY <2>1, <2>2, SameEntries
<1>6. FlattenSeq(pc) = FlattenSeq(pa) \o FlattenSeq(pb)
  BY <1>2, <1>5, FlattenConcat
<1>7. /\ Answer!Only(both, S) = FlattenSeq(pc)
      /\ Answer!Only(a, S) = FlattenSeq(pa) /\ Answer!Only(b, S) = FlattenSeq(pb)
  BY OnlyFlat
<1> QED
  BY <1>6, <1>7

LEMMA OnlyMore ==
  ASSUME NEW T, NEW s \in Seq(T), NEW x \in T, NEW S
  PROVE  Answer!Only(Append(s, x), S) = Answer!Only(s, S) \o Just(x, S)
<1>1. PICK one \in Seq(T) : one = <<x>> /\ Append(s, x) = s \o one
  <2>1. <<x>> \in Seq(T) /\ Append(s, x) = s \o <<x>>
    BY AppendIsConcat
  <2> QED
    BY <2>1
<1>2. Answer!Only(s \o one, S) = Answer!Only(s, S) \o Answer!Only(one, S)
  BY OnlyJoined
<1>3. Answer!Only(one, S) = Just(x, S)
  <2> PICK only, y : only = Justs(one, S) /\ y = Just(x, S)
    OBVIOUS
  <2>1. only \in Seq(Seq(T)) /\ Len(only) = 1 /\ only[1] = y
    <3>1. Len(one) = 1 /\ one[1] = x /\ 1 \in 1 .. Len(one)
      BY <1>1
    <3> QED
      BY <1>1, <3>1, JustsType
  <2>2. FlattenSeq(only) = IF 1 \in 1 .. Len(only) THEN only[1] ELSE <<>>
    <3>1. \A i \in 1 .. Len(only) : 1 # i => only[i] = <<>>
      BY <2>1
    <3> QED
      BY <2>1, <3>1, FlattenOne
  <2> QED
    BY <2>1, <2>2, OnlyFlat
<1> QED
  BY <1>1, <1>2, <1>3

LEMMA RangeMore ==
  ASSUME NEW T, NEW s \in Seq(T), NEW x
  PROVE  Range(Append(s, x)) = Range(s) \cup {x}
<1>1. /\ DOMAIN Append(s, x) = 1 .. Len(s) + 1 /\ Append(s, x)[Len(s) + 1] = x
      /\ \A k \in 1 .. Len(s) : Append(s, x)[k] = s[k]
      /\ DOMAIN s = 1 .. Len(s) /\ Len(s) \in Nat
  OBVIOUS
<1>2. \A k : k \in 1 .. Len(s) + 1 <=> k \in 1 .. Len(s) \/ k = Len(s) + 1
  BY <1>1
<1> QED
  BY <1>1, <1>2 DEF Range

LEMMA RangeJoined ==
  ASSUME NEW T, NEW a \in Seq(T), NEW b \in Seq(T)
  PROVE  Range(a \o b) = Range(a) \cup Range(b)
<1> PICK both : both = a \o b
  OBVIOUS
<1>1. /\ both \in Seq(T) /\ Len(a) \in Nat /\ Len(b) \in Nat /\ DOMAIN a = 1 .. Len(a)
      /\ DOMAIN b = 1 .. Len(b) /\ DOMAIN both = 1 .. Len(a) + Len(b)
      /\ \A k \in 1 .. Len(a) + Len(b) : both[k] = IF k <= Len(a) THEN a[k] ELSE b[k - Len(a)]
  BY ConcatProperties
<1>2. \A k \in DOMAIN a : k \in DOMAIN both /\ both[k] = a[k]
  BY <1>1
<1>3. \A k \in DOMAIN b : k + Len(a) \in DOMAIN both /\ both[k + Len(a)] = b[k]
  <2> TAKE k \in DOMAIN b
  <2>1. k \in Nat /\ k >= 1 /\ k <= Len(b) /\ (k + Len(a)) - Len(a) = k /\ ~ (k + Len(a) <= Len(a))
    BY <1>1
  <2>2. k + Len(a) \in 1 .. Len(a) + Len(b)
    BY <1>1, <2>1
  <2> QED
    BY <1>1, <2>1, <2>2
<1>4. ASSUME NEW k \in DOMAIN both
      PROVE  (k \in DOMAIN a /\ both[k] = a[k]) \/ (k - Len(a) \in DOMAIN b /\ both[k] = b[k - Len(a)])
  <2>1. CASE k <= Len(a)
    <3>1. k \in DOMAIN a
      BY <1>1, <2>1
    <3> QED
      BY <1>1, <2>1, <3>1
  <2>2. CASE ~ (k <= Len(a))
    <3>1. k - Len(a) \in DOMAIN b
      BY <1>1, <2>2
    <3> QED
      BY <1>1, <2>2, <3>1
  <2> QED
    BY <2>1, <2>2
<1>5. \A x : x \in Range(a) => x \in Range(both)
  BY <1>2 DEF Range
<1>6. \A x : x \in Range(b) => x \in Range(both)
  BY <1>3 DEF Range
<1>7. \A x : x \in Range(both) => x \in Range(a) \/ x \in Range(b)
  BY <1>4 DEF Range
<1> QED
  BY <1>5, <1>6, <1>7

\* A sequence, one element at a time.
LEMMA OneAtATime ==
  ASSUME NEW T, NEW s \in Seq(T), NEW G \in SUBSET Seq(T), <<>> \in G,
         \A t \in G, x \in Range(s) : Append(t, x) \in G
  PROVE  s \in G
<1> DEFINE N == Len(s)
           Some == {n \in Nat : n <= N => SubSeq(s, 1, n) \in G}
<1>0. N \in Nat /\ DOMAIN s = 1 .. N
  OBVIOUS
<1>1. 0 \in Some
  <2>1. SubSeq(s, 1, 0) = <<>>
    BY SubSeqEmpty
  <2> QED
    BY <2>1
<1>2. ASSUME NEW n \in Nat, n \in Some PROVE n + 1 \in Some
  <2> SUFFICES ASSUME n + 1 <= N PROVE SubSeq(s, 1, n + 1) \in G
    OBVIOUS
  <2>1. n <= N /\ n + 1 \in DOMAIN s
    BY <1>0
  <2>2. SubSeq(s, 1, n + 1) = Append(SubSeq(s, 1, n), s[n + 1])
    BY CutMore
  <2>3. s[n + 1] \in Range(s)
    BY <2>1 DEF Range
  <2>4. SubSeq(s, 1, n) \in G
    BY <1>2, <2>1
  <2> QED
    BY <2>2, <2>3, <2>4
<1>3. Nat \subseteq Some
  <2> HIDE DEF Some
  <2> QED
    BY <1>1, <1>2, InductionOverSet
<1>4. SubSeq(s, 1, N) = s
  BY SubSeqFull
<1>5. SubSeq(s, 1, N) \in G
  <2>1. N \in Some /\ N <= N
    BY <1>0, <1>3
  <2> QED
    BY <2>1
<1> QED
  BY <1>4, <1>5

LEMMA OnlyAll ==
  ASSUME NEW T, NEW s \in Seq(T), NEW S, Range(s) \subseteq S
  PROVE  Answer!Only(s, S) = s
<1> DEFINE G == {t \in Seq(T) : Answer!Only(t, S) = t}
<1>1. <<>> \in G
  BY OnlyEmpty
<1>2. ASSUME NEW t \in G, NEW x \in Range(s) PROVE Append(t, x) \in G
  <2>1. x \in T /\ x \in S
    BY DEF Range
  <2>2. Append(t, x) \in Seq(T) /\ t \in Seq(T) /\ Answer!Only(t, S) = t
    BY <2>1, AppendProperties
  <2>3. Answer!Only(Append(t, x), S) = t \o Just(x, S)
    <3>1. Answer!Only(Append(t, x), S) = Answer!Only(t, S) \o Just(x, S)
      BY <2>1, <2>2, OnlyMore
    <3> QED
      BY <2>2, <3>1
  <2>4. Just(x, S) = <<x>>
    BY <2>1 DEF Just
  <2>5. t \o <<x>> = Append(t, x)
    BY <2>1, <2>2, AppendIsConcat
  <2> QED
    BY <2>2, <2>3, <2>4, <2>5
<1>3. s \in G
  <2> HIDE DEF G
  <2>1. G \in SUBSET Seq(T)
    BY DEF G
  <2> QED
    BY <1>1, <1>2, <2>1, OneAtATime
<1> QED
  BY <1>3

LEMMA OnlyNothing ==
  ASSUME NEW T, NEW s \in Seq(T), NEW S, Range(s) \cap S = {}
  PROVE  Answer!Only(s, S) = <<>>
<1> DEFINE G == {t \in Seq(T) : Answer!Only(t, S) = <<>>}
<1>1. <<>> \in G
  BY OnlyEmpty
<1>2. ASSUME NEW t \in G, NEW x \in Range(s) PROVE Append(t, x) \in G
  <2>1. x \in T /\ x \notin S
    BY DEF Range
  <2>2. Append(t, x) \in Seq(T) /\ t \in Seq(T) /\ Answer!Only(t, S) = <<>>
    BY <2>1, AppendProperties
  <2>3. Answer!Only(Append(t, x), S) = <<>> \o Just(x, S)
    BY <2>1, <2>2, OnlyMore
  <2>4. Just(x, S) = <<>>
    BY <2>1 DEF Just
  <2>5. <<>> \o <<>> = <<>>
    OBVIOUS
  <2> QED
    BY <2>2, <2>3, <2>4, <2>5
<1>3. s \in G
  <2> HIDE DEF G
  <2>1. G \in SUBSET Seq(T)
    BY DEF G
  <2> QED
    BY <1>1, <1>2, <2>1, OneAtATime
<1> QED
  BY <1>3

LEMMA OnlyRange ==
  ASSUME NEW T, NEW s \in Seq(T), NEW S
  PROVE  Range(Answer!Only(s, S)) = Range(s) \cap S
<1> DEFINE G == {t \in Seq(T) : Range(Answer!Only(t, S)) = Range(t) \cap S}
<1>1. <<>> \in G
  <2>1. Range(<<>>) = {}
    BY DEF Range
  <2> QED
    BY <2>1, OnlyEmpty
<1>2. ASSUME NEW t \in G, NEW x \in Range(s) PROVE Append(t, x) \in G
  <2>1. x \in T
    BY DEF Range
  <2>2. Append(t, x) \in Seq(T) /\ t \in Seq(T) /\ Range(Answer!Only(t, S)) = Range(t) \cap S
    BY <2>1, AppendProperties
  <2> PICK o : o = Answer!Only(t, S)
    OBVIOUS
  <2>3. Answer!Only(Append(t, x), S) = o \o Just(x, S)
    BY <2>1, <2>2, OnlyMore
  <2>4. o \in Seq(T) /\ Just(x, S) \in Seq(T)
    <3>1. o \in Seq(T)
      BY <2>2, OnlyIs
    <3>2. <<x>> \in Seq(T) /\ <<>> \in Seq(T)
      BY <2>1
    <3> QED
      BY <3>1, <3>2 DEF Just
  <2>5. Range(o \o Just(x, S)) = Range(o) \cup Range(Just(x, S))
    BY <2>4, RangeJoined
  <2>6. Range(Just(x, S)) = {x} \cap S
    <3>1. Range(<<x>>) = {x} /\ Range(<<>>) = {}
      BY DEF Range
    <3> QED
      BY <3>1 DEF Just
  <2>7. Range(Append(t, x)) = Range(t) \cup {x}
    BY <2>2, RangeMore
  <2> QED
    BY <2>2, <2>3, <2>5, <2>6, <2>7
<1>3. s \in G
  <2> HIDE DEF G
  <2>1. G \in SUBSET Seq(T)
    BY DEF G
  <2> QED
    BY <1>1, <1>2, <2>1, OneAtATime
<1> QED
  BY <1>3

LEMMA OnlyAlike ==
  ASSUME NEW T, NEW s \in Seq(T), NEW S, NEW R, \A x \in Range(s) : x \in S <=> x \in R
  PROVE  Answer!Only(s, S) = Answer!Only(s, R)
<1>1. \A k \in DOMAIN s : Just(s[k], S) = Just(s[k], R)
  BY DEF Just, Range
<1>2. Justs(s, S) = Justs(s, R)
  BY <1>1 DEF Justs
<1> QED
  BY <1>2, OnlyFlat

-----------------------------------------------------------------------------
(* Stored calls, displayed and applied.                                     *)

ArgsOf(cs) == FlattenSeq([k \in DOMAIN cs |-> cs[k].args])

LEMMA CallArgs == \A c \in StartedCalls : c.args \in Seq(AnyArgs) /\ Len(c.args) = 1
<1>1. \A a \in AnyArgs : <<a>> \in Seq(AnyArgs) /\ Len(<<a>>) = 1
  OBVIOUS
<1>2. \A c \in StartedCalls : \E a \in AnyArgs : c.args = <<a>>
  BY DEF StartedCalls
<1> QED
  BY <1>1, <1>2

LEMMA ArgsOfMore ==
  ASSUME NEW cs \in Seq(StartedCalls), NEW c \in StartedCalls
  PROVE  /\ ArgsOf(cs) \in Seq(AnyArgs)
         /\ ArgsOf(Append(cs, c)) = ArgsOf(cs) \o c.args
<1>1. ASSUME NEW s \in Seq(StartedCalls)
      PROVE  [k \in DOMAIN s |-> s[k].args] \in Seq(Seq(AnyArgs))
  <2>1. Len(s) \in Nat /\ DOMAIN s = 1 .. Len(s) /\ \A k \in 1 .. Len(s) : s[k].args \in Seq(AnyArgs)
    BY CallArgs
  <2> QED
    BY <2>1
<1> PICK more : more = Append(cs, c)
  OBVIOUS
<1> PICK old, new : /\ old = [k \in DOMAIN cs |-> cs[k].args]
                    /\ new = [k \in DOMAIN more |-> more[k].args]
  OBVIOUS
<1>2. /\ more \in Seq(StartedCalls) /\ Len(cs) \in Nat /\ DOMAIN cs = 1 .. Len(cs)
      /\ DOMAIN more = 1 .. Len(cs) + 1 /\ more[Len(cs) + 1] = c
      /\ \A k \in 1 .. Len(cs) : more[k] = cs[k]
  BY AppendProperties
<1>3. old \in Seq(Seq(AnyArgs)) /\ new \in Seq(Seq(AnyArgs)) /\ c.args \in Seq(AnyArgs)
  BY <1>1, <1>2, CallArgs
<1>4. new = Append(old, c.args)
  <2>1. DOMAIN old = 1 .. Len(cs) /\ Len(old) = Len(cs) /\ DOMAIN new = 1 .. Len(cs) + 1
    BY <1>2
  <2>2. /\ \A k \in 1 .. Len(cs) : new[k] = old[k]
        /\ new[Len(cs) + 1] = c.args
    BY <1>2, <2>1
  <2>4. Len(new) = Len(cs) + 1
    BY <1>2, <1>3, <2>1
  <2> QED
    BY <1>2, <1>3, <2>1, <2>2, <2>4
<1>5. FlattenSeq(new) = FlattenSeq(old) \o c.args
  BY <1>3, <1>4, FlattenAppend
<1>6. FlattenSeq(old) \in Seq(AnyArgs)
  BY <1>3, FlattenType
<1> QED
  BY <1>5, <1>6 DEF ArgsOf

LEMMA ArgsOfNone == ArgsOf(<<>>) = <<>>
<1>1. [k \in DOMAIN <<>> |-> <<>>[k].args] = <<>>
  OBVIOUS
<1> QED
  BY <1>1, FlattenEmpty DEF ArgsOf

LEMMA ArgsOfLength ==
  ASSUME NEW cs \in Seq(StartedCalls), NEW c \in StartedCalls
  PROVE  Len(ArgsOf(Append(cs, c))) = Len(ArgsOf(cs)) + 1
<1> PICK args : args = ArgsOf(cs)
  OBVIOUS
<1>1. args \in Seq(AnyArgs) /\ ArgsOf(Append(cs, c)) = args \o c.args
  BY ArgsOfMore
<1>2. c.args \in Seq(AnyArgs) /\ Len(c.args) = 1
  BY CallArgs
<1>3. Len(args \o c.args) = Len(args) + Len(c.args)
  BY <1>1, <1>2, ConcatProperties
<1> QED
  BY <1>1, <1>2, <1>3

LEMMA RangeEmpty == Range(<<>>) = {}
BY DEF Range

\* A stored call is displayed by its own name and arguments: the page has the
\* call, and if it has another one of its identifier, their texts together are no JSON.
LEMMA AttachIs ==
  ASSUME NEW page \in Seq(StartedCalls), NEW c \in Range(page)
  PROVE  Answer!AttachDisplay(page, c) = Answer!Display(c.name, c.args)
<1> PICK own : own = Answer!Only(page, {x \in Range(page) : x.id = c.id})
  OBVIOUS
<1>0. c \in StartedCalls
  BY DEF Range
<1>1. own \in Seq(StartedCalls) /\ Range(own) = Range(page) \cap {x \in Range(page) : x.id = c.id}
  BY OnlyIs, OnlyRange
<1>2. c \in Range(own)
  BY <1>1
<1>3. own # <<>>
  BY <1>2 DEF Range
<1> PICK front, last : front = Front(own) /\ last = Last(own)
  OBVIOUS
<1>4. front \in Seq(StartedCalls) /\ last \in StartedCalls /\ own = Append(front, last)
  BY <1>1, <1>3, LastApart
<1>5. Answer!PageDisplay(page, c.id) = Answer!Display(last.name, ArgsOf(own))
  BY <1>3, SameForAnswers DEF Answer!PageDisplay, ArgsOf
<1>6. CASE front = <<>>
  <2>1. Range(own) = Range(front) \cup {last}
    BY <1>4, RangeMore
  <2>2. last = c
    <3>1. Range(front) = {}
      BY <1>6, RangeEmpty, Zenon
    <3> QED
      BY <1>2, <2>1, <3>1
  <2>3. ArgsOf(own) = ArgsOf(<<>>) \o c.args
    BY <1>4, <1>6, <2>2, ArgsOfMore
  <2>4. c.args \in Seq(AnyArgs)
    BY <1>0, CallArgs
  <2>5. ArgsOf(own) = c.args
    BY <2>3, <2>4, ArgsOfNone, ConcatEmptySeq
  <2> QED
    BY <1>5, <2>2, <2>5 DEF Answer!AttachDisplay
<1>7. CASE front # <<>>
  <2> PICK first, prior : first = Front(front) /\ prior = Last(front)
    OBVIOUS
  <2>1. first \in Seq(StartedCalls) /\ prior \in StartedCalls /\ front = Append(first, prior)
    BY <1>4, <1>7, LastApart
  <2> PICK n, m : n = Len(ArgsOf(front)) /\ m = Len(ArgsOf(first))
    OBVIOUS
  <2>2. Len(ArgsOf(Append(front, last))) = n + 1
    BY <1>4, ArgsOfLength
  <2>21. Len(ArgsOf(Append(first, prior))) = m + 1
    BY <2>1, ArgsOfLength
  <2>3. m \in Nat
    <3>1. ArgsOf(first) \in Seq(AnyArgs)
      BY <1>0, <2>1, ArgsOfMore
    <3> QED
      BY <3>1
  <2>31. n = m + 1
    BY <2>1, <2>21
  <2>32. Len(ArgsOf(own)) = n + 1
    BY <1>4, <2>2
  <2>4. Len(ArgsOf(own)) # 1
    <3>1. \A i \in Nat : (i + 1) + 1 # 1
      OBVIOUS
    <3>2. Len(ArgsOf(own)) = (m + 1) + 1
      BY <2>31, <2>32, Zenon
    <3> QED
      BY <2>3, <3>1, <3>2, Zenon
  <2>5. Answer!Display(last.name, ArgsOf(own)) = Answer!None
    BY <2>4 DEF Answer!Display
  <2> QED
    BY <1>5, <2>5 DEF Answer!AttachDisplay
<1> QED
  BY <1>6, <1>7

Storable(cs, page) ==
  \A k \in 1 .. Len(cs), acc \in Seq(Blocks) : Answer!ApplyStoredToolCall(acc, page, cs[k]) \in Seq(Blocks)

StoredBy(st, bs, cs, page) ==
  /\ st[0] = bs
  /\ \A n \in 0 .. Len(cs) : st[n] \in Seq(Blocks)
  /\ \A n \in 1 .. Len(cs) : st[n] = Answer!ApplyStoredToolCall(st[n - 1], page, cs[n])
  /\ Answer!ApplyStoredToolCalls(bs, page, cs) = st[Len(cs)]

LEMMA StoredAlong ==
  ASSUME NEW bs \in Seq(Blocks), NEW cs \in Seq(StartedCalls), NEW page, Storable(cs, page)
  PROVE  \E st : StoredBy(st, bs, cs, page)
<1> DEFINE N == Len(cs)
           A == Seq(Blocks)
           F == [n \in 1..N |-> [a \in A |-> Answer!ApplyStoredToolCall(a, page, cs[n])]]
           it == CHOOSE h : h = [s \in SUBSET (1..N) |->
                    IF s = {} THEN bs ELSE Answer!ApplyStoredToolCall(h[s \ {Max(s)}], page, cs[Max(s)])]
<1>1. N \in Nat /\ DOMAIN cs = 1..N
    OBVIOUS
<1>2. Answer!ApplyStoredToolCalls(bs, page, cs) = it[1..N]
    BY <1>1 DEF Answer!ApplyStoredToolCalls, Answer!FoldLeft, Answer!MapThenFoldSet, Answer!Max, Max
<1>3. F \in [1..N -> [A -> A]]
    BY DEF Storable
<1>4. \A a \in A, n \in 1..N : F[n][a] = Answer!ApplyStoredToolCall(a, page, cs[n])
    BY <1>1
<1> HIDE DEF F
<1>5. PICK f \in [SUBSET (1..N) -> A] : Folding(f, N, A, bs, F)
    <2> HIDE DEF N, A
    <2> QED
        BY <1>1, <1>3, FoldExists DEF A
<1>6. ASSUME NEW s \in SUBSET (1..N), s # {}
      PROVE  Max(s) \in 1..N
    <2>1. s \in SUBSET (0..N)
        BY <1>1
    <2> QED
        BY <1>1, <1>6, <2>1, MaxIn
<1>7. ASSUME NEW s \in SUBSET (1..N)
      PROVE  f[s] = IF s = {} THEN bs
                    ELSE Answer!ApplyStoredToolCall(f[s \ {Max(s)}], page, cs[Max(s)])
    <2>1. CASE s = {}
        BY <1>5, <2>1 DEF Folding
    <2>2. CASE s # {}
        <3>1. s \ {Max(s)} \in SUBSET (1..N)
            OBVIOUS
        <3>2. f[s \ {Max(s)}] \in A /\ Max(s) \in 1..N
            BY <1>6, <2>2, <3>1
        <3> QED
            <4>1. f[s] = F[Max(s)][f[s \ {Max(s)}]]
                BY <1>5, <2>2, <3>2 DEF Folding
            <4> QED
                BY <1>4, <2>2, <3>2, <4>1
    <2> QED
        BY <2>1, <2>2
<1>8. f = [s \in SUBSET (1..N) |-> IF s = {} THEN bs
             ELSE Answer!ApplyStoredToolCall(f[s \ {Max(s)}], page, cs[Max(s)])]
    BY <1>7
<1>9. it = [s \in SUBSET (1..N) |-> IF s = {} THEN bs
             ELSE Answer!ApplyStoredToolCall(it[s \ {Max(s)}], page, cs[Max(s)])]
    BY <1>8
<1> HIDE DEF it
<1>10. Folding(it, N, A, bs, F)
    <2> SUFFICES ASSUME NEW s \in SUBSET (1..N), s # {}, it[s \ {Max(s)}] \in A
                 PROVE  it[s] = F[Max(s)][it[s \ {Max(s)}]]
        BY <1>9 DEF Folding
    <2>1. it[s] = Answer!ApplyStoredToolCall(it[s \ {Max(s)}], page, cs[Max(s)])
        BY <1>9
    <2> QED
        BY <1>4, <1>6, <2>1
<1>11. Along(it, N, A, bs, F)
    <2> HIDE DEF N, A
    <2> QED
        BY <1>1, <1>3, <1>10, FoldAlong DEF A
<1> DEFINE st == [n \in 0..N |-> it[1..n]]
<1>12. /\ st[0] = bs
       /\ \A n \in 0..N : st[n] \in A
    BY <1>1, <1>11 DEF Along
<1>13. ASSUME NEW n \in 1..N PROVE st[n] = Answer!ApplyStoredToolCall(st[n - 1], page, cs[n])
    <2>1. n - 1 \in 0..N /\ n \in 0..N
        BY <1>1
    <2>2. st[n] = F[n][it[1..(n - 1)]] /\ it[1..(n - 1)] \in A /\ st[n - 1] = it[1..(n - 1)]
        BY <1>11, <2>1 DEF Along
    <2> QED
        BY <1>4, <2>2
<1>14. Answer!ApplyStoredToolCalls(bs, page, cs) = st[N]
    BY <1>1, <1>2
<1> HIDE DEF st
<1> QED
    BY <1>12, <1>13, <1>14 DEF StoredBy

-----------------------------------------------------------------------------
(* The rows of a turn, one at a time.                                       *)

AnswerRows == [role : {"assistant"}, round : Nat, deltas : Deltas, calls : Seq(StartedCalls)]
ResultRows == [role : {"tool"}, round : Nat, id : Ids]
AnyRows == AnswerRows \cup ResultRows

\* What blocks show after a row.
Follows(old, new, r) ==
  IF r.role = "assistant" THEN Grown(old, new, r.deltas, r.calls)
  ELSE Upserted(old, new, [id |-> r.id, status |-> "done"])

LEMMA GrownAlike ==
  ASSUME NEW a, NEW b, NEW x, NEW y, NEW d, NEW cs, Alike(a, b), Alike(x, y), Grown(a, x, d, cs)
  PROVE  Grown(b, y, d, cs)
BY DEF Alike, Grown

LEMMA UpsertedAlike ==
  ASSUME NEW a, NEW b, NEW x, NEW y, NEW patch, Alike(a, b), Alike(x, y), Upserted(a, x, patch)
  PROVE  Upserted(b, y, patch)
<1>1. Answer!ToolsOf(a) = Answer!ToolsOf(b) /\ Answer!ToolsOf(x) = Answer!ToolsOf(y) /\ y \in Seq(Blocks)
  BY DEF Alike
<1>2. \A kind \in Kinds : Answer!Shown(a, kind) = Answer!Shown(b, kind) /\ Answer!Shown(x, kind) = Answer!Shown(y, kind)
  BY DEF Alike
<1> QED
  BY <1>1, <1>2 DEF Upserted

LEMMA FollowsAlike ==
  ASSUME NEW a, NEW b, NEW x, NEW y, NEW r, Alike(a, b), Alike(x, y), Follows(a, x, r)
  PROVE  Follows(b, y, r)
BY GrownAlike, UpsertedAlike DEF Follows

LEMMA AlikeAfter ==
  ASSUME NEW a, NEW b, NEW x, NEW y, NEW r, Alike(a, b), Follows(a, x, r), Follows(b, y, r)
  PROVE  Alike(x, y)
<1>1. CASE r.role = "assistant"
  BY <1>1 DEF Follows, Grown, Alike
<1>2. CASE r.role # "assistant"
  <2> PICK patch : patch = [id |-> r.id, status |-> "done"]
    OBVIOUS
  <2>1. Upserted(a, x, patch) /\ Upserted(b, y, patch)
    BY <1>2 DEF Follows
  <2>2. Answer!ToolsOf(a) = Answer!ToolsOf(b)
    BY DEF Alike
  <2>3. \A kind \in Kinds : Answer!Shown(a, kind) = Answer!Shown(b, kind)
    BY DEF Alike
  <2>4. Answer!ToolsOf(x) = Answer!ToolsOf(y) /\ y \in Seq(Blocks)
    BY <2>1, <2>2 DEF Upserted
  <2>5. \A kind \in Kinds : Answer!Shown(x, kind) = Answer!Shown(y, kind)
    BY <2>1, <2>2, <2>3 DEF Upserted
  <2> QED
    BY <2>4, <2>5 DEF Alike
<1> QED
  BY <1>1, <1>2

LEMMA AlikeChain ==
  /\ \A a, b : a \in Seq(Blocks) /\ Alike(a, b) => Alike(b, a)
  /\ \A a, b, c : Alike(a, b) /\ Alike(b, c) => Alike(a, c)
  /\ \A a \in Seq(Blocks) : Alike(a, a)
BY DEF Alike

\* applyStoredToolCalls, after the text of its row.
LEMMA StoredGrows ==
  ASSUME NEW bs \in Seq(Blocks), NEW d, d.reasoning \in Seq(Items), d.content \in Seq(Items),
         NEW cs \in Seq(StartedCalls), Apart(cs),
         NEW page \in Seq(StartedCalls), Range(cs) \subseteq Range(page)
  PROVE  Grown(bs, Answer!ApplyStoredToolCalls(Answer!AppendDelta(bs, d), page, cs), d, cs)
<1> PICK mid : mid = Answer!AppendDelta(bs, d)
  OBVIOUS
<1> DEFINE N == Len(cs)
<1>0. N \in Nat /\ DOMAIN cs = 1 .. N /\ \A k \in 1 .. N : cs[k] \in StartedCalls
  OBVIOUS
<1>1. Grown(bs, mid, d, <<>>)
  BY GrownNothing
<1>2. mid \in Seq(Blocks)
  BY <1>1 DEF Grown
<1>3. ASSUME NEW k \in 1 .. N, NEW acc \in Seq(Blocks)
      PROVE  CallAdded(acc, Answer!ApplyStoredToolCall(acc, page, cs[k]), cs[k])
  <2>1. cs[k] \in Range(page)
    BY <1>0 DEF Range
  <2>2. Answer!AttachDisplay(page, cs[k]) = Answer!Display(cs[k].name, cs[k].args)
    BY <2>1, AttachIs
  <2> QED
    BY <1>0, <2>2, StoredAdds
<1>4. Storable(cs, page)
  BY <1>3 DEF CallAdded, Storable
<1>5. PICK st : /\ st[0] = mid
                /\ \A n \in 0 .. N : st[n] \in Seq(Blocks)
                /\ \A n \in 1 .. N : st[n] = Answer!ApplyStoredToolCall(st[n - 1], page, cs[n])
                /\ Answer!ApplyStoredToolCalls(mid, page, cs) = st[N]
  <2>1. \E st : StoredBy(st, mid, cs, page)
    BY <1>2, <1>4, StoredAlong
  <2> QED
    BY <2>1 DEF StoredBy
<1> DEFINE Some == {n \in Nat : n <= N => Grown(bs, st[n], d, SubSeq(cs, 1, n))}
<1>6. 0 \in Some
  <2>1. SubSeq(cs, 1, 0) = <<>>
    BY SubSeqEmpty
  <2> QED
    BY <1>1, <1>5, <2>1
<1>7. ASSUME NEW n \in Nat, n \in Some PROVE n + 1 \in Some
  <2> SUFFICES ASSUME n + 1 <= N PROVE Grown(bs, st[n + 1], d, SubSeq(cs, 1, n + 1))
    OBVIOUS
  <2> PICK before, c : before = SubSeq(cs, 1, n) /\ c = cs[n + 1]
    OBVIOUS
  <2>1. n \in 0 .. N /\ n + 1 \in 1 .. N /\ (n + 1) - 1 = n
    BY <1>0
  <2>2. Grown(bs, st[n], d, before)
    BY <1>7, <2>1
  <2>3. st[n + 1] = Answer!ApplyStoredToolCall(st[n], page, c)
    BY <1>5, <2>1
  <2>4. CallAdded(st[n], st[n + 1], c)
    BY <1>3, <1>5, <2>1, <2>3
  <2>5. before \in Seq(StartedCalls) /\ c \in StartedCalls /\ SubSeq(cs, 1, n + 1) = Append(before, c)
    BY CutMore
  <2>6. Apart(SubSeq(cs, 1, n + 1))
    <3>1. /\ DOMAIN SubSeq(cs, 1, n + 1) = 1 .. n + 1
          /\ \A i \in 1 .. n + 1 : SubSeq(cs, 1, n + 1)[i] = cs[i] /\ i \in 1 .. N
      BY <1>0, <2>1
    <3> QED
      BY <1>0, <3>1 DEF Apart
  <2>7. Grown(bs, st[n + 1], d, Append(before, c))
    BY <2>2, <2>4, <2>5, <2>6, GrownMore
  <2> QED
    BY <2>5, <2>7
<1>8. Nat \subseteq Some
  <2> HIDE DEF Some
  <2> QED
    BY <1>6, <1>7, InductionOverSet
<1>9. SubSeq(cs, 1, N) = cs
  BY SubSeqFull
<1>10. Grown(bs, st[N], d, cs)
  <2>1. N \in Some /\ N <= N
    BY <1>0, <1>8
  <2> QED
    BY <1>9, <2>1
<1> QED
  BY <1>5, <1>10

CallsIn(r) == IF r.role = "assistant" THEN r.calls ELSE <<>>

\* mapMessageRecords, of one row.
LEMMA RowFollows ==
  ASSUME NEW bs \in Seq(Blocks), NEW r \in AnyRows, Apart(CallsIn(r)),
         NEW page \in Seq(StartedCalls), Range(CallsIn(r)) \subseteq Range(page)
  PROVE  Follows(bs, Answer!MapRecord(bs, page, r), r)
<1>1. CASE r.role = "assistant"
  <2>1. r.deltas \in Deltas /\ r.calls \in Seq(StartedCalls) /\ CallsIn(r) = r.calls
    BY <1>1 DEF AnyRows, AnswerRows, ResultRows, CallsIn
  <2>2. r.deltas.reasoning \in Seq(Items) /\ r.deltas.content \in Seq(Items)
    BY <2>1 DEF Deltas
  <2> PICK d, cs : d = r.deltas /\ cs = r.calls
    OBVIOUS
  <2>3. Grown(bs, Answer!ApplyStoredToolCalls(Answer!AppendDelta(bs, d), page, cs), d, cs)
    BY <2>1, <2>2, StoredGrows
  <2> QED
    BY <1>1, <2>3 DEF Follows, Answer!MapRecord
<1>2. CASE r.role # "assistant"
  <2> PICK patch : patch = [id |-> r.id, status |-> "done"]
    OBVIOUS
  <2>1. r.id \in Ids
    BY <1>2 DEF AnyRows, AnswerRows, ResultRows
  <2>2. Fits(patch)
    BY <2>1, DoneFits
  <2>3. Upserted(bs, Answer!UpsertToolCallBlock(bs, patch), patch)
    BY <2>2, UpsertIs
  <2> QED
    BY <1>2, <2>3 DEF Follows, Answer!MapRecord
<1> QED
  BY <1>1, <1>2

LEMMA CallsInType == \A r \in AnyRows : CallsIn(r) \in Seq(StartedCalls)
<1>1. <<>> \in Seq(StartedCalls)
  OBVIOUS
<1> QED
  BY <1>1 DEF AnyRows, AnswerRows, ResultRows, CallsIn

LEMMA CallsOfIs ==
  ASSUME NEW records \in Seq(AnyRows)
  PROVE  /\ [k \in DOMAIN records |-> CallsIn(records[k])] \in Seq(Seq(StartedCalls))
         /\ Answer!CallsOf(records) = FlattenSeq([k \in DOMAIN records |-> CallsIn(records[k])])
         /\ Answer!CallsOf(records) \in Seq(StartedCalls)
<1>1. Len(records) \in Nat /\ DOMAIN records = 1 .. Len(records) /\ \A k \in 1 .. Len(records) : records[k] \in AnyRows
  OBVIOUS
<1>2. \A k \in 1 .. Len(records) : CallsIn(records[k]) \in Seq(StartedCalls)
  BY <1>1, CallsInType
<1>3. [k \in DOMAIN records |-> CallsIn(records[k])] \in Seq(Seq(StartedCalls))
  BY <1>1, <1>2
<1>4. Answer!CallsOf(records) = FlattenSeq([k \in DOMAIN records |-> CallsIn(records[k])])
  BY SameForAnswers DEF Answer!CallsOf, CallsIn
<1> QED
  BY <1>3, <1>4, FlattenType

LEMMA CallsOfMore ==
  ASSUME NEW records \in Seq(AnyRows), NEW r \in AnyRows
  PROVE  Answer!CallsOf(Append(records, r)) = Answer!CallsOf(records) \o CallsIn(r)
<1> PICK more : more = Append(records, r)
  OBVIOUS
<1> PICK old, new : /\ old = [k \in DOMAIN records |-> CallsIn(records[k])]
                    /\ new = [k \in DOMAIN more |-> CallsIn(more[k])]
  OBVIOUS
<1>2. /\ more \in Seq(AnyRows) /\ Len(records) \in Nat /\ DOMAIN records = 1 .. Len(records)
      /\ DOMAIN more = 1 .. Len(records) + 1 /\ more[Len(records) + 1] = r
      /\ \A k \in 1 .. Len(records) : more[k] = records[k]
  BY AppendProperties
<1>3. old \in Seq(Seq(StartedCalls)) /\ new \in Seq(Seq(StartedCalls)) /\ CallsIn(r) \in Seq(StartedCalls)
  BY <1>2, CallsOfIs, CallsInType
<1>4. new = Append(old, CallsIn(r))
  <2>1. DOMAIN old = 1 .. Len(records) /\ Len(old) = Len(records) /\ DOMAIN new = 1 .. Len(records) + 1
    BY <1>2
  <2>2. /\ \A k \in 1 .. Len(records) : new[k] = old[k]
        /\ new[Len(records) + 1] = CallsIn(r)
    BY <1>2, <2>1
  <2>4. Len(new) = Len(records) + 1
    BY <1>2, <1>3, <2>1
  <2> QED
    BY <1>2, <1>3, <2>1, <2>2, <2>4
<1>5. FlattenSeq(new) = FlattenSeq(old) \o CallsIn(r)
  BY <1>3, <1>4, FlattenAppend
<1>6. Answer!CallsOf(more) = FlattenSeq(new)
  BY <1>2, CallsOfIs
<1>7. Answer!CallsOf(records) = FlattenSeq(old)
  BY CallsOfIs
<1> QED
  BY <1>5, <1>6, <1>7

LEMMA CallsOfNone == Answer!CallsOf(<<>>) = <<>>
<1>1. [k \in DOMAIN <<>> |-> CallsIn(<<>>[k])] = <<>>
  OBVIOUS
<1>2. Answer!CallsOf(<<>>) = FlattenSeq([k \in DOMAIN <<>> |-> CallsIn(<<>>[k])])
  BY SameForAnswers DEF Answer!CallsOf, CallsIn
<1> QED
  BY <1>1, <1>2, FlattenEmpty

\* The calls of every row are among the calls of the rows.
LEMMA CallsOfEach ==
  ASSUME NEW records \in Seq(AnyRows)
  PROVE  \A k \in DOMAIN records : Range(CallsIn(records[k])) \subseteq Range(Answer!CallsOf(records))
<1> DEFINE G == {s \in Seq(AnyRows) :
             \A k \in DOMAIN s : Range(CallsIn(s[k])) \subseteq Range(Answer!CallsOf(s))}
<1>1. <<>> \in G
  OBVIOUS
<1>2. ASSUME NEW s \in G, NEW r \in Range(records) PROVE Append(s, r) \in G
  <2> PICK more : more = Append(s, r)
    OBVIOUS
  <2>1. r \in AnyRows /\ s \in Seq(AnyRows)
    BY DEF Range
  <2>2. /\ more \in Seq(AnyRows) /\ Len(s) \in Nat /\ DOMAIN s = 1 .. Len(s)
        /\ DOMAIN more = 1 .. Len(s) + 1 /\ more[Len(s) + 1] = r
        /\ \A k \in 1 .. Len(s) : more[k] = s[k]
    BY <2>1, AppendProperties
  <2> PICK were, are : were = Answer!CallsOf(s) /\ are = Answer!CallsOf(more)
    OBVIOUS
  <2>3. are = were \o CallsIn(r)
    BY <2>1, CallsOfMore
  <2>4. were \in Seq(StartedCalls) /\ CallsIn(r) \in Seq(StartedCalls)
    BY <2>1, CallsOfIs, CallsInType
  <2>5. Range(are) = Range(were) \cup Range(CallsIn(r))
    BY <2>3, <2>4, RangeJoined
  <2>6. \A k \in DOMAIN s : Range(CallsIn(s[k])) \subseteq Range(were)
    OBVIOUS
  <2>7. ASSUME NEW k \in DOMAIN more PROVE Range(CallsIn(more[k])) \subseteq Range(are)
    <3>1. CASE k = Len(s) + 1
      BY <2>2, <2>5, <3>1
    <3>2. CASE k # Len(s) + 1
      <4>1. k \in DOMAIN s /\ more[k] = s[k]
        BY <2>2, <3>2
      <4> QED
        BY <2>5, <2>6, <4>1
    <3> QED
      BY <3>1, <3>2
  <2> QED
    BY <2>2, <2>7
<1>3. records \in G
  <2> HIDE DEF G
  <2>1. G \in SUBSET Seq(AnyRows)
    BY DEF G
  <2> QED
    BY <1>1, <1>2, <2>1, OneAtATime
<1> QED
  BY <1>3

\* Rows whose calls are told apart.
Mappable(records) ==
  records \in Seq(AnyRows) /\ \A k \in DOMAIN records : Apart(CallsIn(records[k]))

MappedBy(st, records, page) ==
  /\ st[0] = <<>>
  /\ \A n \in 0 .. Len(records) : st[n] \in Seq(Blocks)
  /\ \A n \in 1 .. Len(records) : st[n] = Answer!MapRecord(st[n - 1], page, records[n])
  /\ Answer!MapRecords(records) = Answer!RecordRoundFinished(st[Len(records)])

MapsTo(records, page) ==
  \A k \in 1 .. Len(records), acc \in Seq(Blocks) : Answer!MapRecord(acc, page, records[k]) \in Seq(Blocks)

LEMMA MappedAlong ==
  ASSUME NEW records \in Seq(AnyRows), NEW page, page = others \o Answer!CallsOf(records),
         MapsTo(records, page)
  PROVE  \E st : MappedBy(st, records, page)
<1> DEFINE N == Len(records)
           A == Seq(Blocks)
           F == [n \in 1..N |-> [a \in A |-> Answer!MapRecord(a, page, records[n])]]
           it == CHOOSE h : h = [s \in SUBSET (1..N) |->
                    IF s = {} THEN <<>> ELSE Answer!MapRecord(h[s \ {Max(s)}], page, records[Max(s)])]
<1>1. N \in Nat /\ DOMAIN records = 1..N /\ <<>> \in A
    OBVIOUS
<1>2. Answer!MapRecords(records) = Answer!RecordRoundFinished(it[1..N])
    BY <1>1 DEF Answer!MapRecords, Answer!FoldLeft, Answer!MapThenFoldSet, Answer!Max, Max
<1>3. F \in [1..N -> [A -> A]]
    BY DEF MapsTo
<1>4. \A a \in A, n \in 1..N : F[n][a] = Answer!MapRecord(a, page, records[n])
    BY <1>1
<1> HIDE DEF F
<1>5. PICK f \in [SUBSET (1..N) -> A] : Folding(f, N, A, <<>>, F)
    <2> HIDE DEF N, A
    <2> QED
        BY <1>1, <1>3, FoldExists
<1>6. ASSUME NEW s \in SUBSET (1..N), s # {}
      PROVE  Max(s) \in 1..N
    <2>1. s \in SUBSET (0..N)
        BY <1>1
    <2> QED
        BY <1>1, <1>6, <2>1, MaxIn
<1>7. ASSUME NEW s \in SUBSET (1..N)
      PROVE  f[s] = IF s = {} THEN <<>>
                    ELSE Answer!MapRecord(f[s \ {Max(s)}], page, records[Max(s)])
    <2>1. CASE s = {}
        BY <1>5, <2>1 DEF Folding
    <2>2. CASE s # {}
        <3>1. s \ {Max(s)} \in SUBSET (1..N)
            OBVIOUS
        <3>2. f[s \ {Max(s)}] \in A /\ Max(s) \in 1..N
            BY <1>6, <2>2, <3>1
        <3> QED
            <4>1. f[s] = F[Max(s)][f[s \ {Max(s)}]]
                BY <1>5, <2>2, <3>2 DEF Folding
            <4> QED
                BY <1>4, <2>2, <3>2, <4>1
    <2> QED
        BY <2>1, <2>2
<1>8. f = [s \in SUBSET (1..N) |-> IF s = {} THEN <<>>
             ELSE Answer!MapRecord(f[s \ {Max(s)}], page, records[Max(s)])]
    BY <1>7
<1>9. it = [s \in SUBSET (1..N) |-> IF s = {} THEN <<>>
             ELSE Answer!MapRecord(it[s \ {Max(s)}], page, records[Max(s)])]
    BY <1>8
<1> HIDE DEF it
<1>10. Folding(it, N, A, <<>>, F)
    <2> SUFFICES ASSUME NEW s \in SUBSET (1..N), s # {}, it[s \ {Max(s)}] \in A
                 PROVE  it[s] = F[Max(s)][it[s \ {Max(s)}]]
        BY <1>9 DEF Folding
    <2>1. it[s] = Answer!MapRecord(it[s \ {Max(s)}], page, records[Max(s)])
        BY <1>9
    <2> QED
        BY <1>4, <1>6, <2>1
<1>11. Along(it, N, A, <<>>, F)
    <2> HIDE DEF N, A
    <2> QED
        BY <1>1, <1>3, <1>10, FoldAlong
<1> DEFINE st == [n \in 0..N |-> it[1..n]]
<1>12. /\ st[0] = <<>>
       /\ \A n \in 0..N : st[n] \in A
    BY <1>1, <1>11 DEF Along
<1>13. ASSUME NEW n \in 1..N PROVE st[n] = Answer!MapRecord(st[n - 1], page, records[n])
    <2>1. n - 1 \in 0..N /\ n \in 0..N
        BY <1>1
    <2>2. st[n] = F[n][it[1..(n - 1)]] /\ it[1..(n - 1)] \in A /\ st[n - 1] = it[1..(n - 1)]
        BY <1>11, <2>1 DEF Along
    <2> QED
        BY <1>4, <2>2
<1>14. Answer!MapRecords(records) = Answer!RecordRoundFinished(st[N])
    BY <1>1, <1>2
<1> HIDE DEF st
<1> QED
    BY <1>12, <1>13, <1>14 DEF MappedBy

LEMMA NoTextShown ==
  ASSUME NEW bs \in Seq(Blocks), NEW b \in TextBlocks, b.type \notin Kinds
  PROVE  Append(bs, b) \in Seq(Blocks) /\ Alike(bs, Append(bs, b))
<1>1. b \in Blocks /\ b.type # "tool"
  BY DEF Blocks, TextBlocks
<1>2. Append(bs, b) \in Seq(Blocks)
  BY <1>1, AppendProperties
<1>3. Answer!ToolsOf(Append(bs, b)) = Answer!ToolsOf(bs)
  BY <1>1, ToolsAppended
<1>4. ASSUME NEW kind \in Kinds PROVE Answer!Shown(Append(bs, b), kind) = Answer!Shown(bs, kind)
  <2>1. Answer!Shown(Append(bs, b), kind) = Answer!Shown(bs, kind) \o Part(b, kind)
    BY <1>1, ShownAppended
  <2>2. Part(b, kind) = <<>>
    BY <1>1, PartIs
  <2>3. Answer!Shown(bs, kind) \in Seq(Items)
    BY ShownIs
  <2> QED
    BY <2>1, <2>2, <2>3, ConcatEmptySeq
<1> QED
  BY <1>2, <1>3, <1>4 DEF Alike

LEMMA MarkIs ==
  \A type \in {"retry", "round_finished"} :
    LET b == Answer!Block(type, <<>>, Answer!NoTool) IN
    b \in TextBlocks /\ b.type \notin Kinds /\ b.type = type
<1>1. <<>> \in Seq(Items)
  OBVIOUS
<1> QED
  BY <1>1 DEF Answer!Block, TextBlocks, Kinds

LEMMA FinishAlike ==
  ASSUME NEW bs \in Seq(Blocks)
  PROVE  /\ Answer!RecordRoundFinished(bs) \in Seq(Blocks)
         /\ Alike(bs, Answer!RecordRoundFinished(bs))
<1> PICK b : b = Answer!Block("round_finished", <<>>, Answer!NoTool)
  OBVIOUS
<1>1. b \in TextBlocks /\ b.type \notin Kinds
  BY MarkIs
<1>2. Answer!RecordRoundFinished(bs) = Append(bs, b)
  BY DEF Answer!RecordRoundFinished
<1> QED
  BY <1>1, <1>2, NoTextShown

\* Nothing is shown of a retried answer.
LEMMA RetryAlike ==
  ASSUME NEW bs \in Seq(Blocks)
  PROVE  Alike(<<>>, Answer!RecordModelRetry(bs))
<1> PICK b : b = Answer!Block("retry", <<>>, Answer!NoTool)
  OBVIOUS
<1> PICK kept : kept = Answer!Only(bs, {x \in Range(bs) : x.type = "retry"})
  OBVIOUS
<1>1. b \in TextBlocks /\ b.type \notin Kinds
  BY MarkIs
<1>2. kept \in Seq(Blocks) /\ Range(kept) = Range(bs) \cap {x \in Range(bs) : x.type = "retry"}
  BY OnlyIs, OnlyRange
<1>3. \A x \in Range(kept) : x \in TextBlocks /\ x.type \notin Kinds
  <2>1. \A x \in Range(bs) : x \in Blocks
    BY DEF Range
  <2>2. \A x \in Blocks : x.type = "retry" => x \in TextBlocks /\ x.type \notin Kinds
    BY DEF Blocks, ToolBlocks, Kinds
  <2> QED
    BY <1>2, <2>1, <2>2
<1> DEFINE G == {s \in Seq(Blocks) : Alike(<<>>, s)}
<1>4. <<>> \in G
  <2>1. <<>> \in Seq(Blocks)
    OBVIOUS
  <2> QED
    BY <2>1, AlikeChain
<1>5. ASSUME NEW s \in G, NEW x \in Range(kept) PROVE Append(s, x) \in G
  <2>1. s \in Seq(Blocks) /\ Alike(<<>>, s)
    OBVIOUS
  <2>2. Append(s, x) \in Seq(Blocks) /\ Alike(s, Append(s, x))
    BY <1>3, <2>1, NoTextShown
  <2> QED
    BY <2>1, <2>2, AlikeChain
<1>6. kept \in G
  <2> HIDE DEF G
  <2>1. G \in SUBSET Seq(Blocks)
    BY DEF G
  <2> QED
    BY <1>2, <1>4, <1>5, <2>1, OneAtATime
<1>7. Append(kept, b) \in Seq(Blocks) /\ Alike(kept, Append(kept, b))
  BY <1>1, <1>2, NoTextShown
<1>8. Answer!RecordModelRetry(bs) = Append(kept, b)
  BY SameForAnswers DEF Answer!RecordModelRetry
<1>9. Alike(<<>>, kept)
  BY <1>6
<1> QED
  BY <1>7, <1>8, <1>9, AlikeChain

\* mapMessageRecords, one row at a time.
ReplayBy(st, records) ==
  /\ st[0] = <<>>
  /\ \A n \in 0 .. Len(records) : st[n] \in Seq(Blocks)
  /\ \A n \in 1 .. Len(records) : Follows(st[n - 1], st[n], records[n])
  /\ Alike(st[Len(records)], Answer!MapRecords(records))

LEMMA Replays ==
  ASSUME NEW records, Mappable(records), others \in Seq(StartedCalls)
  PROVE  \E st : ReplayBy(st, records)
<1> DEFINE N == Len(records)
<1> PICK all : all = Answer!CallsOf(records)
  OBVIOUS
<1> PICK page : page = others \o all
  OBVIOUS
<1>0. records \in Seq(AnyRows) /\ N \in Nat /\ DOMAIN records = 1 .. N /\ \A k \in 1 .. N : records[k] \in AnyRows
  BY DEF Mappable
<1>1. all \in Seq(StartedCalls)
  BY <1>0, CallsOfIs
<1>2. page \in Seq(StartedCalls) /\ Range(page) = Range(others) \cup Range(all)
  BY <1>1, ConcatProperties, RangeJoined
<1>3. ASSUME NEW k \in 1 .. N, NEW acc \in Seq(Blocks)
      PROVE  Follows(acc, Answer!MapRecord(acc, page, records[k]), records[k])
  <2>1. Range(CallsIn(records[k])) \subseteq Range(page)
    BY <1>0, <1>2, CallsOfEach
  <2>2. Apart(CallsIn(records[k]))
    BY <1>0 DEF Mappable
  <2> QED
    BY <1>0, <1>2, <2>1, <2>2, RowFollows
<1>4. \A old, new, r : Follows(old, new, r) => new \in Seq(Blocks)
  BY DEF Follows, Grown, Upserted
<1>5. MapsTo(records, page)
  BY <1>3, <1>4 DEF MapsTo
<1>6. \E st : MappedBy(st, records, page)
  BY <1>0, <1>5, MappedAlong
<1>7. PICK st : MappedBy(st, records, page)
  BY <1>6
<1>8. ASSUME NEW n \in 1 .. N PROVE Follows(st[n - 1], st[n], records[n])
  <2>1. n - 1 \in 0 .. N
    BY <1>0
  <2>2. st[n - 1] \in Seq(Blocks) /\ st[n] = Answer!MapRecord(st[n - 1], page, records[n])
    BY <1>7, <2>1 DEF MappedBy
  <2> QED
    BY <1>3, <2>2
<1>9. Alike(st[N], Answer!MapRecords(records))
  <2>1. N \in 0 .. N
    BY <1>0
  <2>2. st[N] \in Seq(Blocks) /\ Answer!MapRecords(records) = Answer!RecordRoundFinished(st[N])
    BY <1>7, <2>1 DEF MappedBy
  <2> QED
    BY <2>2, FinishAlike
<1>10. ReplayBy(st, records)
  BY <1>7, <1>8, <1>9 DEF MappedBy, ReplayBy
<1> QED
  BY <1>10

LEMMA ReplayStart ==
  ASSUME others \in Seq(StartedCalls)
  PROVE  Alike(<<>>, Answer!MapRecords(<<>>))
<1>1. Mappable(<<>>) /\ Len(<<>>) = 0
  BY DEF Mappable
<1>2. PICK st : ReplayBy(st, <<>>)
  BY <1>1, Replays
<1> QED
  BY <1>1, <1>2 DEF ReplayBy

LEMMA MappableMore ==
  ASSUME NEW records, Mappable(records), NEW r \in AnyRows, Apart(CallsIn(r))
  PROVE  Mappable(Append(records, r))
<1> PICK more : more = Append(records, r)
  OBVIOUS
<1>0. records \in Seq(AnyRows)
  BY DEF Mappable
<1>1. /\ more \in Seq(AnyRows) /\ Len(records) \in Nat /\ DOMAIN records = 1 .. Len(records)
      /\ DOMAIN more = 1 .. Len(records) + 1 /\ more[Len(records) + 1] = r
      /\ \A k \in 1 .. Len(records) : more[k] = records[k]
  BY <1>0, AppendProperties
<1>2. ASSUME NEW k \in DOMAIN more PROVE Apart(CallsIn(more[k]))
  <2>1. CASE k = Len(records) + 1
    BY <1>1, <2>1
  <2>2. CASE k # Len(records) + 1
    <3>1. k \in DOMAIN records /\ more[k] = records[k]
      BY <1>1, <2>2
    <3> QED
      BY <3>1 DEF Mappable
  <2> QED
    BY <2>1, <2>2
<1> QED
  BY <1>1, <1>2 DEF Mappable

\* One row more is one step more: what the rows before it show does not
\* depend on the page, which has the calls of the row.
LEMMA ReplayMore ==
  ASSUME NEW records, Mappable(records), NEW r \in AnyRows, Apart(CallsIn(r)),
         others \in Seq(StartedCalls)
  PROVE  Follows(Answer!MapRecords(records), Answer!MapRecords(Append(records, r)), r)
<1> PICK more, N : more = Append(records, r) /\ N = Len(records)
  OBVIOUS
<1>0. records \in Seq(AnyRows)
  BY DEF Mappable
<1>1. /\ more \in Seq(AnyRows) /\ N \in Nat /\ Len(more) = N + 1 /\ more[N + 1] = r
      /\ \A k \in 1 .. N : more[k] = records[k]
  BY <1>0, AppendProperties
<1>2. Mappable(more)
  BY MappableMore
<1>3. PICK s : ReplayBy(s, records)
  BY Replays
<1>4. PICK t : ReplayBy(t, more)
  BY <1>2, Replays
<1> DEFINE Some == {n \in Nat : n <= N => Alike(s[n], t[n])}
<1>5. 0 \in Some
  <2>1. s[0] = <<>> /\ t[0] = <<>> /\ <<>> \in Seq(Blocks)
    BY <1>3, <1>4 DEF ReplayBy
  <2> QED
    BY <2>1, AlikeChain
<1>6. ASSUME NEW n \in Nat, n \in Some PROVE n + 1 \in Some
  <2> SUFFICES ASSUME n + 1 <= N PROVE Alike(s[n + 1], t[n + 1])
    OBVIOUS
  <2>1. n + 1 \in 1 .. N /\ n + 1 \in 1 .. N + 1 /\ (n + 1) - 1 = n /\ n <= N
    BY <1>1
  <2>2. Alike(s[n], t[n])
    BY <1>6, <2>1
  <2>3. Follows(s[n], s[n + 1], records[n + 1])
    BY <1>3, <2>1 DEF ReplayBy
  <2>4. Follows(t[n], t[n + 1], more[n + 1])
    BY <1>1, <1>4, <2>1 DEF ReplayBy
  <2>5. more[n + 1] = records[n + 1]
    BY <1>1, <2>1
  <2> QED
    BY <2>2, <2>3, <2>4, <2>5, AlikeAfter
<1>7. Nat \subseteq Some
  <2> HIDE DEF Some
  <2> QED
    BY <1>5, <1>6, InductionOverSet
<1>8. Alike(s[N], t[N])
  <2>1. N \in Some /\ N <= N
    BY <1>1, <1>7
  <2> QED
    BY <2>1
<1>9. N \in 0 .. N /\ N \in 0 .. N + 1 /\ N + 1 \in 1 .. N + 1 /\ (N + 1) - 1 = N
  BY <1>1
<1>10. s[N] \in Seq(Blocks) /\ t[N] \in Seq(Blocks)
  BY <1>1, <1>3, <1>4, <1>9 DEF ReplayBy
<1>11. Follows(t[N], t[N + 1], r)
  BY <1>1, <1>4, <1>9 DEF ReplayBy
<1>12. Alike(t[N], Answer!MapRecords(records))
  <2>1. Alike(s[N], Answer!MapRecords(records))
    BY <1>3 DEF ReplayBy
  <2>2. Alike(t[N], s[N])
    BY <1>8, <1>10, AlikeChain
  <2> QED
    BY <2>1, <2>2, AlikeChain
<1>13. Alike(t[N + 1], Answer!MapRecords(more))
  BY <1>1, <1>4 DEF ReplayBy
<1> QED
  BY <1>11, <1>12, <1>13, FollowsAlike

LEMMA MapRecordsType ==
  ASSUME NEW records, Mappable(records), others \in Seq(StartedCalls)
  PROVE  Answer!MapRecords(records) \in Seq(Blocks)
<1>1. PICK st : ReplayBy(st, records)
  BY Replays
<1> QED
  BY <1>1 DEF ReplayBy, Alike

LEMMA DoneAlike ==
  ASSUME NEW old, NEW new, NEW id, Upserted(old, new, [id |-> id, status |-> "done"]),
         Has(Answer!ToolsOf(old), id)
  PROVE  Alike(old, new)
<1> PICK patch : patch = [id |-> id, status |-> "done"]
  OBVIOUS
<1>1. patch.id = id /\ Upserted(old, new, patch)
  OBVIOUS
<1>2. \A t : t = [id |-> t.id, name |-> t.name, display |-> t.display] => After(patch, t) = t
  BY DEF After
<1>3. \A t \in Answer!ToolsOf(old) : t = [id |-> t.id, name |-> t.name, display |-> t.display]
  BY ToolsOfIs DEF Brief
<1>4. \A t \in Answer!ToolsOf(old) : After(patch, t) = t
  BY <1>2, <1>3
<1> QED
  BY <1>1, <1>4, UpsertLeaves

\* The rows of a round: its answer, then the results of its calls.
RowsOfRound(rr, d, cs) ==
  /\ rr \in Seq(AnyRows) /\ rr # <<>>
  /\ rr[1].role = "assistant" /\ rr[1].deltas = d /\ rr[1].calls = cs
  /\ \A k \in DOMAIN rr : k # 1 => rr[k].role = "tool" /\ \E j \in DOMAIN cs : cs[j].id = rr[k].id

LEMMA ReplayRound ==
  ASSUME NEW records, Mappable(records), others \in Seq(StartedCalls),
         NEW d, NEW cs \in Seq(StartedCalls), Apart(cs), NEW rr, RowsOfRound(rr, d, cs),
         NEW m \in 1 .. Len(rr)
  PROVE  /\ Mappable(records \o SubSeq(rr, 1, m))
         /\ Grown(Answer!MapRecords(records), Answer!MapRecords(records \o SubSeq(rr, 1, m)), d, cs)
<1> DEFINE Good(n) == /\ Mappable(records \o SubSeq(rr, 1, n))
                      /\ Grown(Answer!MapRecords(records), Answer!MapRecords(records \o SubSeq(rr, 1, n)), d, cs)
           Some == {n \in Nat : n + 1 <= Len(rr) => Good(n + 1)}
<1>0. /\ rr \in Seq(AnyRows) /\ Len(rr) \in Nat /\ DOMAIN rr = 1 .. Len(rr) /\ 1 \in DOMAIN rr
      /\ records \in Seq(AnyRows)
  <2>1. rr \in Seq(AnyRows) /\ rr # <<>> /\ records \in Seq(AnyRows)
    BY DEF RowsOfRound, Mappable
  <2>2. Len(rr) # 0
    BY <2>1, EmptySeq
  <2> QED
    BY <2>1, <2>2
<1>1. ASSUME NEW n \in Nat, n + 1 <= Len(rr)
      PROVE  /\ SubSeq(rr, 1, n) \in Seq(AnyRows) /\ rr[n + 1] \in AnyRows
             /\ records \o SubSeq(rr, 1, n + 1) = Append(records \o SubSeq(rr, 1, n), rr[n + 1])
  <2> PICK before, r : before = SubSeq(rr, 1, n) /\ r = rr[n + 1]
    OBVIOUS
  <2>1. before \in Seq(AnyRows) /\ r \in AnyRows /\ SubSeq(rr, 1, n + 1) = Append(before, r)
    BY <1>0, <1>1, CutMore
  <2>2. records \o Append(before, r) = Append(records \o before, r)
    BY <1>0, <2>1
  <2> QED
    BY <2>1, <2>2
<1>2. 0 \in Some
  <2>1. SubSeq(rr, 1, 0) = <<>> /\ 0 + 1 = 1
    BY SubSeqEmpty
  <2>2. records \o <<>> = records
    BY <1>0, ConcatEmptySeq
  <2>3. 0 + 1 <= Len(rr)
    BY <1>0
  <2>4. rr[1] \in AnyRows /\ records \o SubSeq(rr, 1, 1) = Append(records, rr[1])
    BY <1>1, <2>1, <2>2, <2>3
  <2> PICK r : r = rr[1]
    OBVIOUS
  <2>5. r.role = "assistant" /\ r.deltas = d /\ r.calls = cs
    BY DEF RowsOfRound
  <2>6. CallsIn(r) = cs
    BY <2>5 DEF CallsIn
  <2>7. Mappable(Append(records, r))
    BY <2>4, <2>6, MappableMore
  <2>8. Follows(Answer!MapRecords(records), Answer!MapRecords(Append(records, r)), r)
    BY <2>4, <2>6, ReplayMore
  <2>9. Grown(Answer!MapRecords(records), Answer!MapRecords(Append(records, r)), d, cs)
    BY <2>5, <2>8 DEF Follows
  <2>10. Good(1)
    BY <2>4, <2>7, <2>9
  <2> QED
    BY <2>1, <2>10
<1>3. ASSUME NEW n \in Nat, n \in Some PROVE n + 1 \in Some
  <2> SUFFICES ASSUME (n + 1) + 1 <= Len(rr) PROVE Good((n + 1) + 1)
    OBVIOUS
  <2>1. n + 1 \in Nat /\ n + 1 <= Len(rr) /\ (n + 1) + 1 \in DOMAIN rr /\ (n + 1) + 1 # 1
    BY <1>0
  <2>2. Good(n + 1)
    BY <1>3, <2>1
  <2> PICK before, r : before = records \o SubSeq(rr, 1, n + 1) /\ r = rr[(n + 1) + 1]
    OBVIOUS
  <2>3. r \in AnyRows /\ records \o SubSeq(rr, 1, (n + 1) + 1) = Append(before, r)
    BY <1>1, <2>1
  <2>4. Mappable(before) /\ Grown(Answer!MapRecords(records), Answer!MapRecords(before), d, cs)
    BY <2>2
  <2>5. r.role = "tool" /\ \E j \in DOMAIN cs : cs[j].id = r.id
    BY <2>1 DEF RowsOfRound
  <2>6. Apart(CallsIn(r))
    BY <2>5 DEF CallsIn, Apart
  <2>7. Mappable(Append(before, r))
    BY <2>3, <2>4, <2>6, MappableMore
  <2>8. Follows(Answer!MapRecords(before), Answer!MapRecords(Append(before, r)), r)
    BY <2>3, <2>4, <2>6, ReplayMore
  <2> PICK old, new : old = Answer!MapRecords(before) /\ new = Answer!MapRecords(Append(before, r))
    OBVIOUS
  <2>9. Upserted(old, new, [id |-> r.id, status |-> "done"])
    BY <2>5, <2>8 DEF Follows
  <2>10. Has(Answer!ToolsOf(old), r.id)
    <3>1. PICK j \in DOMAIN cs : cs[j].id = r.id
      BY <2>5
    <3>2. Answer!ToolsOf(old) = AddTools(Answer!ToolsOf(Answer!MapRecords(records)), cs)
      BY <2>4 DEF Grown
    <3>3. BriefOf(cs[j]) \in Answer!ToolsOf(old) /\ BriefOf(cs[j]).id = r.id
      BY <3>1, <3>2 DEF AddTools, BriefOf
    <3> QED
      BY <3>3 DEF Has
  <2>11. Alike(old, new)
    BY <2>9, <2>10, DoneAlike
  <2>12. Alike(Answer!MapRecords(records), Answer!MapRecords(records))
    BY MapRecordsType, AlikeChain
  <2>13. Grown(Answer!MapRecords(records), new, d, cs)
    BY <2>4, <2>11, <2>12, GrownAlike
  <2> QED
    BY <2>3, <2>7, <2>13
<1>4. Nat \subseteq Some
  <2> HIDE DEF Some
  <2> QED
    BY <1>2, <1>3, InductionOverSet
<1>5. Good(m)
  <2>1. m - 1 \in Nat /\ (m - 1) + 1 = m
    OBVIOUS
  <2> HIDE DEF Some, Good
  <2>2. m - 1 \in Some
    BY <1>4, <2>1
  <2>3. m <= Len(rr)
    BY <1>0
  <2> QED
    BY <2>1, <2>2, <2>3 DEF Some
<1> QED
  BY <1>5

-----------------------------------------------------------------------------
(* Identifiers that are used once, and what stands among more.              *)

CallIdsOf(cs) == {cs[k].id : k \in DOMAIN cs}

LEMMA IdsOfJoined ==
  ASSUME NEW a \in Seq(StartedCalls), NEW b \in Seq(StartedCalls)
  PROVE  CallIdsOf(a \o b) = CallIdsOf(a) \cup CallIdsOf(b)
<1> PICK both : both = a \o b
  OBVIOUS
<1>1. Range(both) = Range(a) \cup Range(b)
  BY RangeJoined
<1>2. \A s : CallIdsOf(s) = {c.id : c \in Range(s)}
  BY DEF CallIdsOf, Range
<1> QED
  BY <1>1, <1>2

LEMMA ApartJoined ==
  ASSUME NEW a \in Seq(StartedCalls), NEW b \in Seq(StartedCalls)
  PROVE  Apart(a \o b) <=> Apart(a) /\ Apart(b) /\ CallIdsOf(a) \cap CallIdsOf(b) = {}
<1> PICK both, N, M : both = a \o b /\ N = Len(a) /\ M = Len(b)
  OBVIOUS
<1>1. /\ both \in Seq(StartedCalls) /\ N \in Nat /\ M \in Nat /\ DOMAIN a = 1 .. N
      /\ DOMAIN b = 1 .. M /\ DOMAIN both = 1 .. N + M
      /\ \A k \in 1 .. N + M : both[k] = IF k <= N THEN a[k] ELSE b[k - N]
  BY ConcatProperties
<1>2. \A k \in 1 .. N : k \in DOMAIN both /\ both[k] = a[k]
  BY <1>1
<1>3. \A k \in 1 .. M : k + N \in DOMAIN both /\ both[k + N] = b[k] /\ k + N > N
  <2> TAKE k \in 1 .. M
  <2>1. k \in Nat /\ k >= 1 /\ k <= M /\ (k + N) - N = k /\ ~ (k + N <= N)
    BY <1>1
  <2>2. k + N \in 1 .. N + M
    BY <1>1, <2>1
  <2> QED
    BY <1>1, <2>1, <2>2
<1>4. ASSUME Apart(both) PROVE Apart(a) /\ Apart(b) /\ CallIdsOf(a) \cap CallIdsOf(b) = {}
  <2>1. Apart(a)
    BY <1>1, <1>2, <1>4 DEF Apart
  <2>2. Apart(b)
    <3> SUFFICES ASSUME NEW i \in 1 .. M, NEW j \in 1 .. M, b[i].id = b[j].id PROVE i = j
      BY <1>1 DEF Apart
    <3> PICK p, q : p = i + N /\ q = j + N
      OBVIOUS
    <3>1. p \in DOMAIN both /\ q \in DOMAIN both /\ both[p] = b[i] /\ both[q] = b[j]
      BY <1>3
    <3>2. p = q
      BY <1>4, <3>1 DEF Apart
    <3> QED
      BY <1>1, <3>2
  <2>3. ASSUME NEW i \in 1 .. N, NEW j \in 1 .. M, a[i].id = b[j].id PROVE FALSE
    <3> PICK q : q = j + N
      OBVIOUS
    <3>1. q \in DOMAIN both /\ both[q] = b[j] /\ q > N
      BY <1>3
    <3>2. i \in DOMAIN both /\ both[i] = a[i]
      BY <1>2
    <3>3. i = q
      BY <1>4, <2>3, <3>1, <3>2 DEF Apart
    <3> QED
      BY <1>1, <3>1, <3>3
  <2>4. CallIdsOf(a) \cap CallIdsOf(b) = {}
    BY <1>1, <2>3 DEF CallIdsOf
  <2> QED
    BY <2>1, <2>2, <2>4
<1>5. ASSUME Apart(a), Apart(b), CallIdsOf(a) \cap CallIdsOf(b) = {} PROVE Apart(both)
  <2> SUFFICES ASSUME NEW i \in 1 .. N + M, NEW j \in 1 .. N + M, both[i].id = both[j].id PROVE i = j
    BY <1>1 DEF Apart
  <2>1. \A p \in 1 .. N, q \in 1 .. M : a[p].id # b[q].id
    BY <1>1, <1>5 DEF CallIdsOf
  <2>2. \A p \in 1 .. N + M : (p \in 1 .. N /\ both[p] = a[p]) \/ (p - N \in 1 .. M /\ both[p] = b[p - N])
    <3> TAKE p \in 1 .. N + M
    <3>1. CASE p <= N
      BY <1>1, <3>1
    <3>2. CASE ~ (p <= N)
      <4>1. p - N \in 1 .. M
        BY <1>1, <3>2
      <4> QED
        BY <1>1, <3>2, <4>1
    <3> QED
      BY <3>1, <3>2
  <2>3. CASE i \in 1 .. N /\ both[i] = a[i] /\ j \in 1 .. N /\ both[j] = a[j]
    BY <1>1, <1>5, <2>3 DEF Apart
  <2>4. CASE i - N \in 1 .. M /\ both[i] = b[i - N] /\ j - N \in 1 .. M /\ both[j] = b[j - N]
    <3>1. i - N = j - N
      BY <1>1, <1>5, <2>4 DEF Apart
    <3> QED
      BY <1>1, <3>1
  <2> QED
    BY <2>1, <2>2, <2>3, <2>4
<1> QED
  BY <1>4, <1>5

LEMMA CallsRegrouped ==
  \A p \in Seq(StartedCalls), q \in Seq(StartedCalls), r \in Seq(StartedCalls) :
    (p \o q) \o r = p \o (q \o r)
BY ConcatAssociative

LEMMA CallsOfJoined ==
  ASSUME NEW a \in Seq(AnyRows), NEW b \in Seq(AnyRows)
  PROVE  Answer!CallsOf(a \o b) = Answer!CallsOf(a) \o Answer!CallsOf(b)
<1> DEFINE G == {s \in Seq(AnyRows) : Answer!CallsOf(a \o s) = Answer!CallsOf(a) \o Answer!CallsOf(s)}
<1>1. <<>> \in G
  <2> PICK ca : ca = Answer!CallsOf(a)
    OBVIOUS
  <2>1. a \o <<>> = a /\ <<>> \in Seq(AnyRows)
    BY ConcatEmptySeq
  <2>2. ca \in Seq(StartedCalls)
    BY CallsOfIs
  <2>3. ca \o <<>> = ca
    BY <2>2, ConcatEmptySeq
  <2> QED
    BY <2>1, <2>3, CallsOfNone
<1>2. ASSUME NEW s \in G, NEW r \in Range(b) PROVE Append(s, r) \in G
  <2>1. r \in AnyRows /\ s \in Seq(AnyRows)
    BY DEF Range
  <2>2. a \o s \in Seq(AnyRows) /\ Append(s, r) \in Seq(AnyRows) /\ a \o Append(s, r) = Append(a \o s, r)
    BY <2>1
  <2> PICK ca, cs, cr : ca = Answer!CallsOf(a) /\ cs = Answer!CallsOf(s) /\ cr = CallsIn(r)
    OBVIOUS
  <2>3. ca \in Seq(StartedCalls) /\ cs \in Seq(StartedCalls) /\ cr \in Seq(StartedCalls)
    BY <2>1, CallsOfIs, CallsInType
  <2>4. Answer!CallsOf(Append(a \o s, r)) = Answer!CallsOf(a \o s) \o cr
    BY <2>1, <2>2, CallsOfMore
  <2>5. Answer!CallsOf(a \o s) = ca \o cs
    OBVIOUS
  <2>6. Answer!CallsOf(Append(s, r)) = cs \o cr
    BY <2>1, CallsOfMore
  <2>7. (ca \o cs) \o cr = ca \o (cs \o cr)
    BY <2>3, CallsRegrouped
  <2>8. Answer!CallsOf(a \o Append(s, r)) = (ca \o cs) \o cr
    BY <2>2, <2>4, <2>5
  <2> QED
    BY <2>2, <2>6, <2>7, <2>8
<1>3. b \in G
  <2> HIDE DEF G
  <2>1. G \in SUBSET Seq(AnyRows)
    BY DEF G
  <2> QED
    BY <1>1, <1>2, <2>1, OneAtATime
<1> QED
  BY <1>3

\* The calls of rows, of lost rows and of this attempt have their own identifiers.
Once(kept, missing, cs) == Apart(Answer!CallsOf(kept \o missing) \o cs)

LEMMA OnceIs ==
  ASSUME NEW kept \in Seq(AnyRows), NEW missing \in Seq(AnyRows), NEW cs \in Seq(StartedCalls)
  PROVE  Once(kept, missing, cs) <=>
           LET k == Answer!CallsOf(kept)
               m == Answer!CallsOf(missing) IN
           /\ Apart(k) /\ Apart(m) /\ Apart(cs)
           /\ CallIdsOf(k) \cap CallIdsOf(m) = {} /\ CallIdsOf(k) \cap CallIdsOf(cs) = {} /\ CallIdsOf(m) \cap CallIdsOf(cs) = {}
<1> PICK k, m : k = Answer!CallsOf(kept) /\ m = Answer!CallsOf(missing)
  OBVIOUS
<1>1. k \in Seq(StartedCalls) /\ m \in Seq(StartedCalls)
  BY CallsOfIs
<1> PICK km : km = k \o m
  OBVIOUS
<1>2. Answer!CallsOf(kept \o missing) = km
  BY CallsOfJoined
<1>3. km \in Seq(StartedCalls)
  BY <1>1, ConcatProperties
<1>4. Apart(km \o cs) <=> Apart(km) /\ Apart(cs) /\ CallIdsOf(km) \cap CallIdsOf(cs) = {}
  BY <1>3, ApartJoined
<1>5. Apart(km) <=> Apart(k) /\ Apart(m) /\ CallIdsOf(k) \cap CallIdsOf(m) = {}
  BY <1>1, ApartJoined
<1>6. CallIdsOf(km) = CallIdsOf(k) \cup CallIdsOf(m)
  BY <1>1, IdsOfJoined
<1> QED
  BY <1>2, <1>4, <1>5, <1>6 DEF Once

LEMMA NewIdsRange ==
  ASSUME NEW tools, NEW cs \in Seq(StartedCalls)
  PROVE  Range(NewIds(tools, cs)) \subseteq CallIdsOf(cs)
<1> DEFINE G == {s \in Seq(StartedCalls) : Range(NewIds(tools, s)) \subseteq CallIdsOf(s)}
<1>1. <<>> \in G
  <2>1. <<>> \in Seq(StartedCalls)
    OBVIOUS
  <2> QED
    BY <2>1, NewIdsNone, RangeEmpty
<1>2. ASSUME NEW s \in G, NEW c \in Range(cs) PROVE Append(s, c) \in G
  <2>1. c \in StartedCalls /\ s \in Seq(StartedCalls) /\ Range(NewIds(tools, s)) \subseteq CallIdsOf(s)
    BY DEF Range
  <2>2. NewIds(tools, Append(s, c)) = NewIds(tools, s) \o NewId(tools, c)
    BY <2>1, NewIdsMore
  <2>3. NewIds(tools, s) \in Seq(Items) /\ NewId(tools, c) \in Seq(Items)
    <3>1. NewIds(tools, s) \in Seq(Items)
      BY <2>1, NewIdsType
    <3>2. c.id \in Items
      BY <2>1, CallIds
    <3> QED
      BY <3>1, <3>2 DEF NewId
  <2>4. Range(NewIds(tools, Append(s, c))) = Range(NewIds(tools, s)) \cup Range(NewId(tools, c))
    BY <2>2, <2>3, RangeJoined
  <2>5. Range(NewId(tools, c)) \subseteq {c.id}
    <3>1. Range(<<c.id>>) = {c.id} /\ Range(<<>>) = {}
      BY DEF Range
    <3> QED
      BY <3>1 DEF NewId
  <2>6. Append(s, c) \in Seq(StartedCalls) /\ CallIdsOf(s) \subseteq CallIdsOf(Append(s, c)) /\ c.id \in CallIdsOf(Append(s, c))
    <3>1. Append(s, c) \in Seq(StartedCalls) /\ Range(Append(s, c)) = Range(s) \cup {c}
      BY <2>1, AppendProperties, RangeMore
    <3>2. \A q : CallIdsOf(q) = {x.id : x \in Range(q)}
      BY DEF CallIdsOf, Range
    <3> QED
      BY <3>1, <3>2
  <2> QED
    BY <2>1, <2>4, <2>5, <2>6
<1>3. cs \in G
  <2> HIDE DEF G
  <2>1. G \in SUBSET Seq(StartedCalls)
    BY DEF G
  <2> QED
    BY <1>1, <1>2, <2>1, OneAtATime
<1> QED
  BY <1>3

\* What is shown of a is shown of b, in the same order, among other things.
Among(a, b) ==
  /\ \A kind \in Kinds :
       Answer!Shown(a, kind) = Answer!Only(Answer!Shown(b, kind), Range(Answer!Shown(a, kind)))
  /\ Answer!ToolsOf(a) \subseteq Answer!ToolsOf(b)

\* Neither the text nor the calls have been shown before.
Unseen(b, d, cs) ==
  /\ \A kind \in Kinds : Range(Answer!Shown(b, kind)) \cap (Range(d[kind]) \cup CallIdsOf(cs)) = {}
  /\ \A t \in Answer!ToolsOf(b) : t.id \notin CallIdsOf(cs)

LEMMA UnseenTools ==
  ASSUME NEW b, NEW d, NEW cs, Unseen(b, d, cs)
  PROVE  AddTools(Answer!ToolsOf(b), cs) = Answer!ToolsOf(b) \cup {BriefOf(cs[k]) : k \in DOMAIN cs}
<1>1. \A t \in Answer!ToolsOf(b) : \A k \in DOMAIN cs : cs[k].id # t.id
  BY DEF Unseen, CallIdsOf
<1> QED
  BY <1>1 DEF AddTools

LEMMA OnlyCat ==
  ASSUME NEW p \in Seq(Items), NEW q \in Seq(Items), NEW S
  PROVE  Answer!Only(Cat(p, q), S) = Cat(Answer!Only(p, S), Answer!Only(q, S))
BY OnlyJoined DEF Cat

LEMMA RangeCat ==
  ASSUME NEW p \in Seq(Items), NEW q \in Seq(Items)
  PROVE  Range(Cat(p, q)) = Range(p) \cup Range(q)
BY RangeJoined DEF Cat

LEMMA CatNothing == \A p \in Seq(Items) : Cat(p, <<>>) = p
BY ConcatEmptySeq DEF Cat

LEMMA OnlyAmong ==
  ASSUME NEW sa \in Seq(Items), NEW sb \in Seq(Items), NEW more \in Seq(Items), NEW sx, NEW sy,
         sx = Cat(sa, more), sy = Cat(sb, more),
         sa = Answer!Only(sb, Range(sa)), Range(sb) \cap Range(more) = {}
  PROVE  /\ Answer!Only(sy, Range(sa)) = sa
         /\ Answer!Only(sy, Range(sx)) = sx
<1>1. Range(sx) = Range(sa) \cup Range(more)
  BY RangeCat
<1>2. Range(sa) \subseteq Range(sb)
  <2>1. Range(Answer!Only(sb, Range(sa))) = Range(sb) \cap Range(sa)
    BY OnlyRange
  <2> QED
    BY <2>1
<1>3. \A S : Answer!Only(sy, S) = Cat(Answer!Only(sb, S), Answer!Only(more, S))
  BY OnlyCat
<1>4. Answer!Only(more, Range(sa)) = <<>>
  <2>1. Range(more) \cap Range(sa) = {}
    BY <1>2
  <2> QED
    BY <2>1, OnlyNothing
<1>5. Answer!Only(more, Range(sx)) = more
  BY <1>1, OnlyAll
<1>6. Answer!Only(sb, Range(sx)) = sa
  <2>1. \A x \in Range(sb) : x \in Range(sx) <=> x \in Range(sa)
    BY <1>1, <1>2
  <2>2. Answer!Only(sb, Range(sx)) = Answer!Only(sb, Range(sa))
    BY <2>1, OnlyAlike
  <2> QED
    BY <2>2
<1>7. Cat(sa, <<>>) = sa
  BY CatNothing
<1> QED
  BY <1>3, <1>4, <1>5, <1>6, <1>7

\* One sequence is what is left of another.
Leaves(t, s) == s = Answer!Only(t, Range(s))

LEMMA LeavesMore ==
  ASSUME NEW sa \in Seq(Items), NEW sb \in Seq(Items), NEW more \in Seq(Items),
         Leaves(sb, sa), Range(sb) \cap Range(more) = {}
  PROVE  Leaves(Cat(sb, more), sa) /\ Leaves(Cat(sb, more), Cat(sa, more))
BY OnlyAmong DEF Leaves

LEMMA AmongSkipped ==
  ASSUME NEW a \in Seq(Blocks), NEW b \in Seq(Blocks), NEW c, NEW d, NEW cs \in Seq(StartedCalls),
         d.reasoning \in Seq(Items), d.content \in Seq(Items),
         Among(a, b), Grown(b, c, d, cs), Unseen(b, d, cs)
  PROVE  Among(a, c)
<1>1. Answer!ToolsOf(a) \subseteq Answer!ToolsOf(c)
  BY UnseenTools DEF Among, Grown
<1>2. ASSUME NEW kind \in Kinds
      PROVE  Answer!Shown(a, kind) = Answer!Only(Answer!Shown(c, kind), Range(Answer!Shown(a, kind)))
  <2> PICK sa, sb, text, ids : /\ sa = Answer!Shown(a, kind) /\ sb = Answer!Shown(b, kind)
                               /\ text = d[kind] /\ ids = NewIds(Answer!ToolsOf(b), cs)
    OBVIOUS
  <2>1. sa \in Seq(Items) /\ sb \in Seq(Items) /\ text \in Seq(Items) /\ ids \in Seq(Items)
    <3>1. sa \in Seq(Items) /\ sb \in Seq(Items) /\ ids \in Seq(Items)
      BY ShownIs, NewIdsType
    <3> QED
      BY <3>1 DEF Kinds
  <2> PICK more : more = text \o ids
    OBVIOUS
  <2>2. more \in Seq(Items) /\ Range(more) = Range(text) \cup Range(ids)
    BY <2>1, ConcatProperties, RangeJoined
  <2>3. Range(ids) \subseteq CallIdsOf(cs)
    BY NewIdsRange
  <2>4. Leaves(sb, sa)
    BY DEF Among, Leaves
  <2>5. Range(sb) \cap Range(more) = {}
    BY <2>2, <2>3 DEF Unseen
  <2>6. Answer!Shown(c, kind) = Cat(sb, more)
    BY DEF Grown, Cat
  <2>7. Leaves(Cat(sb, more), sa)
    BY <2>1, <2>2, <2>4, <2>5, LeavesMore
  <2> QED
    BY <2>6, <2>7 DEF Leaves
<1> QED
  BY <1>1, <1>2 DEF Among

LEMMA AmongGrown ==
  ASSUME NEW a \in Seq(Blocks), NEW b \in Seq(Blocks), NEW x \in Seq(Blocks), NEW y, NEW d,
         NEW cs \in Seq(StartedCalls), d.reasoning \in Seq(Items), d.content \in Seq(Items),
         Among(a, b), Grown(a, x, d, cs), Grown(b, y, d, cs), Unseen(b, d, cs)
  PROVE  Among(x, y)
<1>0. Unseen(a, d, cs)
  <2>1. ASSUME NEW kind \in Kinds PROVE Range(Answer!Shown(a, kind)) \subseteq Range(Answer!Shown(b, kind))
    <3> PICK sa, sb : sa = Answer!Shown(a, kind) /\ sb = Answer!Shown(b, kind)
      OBVIOUS
    <3>1. sb \in Seq(Items)
      BY ShownIs
    <3>2. Range(Answer!Only(sb, Range(sa))) = Range(sb) \cap Range(sa)
      BY <3>1, OnlyRange
    <3>3. sa = Answer!Only(sb, Range(sa))
      BY DEF Among
    <3> QED
      BY <3>2, <3>3
  <2> QED
    BY <2>1 DEF Among, Unseen
<1>1. Answer!ToolsOf(x) \subseteq Answer!ToolsOf(y)
  <2>1. Answer!ToolsOf(x) = Answer!ToolsOf(a) \cup {BriefOf(cs[k]) : k \in DOMAIN cs}
    BY <1>0, UnseenTools DEF Grown
  <2>2. Answer!ToolsOf(y) = Answer!ToolsOf(b) \cup {BriefOf(cs[k]) : k \in DOMAIN cs}
    BY UnseenTools DEF Grown
  <2>3. Answer!ToolsOf(a) \subseteq Answer!ToolsOf(b)
    BY DEF Among
  <2> QED
    BY <2>1, <2>2, <2>3
<1>2. NewIds(Answer!ToolsOf(a), cs) = NewIds(Answer!ToolsOf(b), cs)
  <2>1. \A k \in DOMAIN cs : ~ Has(Answer!ToolsOf(a), cs[k].id) /\ ~ Has(Answer!ToolsOf(b), cs[k].id)
    BY <1>0 DEF Unseen, Has, CallIdsOf
  <2>2. [k \in DOMAIN cs |-> NewId(Answer!ToolsOf(a), cs[k])] = [k \in DOMAIN cs |-> NewId(Answer!ToolsOf(b), cs[k])]
    BY <2>1 DEF NewId
  <2> QED
    BY <2>2 DEF NewIds
<1>3. ASSUME NEW kind \in Kinds
      PROVE  Answer!Shown(x, kind) = Answer!Only(Answer!Shown(y, kind), Range(Answer!Shown(x, kind)))
  <2> PICK sa, sb, sx, text, ids :
             /\ sa = Answer!Shown(a, kind) /\ sb = Answer!Shown(b, kind) /\ sx = Answer!Shown(x, kind)
             /\ text = d[kind] /\ ids = NewIds(Answer!ToolsOf(a), cs)
    OBVIOUS
  <2>1. sa \in Seq(Items) /\ sb \in Seq(Items) /\ text \in Seq(Items) /\ ids \in Seq(Items)
    <3>1. sa \in Seq(Items) /\ sb \in Seq(Items) /\ ids \in Seq(Items)
      BY ShownIs, NewIdsType
    <3> QED
      BY <3>1 DEF Kinds
  <2> PICK more : more = text \o ids
    OBVIOUS
  <2>2. more \in Seq(Items) /\ Range(more) = Range(text) \cup Range(ids)
    BY <2>1, ConcatProperties, RangeJoined
  <2>3. Range(ids) \subseteq CallIdsOf(cs)
    BY NewIdsRange
  <2>4. Leaves(sb, sa)
    BY DEF Among, Leaves
  <2>5. Range(sb) \cap Range(more) = {}
    BY <2>2, <2>3 DEF Unseen
  <2>6. Answer!Shown(y, kind) = Cat(sb, more)
    BY <1>2 DEF Grown, Cat
  <2>7. sx = Cat(sa, more)
    BY DEF Grown, Cat
  <2>8. Leaves(Cat(sb, more), Cat(sa, more))
    BY <2>1, <2>2, <2>4, <2>5, LeavesMore
  <2> QED
    BY <2>6, <2>7, <2>8 DEF Leaves
<1> QED
  BY <1>1, <1>3 DEF Among

-----------------------------------------------------------------------------
(* The live answer, and the answer that is opened again.                    *)

KeptRows(all, from) == Answer!Only(all, {r \in Range(all) : r.round > from})

MapFrom(o, records) ==
  LET page == o \o Answer!CallsOf(records) IN
  Answer!RecordRoundFinished(Answer!FoldLeft(LAMBDA bs, r : Answer!MapRecord(bs, page, r), <<>>, records))

Again == MapFrom(others, KeptRows(answerRows, gone))

OldIds(kept, missing) == CallIdsOf(Answer!CallsOf(kept)) \cup CallIdsOf(Answer!CallsOf(missing))

\* What blocks show is of calls with these identifiers, and text of earlier rounds.
Known(b, ids, d, at, state) ==
  /\ \A kind \in Kinds : \A x \in Range(Answer!Shown(b, kind)) :
       x \in ids \/ (x \in Texts /\ x \notin Range(d[kind]) /\ (state # "ended" => x[1] < at))
  /\ \A t \in Answer!ToolsOf(b) : t.id \in ids

AnswerTypes ==
  /\ blocks \in Seq(Blocks)
  /\ answerRows \in Seq(AnyRows) /\ lostRows \in Seq(AnyRows)
  /\ others \in Seq(StartedCalls)
  /\ round \in Nat /\ retries \in Nat /\ gone \in Nat /\ gone < round
  /\ deltas \in Deltas /\ run \in Seq(StartedCalls) /\ Apart(run)
  /\ step \in {"streaming", "calling", "ended"}
  /\ step = "calling" => run # <<>>

\* Rows are of the rounds before this one, texts of this attempt are of this round.
Dated ==
  /\ \A r \in Range(answerRows) :
       r.round <= round /\ (step # "ended" => r.round < round) /\ Apart(CallsIn(r))
  /\ \A kind \in Kinds : \A x \in Range(deltas[kind]) : x \in Texts /\ x[1] = round

\* The blocks that stood when the attempt began, and what they have to do with
\* the answer that is opened again.
AnswerShown(base) ==
  /\ base \in Seq(Blocks)
  /\ Grown(base, blocks, deltas, run)
  /\ lostRows = <<>> => Alike(base, Again)
  /\ Once(KeptRows(answerRows, gone), lostRows, run) => Among(Again, base)
  /\ Known(base, OldIds(KeptRows(answerRows, gone), lostRows), deltas, round, step)

AnswerInv == AnswerTypes /\ Dated /\ \E base : AnswerShown(base)

LEMMA MapFromIs == \A records : Answer!MapRecords(records) = MapFrom(others, records)
BY DEF Answer!MapRecords, MapFrom

LEMMA KeptIs == Answer!Kept = KeptRows(answerRows, gone)
BY SameForAnswers DEF Answer!Kept, KeptRows

LEMMA KeptType ==
  ASSUME NEW all \in Seq(AnyRows), NEW from
  PROVE  /\ KeptRows(all, from) \in Seq(AnyRows)
         /\ Range(KeptRows(all, from)) \subseteq Range(all)
<1>1. KeptRows(all, from) \in Seq(AnyRows)
  BY OnlyIs DEF KeptRows
<1>2. Range(KeptRows(all, from)) = Range(all) \cap {r \in Range(all) : r.round > from}
  BY OnlyRange DEF KeptRows
<1> QED
  BY <1>1, <1>2

LEMMA KeptMappable ==
  ASSUME AnswerTypes, Dated
  PROVE  /\ KeptRows(answerRows, gone) \in Seq(AnyRows)
         /\ Mappable(KeptRows(answerRows, gone))
         /\ Again \in Seq(Blocks)
<1> PICK kept : kept = KeptRows(answerRows, gone)
  OBVIOUS
<1>1. kept \in Seq(AnyRows) /\ Range(kept) \subseteq Range(answerRows)
  BY KeptType DEF AnswerTypes
<1>2. \A k \in DOMAIN kept : Apart(CallsIn(kept[k]))
  <2>1. \A k \in DOMAIN kept : kept[k] \in Range(kept)
    BY DEF Range
  <2> QED
    BY <1>1, <2>1 DEF Dated
<1>3. Mappable(kept)
  BY <1>1, <1>2 DEF Mappable
<1>4. Answer!MapRecords(kept) \in Seq(Blocks)
  BY <1>3, MapRecordsType DEF AnswerTypes
<1> QED
  BY <1>1, <1>3, <1>4, MapFromIs DEF Again

LEMMA IdsApart == \A id \in Ids : id \notin Texts
BY MCRoundAssumption DEF Texts

LEMMA OldIdsType ==
  ASSUME NEW kept \in Seq(AnyRows), NEW missing \in Seq(AnyRows)
  PROVE  OldIds(kept, missing) \subseteq Ids
<1>1. ASSUME NEW cs \in Seq(StartedCalls) PROVE CallIdsOf(cs) \subseteq Ids
  BY CallIds DEF CallIdsOf
<1> QED
  BY <1>1, CallsOfIs DEF OldIds

\* What is shown of this attempt has not been shown before, if identifiers are used once.
LEMMA UnseenYet ==
  ASSUME NEW b, NEW kept \in Seq(AnyRows), NEW missing \in Seq(AnyRows), NEW cs \in Seq(StartedCalls),
         NEW d, NEW at, NEW state,
         \A kind \in Kinds : \A x \in Range(d[kind]) : x \in Texts,
         Known(b, OldIds(kept, missing), d, at, state), Once(kept, missing, cs)
  PROVE  Unseen(b, d, cs)
<1> PICK ids : ids = OldIds(kept, missing)
  OBVIOUS
<1>1. ids \subseteq Ids
  BY OldIdsType
<1>2. ids \cap CallIdsOf(cs) = {}
  BY OnceIs DEF OldIds
<1>3. CallIdsOf(cs) \subseteq Ids
  BY CallIds DEF CallIdsOf
<1>4. ASSUME NEW kind \in Kinds, NEW x \in Range(Answer!Shown(b, kind))
      PROVE  x \notin Range(d[kind]) /\ x \notin CallIdsOf(cs)
  <2>1. CASE x \in ids
    BY <1>1, <1>2, <2>1, IdsApart
  <2>2. CASE x \in Texts /\ x \notin Range(d[kind])
    BY <1>3, <2>2, IdsApart
  <2> QED
    BY <2>1, <2>2 DEF Known
<1>5. \A t \in Answer!ToolsOf(b) : t.id \notin CallIdsOf(cs)
  BY <1>2 DEF Known
<1> QED
  BY <1>4, <1>5 DEF Unseen

LEMMA DeltasTypes == \A d \in Deltas :
  d.reasoning \in Seq(Items) /\ d.content \in Seq(Items) /\ \A kind \in Kinds : d[kind] \in Seq(Items)
BY DEF Deltas, Kinds

LEMMA NoDeltasType ==
  /\ Answer!NoDeltas \in Deltas
  /\ \A kind \in Kinds : Answer!NoDeltas[kind] = <<>>
<1>1. <<>> \in Seq(Items)
  OBVIOUS
<1> QED
  BY <1>1 DEF Answer!NoDeltas, Deltas, Kinds

\* The attempt that has nothing yet.
LEMMA GrownFromHere ==
  ASSUME NEW a \in Seq(Blocks), NEW b, Alike(a, b)
  PROVE  Grown(a, b, Answer!NoDeltas, <<>>)
<1>1. ASSUME NEW kind \in Kinds
      PROVE  Answer!Shown(a, kind) \o (Answer!NoDeltas[kind] \o NewIds(Answer!ToolsOf(a), <<>>)) = Answer!Shown(a, kind)
  <2>1. Answer!NoDeltas[kind] \o NewIds(Answer!ToolsOf(a), <<>>) = <<>>
    <3>1. <<>> \o <<>> = <<>>
      OBVIOUS
    <3> QED
      BY <3>1, NoDeltasType, NewIdsNone
  <2>2. Answer!Shown(a, kind) \in Seq(Items)
    BY ShownIs
  <2> QED
    BY <2>1, <2>2, ConcatEmptySeq
<1>2. AddTools(Answer!ToolsOf(a), <<>>) = Answer!ToolsOf(a)
  BY AddToolsNone
<1> QED
  BY <1>1, <1>2 DEF Grown, Alike

LEMMA GrownNowhere ==
  ASSUME NEW a \in Seq(Blocks), NEW b, Grown(a, b, Answer!NoDeltas, <<>>)
  PROVE  Alike(a, b)
<1>1. Grown(a, a, Answer!NoDeltas, <<>>)
  BY AlikeChain, GrownFromHere
<1> QED
  BY <1>1 DEF Grown, Alike

LEMMA AnswerInit == Answer!Init => AnswerInv
<1> SUFFICES ASSUME Answer!Init PROVE AnswerInv
  OBVIOUS
<1>1. others \in Seq(StartedCalls)
  <2>1. \A id \in Ids : Answer!Call(id, "run_command", Answer!SomeArgs) \in StartedCalls
    BY DEF Answer!Call, StartedCalls, AnyArgs
  <2>2. \A c \in StartedCalls : <<c>> \in Seq(StartedCalls)
    OBVIOUS
  <2>3. <<>> \in Seq(StartedCalls)
    OBVIOUS
  <2>4. others = <<>> \/ \E id \in Ids : others = <<Answer!Call(id, "run_command", Answer!SomeArgs)>>
    BY DEF Answer!Init
  <2> QED
    BY <2>1, <2>2, <2>3, <2>4
<1>2. AnswerTypes
  BY <1>1, NoDeltasType DEF Answer!Init, AnswerTypes, Apart
<1>3. Dated
  <2>1. \A kind \in Kinds : deltas[kind] = <<>>
    BY NoDeltasType DEF Answer!Init
  <2>2. Range(<<>>) = {}
    BY RangeEmpty
  <2> QED
    BY <2>1, <2>2 DEF Answer!Init, Dated
<1>4. AnswerShown(<<>>)
  <2>0. blocks = <<>> /\ deltas = Answer!NoDeltas /\ run = <<>> /\ lostRows = <<>> /\ answerRows = <<>>
    BY DEF Answer!Init
  <2>1. KeptRows(answerRows, gone) = <<>>
    BY <2>0, OnlyEmpty DEF KeptRows
  <2>2. Alike(<<>>, Again)
    BY <1>1, <2>1, ReplayStart, MapFromIs DEF Again
  <2>3. <<>> \in Seq(Blocks)
    OBVIOUS
  <2>4. Grown(<<>>, blocks, deltas, run)
    BY <2>0, <2>3, AlikeChain, GrownFromHere
  <2>5. /\ \A kind \in Kinds : Answer!Shown(<<>>, kind) = <<>>
        /\ Answer!ToolsOf(<<>>) = {}
    BY ShownNothing DEF Answer!ToolsOf
  <2>6. Among(Again, <<>>)
    BY <2>2, <2>5, OnlyEmpty DEF Among, Alike
  <2>7. Known(<<>>, OldIds(KeptRows(answerRows, gone), lostRows), deltas, round, step)
    BY <2>5, RangeEmpty DEF Known
  <2> QED
    BY <2>2, <2>3, <2>4, <2>6, <2>7 DEF AnswerShown
<1> QED
  BY <1>2, <1>3, <1>4 DEF AnswerInv

-----------------------------------------------------------------------------
(* Its steps.                                                               *)

LEMMA CatGrouped ==
  \A p \in Seq(Items), q \in Seq(Items), r \in Seq(Items) : Cat(p, Cat(q, r)) = Cat(Cat(p, q), r)
BY Regrouped DEF Cat

LEMMA CatType == \A p \in Seq(Items), q \in Seq(Items) : Cat(p, q) \in Seq(Items)
BY ConcatProperties DEF Cat

LEMMA GrownBy ==
  ASSUME NEW base \in Seq(Blocks), NEW bs \in Seq(Blocks), NEW old \in Deltas, NEW d \in Deltas, NEW new \in Deltas,
         Grown(base, bs, old, <<>>), \A kind \in Kinds : new[kind] = old[kind] \o d[kind]
  PROVE  Grown(base, Answer!AppendDelta(bs, d), new, <<>>)
<1>0. d.reasoning \in Seq(Items) /\ d.content \in Seq(Items)
  BY DeltasTypes
<1>1. \A kind \in Kinds :
        /\ Answer!AppendDelta(bs, d) \in Seq(Blocks)
        /\ Answer!Shown(Answer!AppendDelta(bs, d), kind) = Answer!Shown(bs, kind) \o d[kind]
        /\ Answer!ToolsOf(Answer!AppendDelta(bs, d)) = Answer!ToolsOf(bs)
  BY <1>0, AppendDeltaIs
<1>2. "content" \in Kinds
  BY DEF Kinds
<1>3. ASSUME NEW kind \in Kinds
      PROVE  Answer!Shown(Answer!AppendDelta(bs, d), kind) =
               Answer!Shown(base, kind) \o (new[kind] \o NewIds(Answer!ToolsOf(base), <<>>))
  <2> PICK s, o, p, n : s = Answer!Shown(base, kind) /\ o = old[kind] /\ p = d[kind] /\ n = new[kind]
    OBVIOUS
  <2>1. s \in Seq(Items) /\ o \in Seq(Items) /\ p \in Seq(Items) /\ n \in Seq(Items)
    <3>1. s \in Seq(Items)
      BY ShownIs
    <3> QED
      BY <3>1, DeltasTypes
  <2>2. NewIds(Answer!ToolsOf(base), <<>>) = <<>>
    BY NewIdsNone
  <2>3. Answer!Shown(bs, kind) = Cat(s, Cat(o, <<>>))
    BY <2>2 DEF Grown, Cat
  <2>4. Answer!Shown(Answer!AppendDelta(bs, d), kind) = Cat(Cat(s, Cat(o, <<>>)), p)
    BY <1>1, <2>3 DEF Cat
  <2>5. n = Cat(o, p)
    BY DEF Cat
  <2>6. Cat(s, Cat(n, <<>>)) = Cat(Cat(s, Cat(o, <<>>)), p)
    <3>1. Cat(n, <<>>) = n /\ Cat(o, <<>>) = o
      BY <2>1, CatNothing
    <3>2. Cat(s, Cat(o, p)) = Cat(Cat(s, o), p)
      BY <2>1, CatGrouped
    <3> QED
      BY <2>5, <3>1, <3>2
  <2>7. Answer!Shown(Answer!AppendDelta(bs, d), kind) = s \o (n \o <<>>)
    BY <2>4, <2>6 DEF Cat
  <2> QED
    BY <2>2, <2>7
<1> QED
  BY <1>1, <1>2, <1>3 DEF Grown

LEMMA AgainSame ==
  ASSUME others' = others, answerRows' = answerRows, gone' = gone
  PROVE  Again' = Again
BY DEF Again

LEMMA MessageDeltaStep ==
  ASSUME AnswerInv, NEW kinds \in SUBSET {"reasoning", "content"} \ {{}}, Answer!MessageDelta(kinds)
  PROVE  AnswerInv'
<1> PICK d : d = [k \in {"reasoning", "content"} |-> IF k \in kinds THEN <<Answer!Piece(k)>> ELSE <<>>]
  OBVIOUS
<1>0. AnswerTypes /\ Dated
  BY DEF AnswerInv
<1>1. \A kind \in Kinds : Answer!Piece(kind) \in Texts /\ Answer!Piece(kind)[1] = round
  <2> TAKE kind \in Kinds
  <2>1. Len(deltas[kind]) \in Nat
    <3>1. deltas[kind] \in Seq(Items)
      BY <1>0, DeltasTypes DEF AnswerTypes
    <3> QED
      BY <3>1
  <2>2. round \in Nat /\ retries \in Nat
    BY <1>0 DEF AnswerTypes
  <2> QED
    BY <2>1, <2>2 DEF Answer!Piece, Texts
<1>2. d \in Deltas
  <2>1. \A x \in Texts : <<x>> \in Seq(Items)
    BY DEF Items
  <2>2. <<>> \in Seq(Items)
    OBVIOUS
  <2>3. d.reasoning \in Seq(Items) /\ d.content \in Seq(Items)
    BY <1>1, <2>1, <2>2 DEF Kinds
  <2>4. d = [reasoning |-> d.reasoning, content |-> d.content]
    OBVIOUS
  <2> QED
    BY <2>3, <2>4 DEF Deltas
<1>3. \A kind \in Kinds : \A x \in Range(d[kind]) : x \in Texts /\ x[1] = round
  <2> TAKE kind \in Kinds
  <2>1. d[kind] = <<Answer!Piece(kind)>> \/ d[kind] = <<>>
    BY DEF Kinds
  <2>2. \A x : Range(<<x>>) = {x}
    BY DEF Range
  <2> QED
    BY <1>1, <2>1, <2>2, RangeEmpty
<1>4. /\ run = <<>> /\ step = "streaming"
      /\ deltas' = [k \in DOMAIN deltas |-> deltas[k] \o d[k]]
      /\ blocks' = Answer!AppendDelta(blocks, d)
      /\ UNCHANGED <<answerRows, others, round, retries, run, step, gone, lostRows>>
  BY DEF Answer!MessageDelta
<1>5. deltas' \in Deltas /\ \A kind \in Kinds : deltas'[kind] = deltas[kind] \o d[kind]
  <2>1. DOMAIN deltas = {"reasoning", "content"}
    BY <1>0 DEF AnswerTypes, Deltas
  <2>2. \A kind \in Kinds : deltas'[kind] = deltas[kind] \o d[kind]
    BY <1>4, <2>1 DEF Kinds
  <2>3. deltas' = [reasoning |-> deltas'["reasoning"], content |-> deltas'["content"]]
    BY <1>4, <2>1
  <2>4. \A kind \in Kinds : deltas[kind] \in Seq(Items) /\ d[kind] \in Seq(Items)
    BY <1>0, <1>2, DeltasTypes DEF AnswerTypes
  <2>5. ASSUME NEW kind \in Kinds PROVE deltas'[kind] \in Seq(Items)
    <3> PICK p, q, n : p = deltas[kind] /\ q = d[kind] /\ n = deltas'[kind]
      OBVIOUS
    <3>1. n = Cat(p, q)
      BY <2>2 DEF Cat
    <3>2. p \in Seq(Items) /\ q \in Seq(Items)
      BY <2>4
    <3>3. n \in Seq(Items)
      BY <3>1, <3>2, CatType
    <3> QED
      BY <3>3
  <2> QED
    BY <2>2, <2>3, <2>5 DEF Deltas, Kinds
<1> PICK new : new = deltas'
  OBVIOUS
<1>6. PICK base : AnswerShown(base)
  BY DEF AnswerInv
<1>7. Grown(base, blocks', new, <<>>)
  BY <1>0, <1>2, <1>4, <1>5, <1>6, GrownBy DEF AnswerShown, AnswerTypes
<1>8. \A kind \in Kinds : Range(new[kind]) = Range(deltas[kind]) \cup Range(d[kind])
  <2> TAKE kind \in Kinds
  <2>1. deltas[kind] \in Seq(Items) /\ d[kind] \in Seq(Items)
    BY <1>0, <1>2, DeltasTypes DEF AnswerTypes
  <2> PICK p, q, n : p = deltas[kind] /\ q = d[kind] /\ n = new[kind]
    OBVIOUS
  <2>2. n = Cat(p, q)
    BY <1>5 DEF Cat
  <2>3. Range(Cat(p, q)) = Range(p) \cup Range(q)
    BY <2>1, RangeCat
  <2> QED
    BY <2>2, <2>3
<1>9. AnswerTypes'
  BY <1>0, <1>4, <1>5, <1>7 DEF AnswerTypes, Grown
<1>10. Dated'
  <2>1. \A kind \in Kinds : \A x \in Range(new[kind]) : x \in Texts /\ x[1] = round
    BY <1>0, <1>3, <1>8 DEF Dated
  <2> QED
    BY <1>0, <1>4, <2>1 DEF Dated
<1>11. AnswerShown(base)'
  <2>1. Again' = Again
    BY <1>4, AgainSame
  <2>2. Known(base, OldIds(KeptRows(answerRows, gone), lostRows), new, round, step)
    <3> PICK ids : ids = OldIds(KeptRows(answerRows, gone), lostRows)
      OBVIOUS
    <3>1. Known(base, ids, deltas, round, step)
      BY <1>6 DEF AnswerShown
    <3>2. round \in Nat
      BY <1>0 DEF AnswerTypes
    <3>3. ASSUME NEW kind \in Kinds, NEW x \in Range(Answer!Shown(base, kind)), x \notin ids
          PROVE  x \in Texts /\ x \notin Range(new[kind]) /\ (step # "ended" => x[1] < round)
      <4>1. x \in Texts /\ x \notin Range(deltas[kind]) /\ x[1] < round
        BY <1>4, <3>1, <3>3 DEF Known
      <4>2. x[1] # round
        BY <3>2, <4>1
      <4> QED
        BY <1>3, <1>8, <4>1, <4>2
    <3> QED
      BY <3>1, <3>3 DEF Known
  <2>3. Grown(base, blocks', deltas', run')
    BY <1>4, <1>7
  <2> QED
    BY <1>4, <1>6, <2>1, <2>2, <2>3 DEF AnswerShown
<1> QED
  BY <1>9, <1>10, <1>11 DEF AnswerInv

LEMMA CallsWithType ==
  ASSUME NEW id \in Ids, NEW call \in Answer!CallsWith(id)
  PROVE  call \in StartedCalls
<1>1. \A a \in AnyArgs, name \in {"run_command", "other"} : Answer!Call(id, name, a) \in StartedCalls
  BY DEF Answer!Call, StartedCalls
<1>2. Answer!SomeArgs \in AnyArgs /\ \A a \in Args : a \in AnyArgs
  BY DEF AnyArgs
<1> QED
  BY <1>1, <1>2 DEF Answer!CallsWith

LEMMA ApartAppended ==
  ASSUME NEW cs \in Seq(StartedCalls), NEW c \in StartedCalls, Apart(cs),
         \A k \in DOMAIN cs : cs[k].id # c.id
  PROVE  Apart(Append(cs, c))
<1>1. /\ Len(cs) \in Nat /\ DOMAIN cs = 1 .. Len(cs)
      /\ DOMAIN Append(cs, c) = 1 .. Len(cs) + 1 /\ Append(cs, c)[Len(cs) + 1] = c
      /\ \A k \in 1 .. Len(cs) : Append(cs, c)[k] = cs[k]
  BY AppendProperties
<1>2. \A k : k \in DOMAIN Append(cs, c) <=> k \in DOMAIN cs \/ k = Len(cs) + 1
  BY <1>1
<1> QED
  BY <1>1, <1>2 DEF Apart

LEMMA OnceBefore ==
  ASSUME NEW kept \in Seq(AnyRows), NEW missing \in Seq(AnyRows), NEW cs \in Seq(StartedCalls),
         NEW c \in StartedCalls, Once(kept, missing, Append(cs, c))
  PROVE  Once(kept, missing, cs)
<1> PICK more : more = Append(cs, c)
  OBVIOUS
<1>1. /\ more \in Seq(StartedCalls) /\ Len(cs) \in Nat /\ DOMAIN cs = 1 .. Len(cs)
      /\ DOMAIN more = 1 .. Len(cs) + 1
      /\ \A k \in 1 .. Len(cs) : more[k] = cs[k]
  BY AppendProperties
<1>2. \A k \in DOMAIN cs : k \in DOMAIN more /\ more[k] = cs[k]
  BY <1>1
<1>3. CallIdsOf(cs) \subseteq CallIdsOf(more)
  BY <1>2 DEF CallIdsOf
<1>4. Apart(more) => Apart(cs)
  BY <1>2 DEF Apart
<1>5. Once(kept, missing, more)
  OBVIOUS
<1> QED
  BY <1>1, <1>3, <1>4, <1>5, OnceIs

LEMMA ToolStartedStep ==
  ASSUME AnswerInv, NEW id \in Ids, NEW call \in Answer!CallsWith(id), Answer!ToolStarted(call)
  PROVE  AnswerInv'
<1>0. AnswerTypes /\ Dated
  BY DEF AnswerInv
<1>1. call \in StartedCalls
  BY CallsWithType
<1> PICK more : more = run'
  OBVIOUS
<1>2. /\ step = "streaming" /\ step' = "calling"
      /\ \A k \in DOMAIN run : run[k].id # call.id
      /\ more = Append(run, call)
      /\ blocks' = Answer!UpsertToolCallBlock(blocks,
           [id |-> call.id, name |-> call.name, status |-> "running", args |-> call.args,
            display |-> Answer!Display(call.name, call.args)])
      /\ UNCHANGED <<answerRows, others, round, retries, deltas, gone, lostRows>>
  BY DEF Answer!ToolStarted
<1>3. blocks \in Seq(Blocks) /\ run \in Seq(StartedCalls) /\ Apart(run) /\ deltas \in Deltas
  BY <1>0 DEF AnswerTypes
<1>4. CallAdded(blocks, blocks', call)
  BY <1>1, <1>2, <1>3, StartAdds
<1>5. Apart(more) /\ more \in Seq(StartedCalls) /\ more # <<>>
  <2>1. more \in Seq(StartedCalls) /\ Len(more) = Len(run) + 1 /\ Len(run) \in Nat
    BY <1>1, <1>2, <1>3, AppendProperties
  <2>2. Len(<<>>) = 0
    OBVIOUS
  <2> QED
    BY <1>1, <1>2, <1>3, <2>1, <2>2, ApartAppended
<1>6. PICK base : AnswerShown(base)
  BY DEF AnswerInv
<1>7. Grown(base, blocks', deltas, more)
  <2>1. base \in Seq(Blocks) /\ Grown(base, blocks, deltas, run)
    BY <1>6 DEF AnswerShown
  <2>2. deltas.reasoning \in Seq(Items) /\ deltas.content \in Seq(Items)
    BY <1>3, DeltasTypes
  <2> QED
    BY <1>1, <1>2, <1>3, <1>4, <1>5, <2>1, <2>2, GrownMore
<1>8. AnswerTypes'
  BY <1>0, <1>2, <1>4, <1>5 DEF AnswerTypes, CallAdded
<1>9. Dated'
  BY <1>0, <1>2 DEF Dated
<1>10. AnswerShown(base)'
  <2> PICK kept : kept = KeptRows(answerRows, gone)
    OBVIOUS
  <2>1. Again' = Again
    BY <1>2, AgainSame
  <2>2. kept \in Seq(AnyRows) /\ lostRows \in Seq(AnyRows)
    BY <1>0, KeptMappable DEF AnswerTypes
  <2>3. Once(kept, lostRows, more) => Once(kept, lostRows, run)
    BY <1>1, <1>2, <1>3, <2>2, OnceBefore
  <2>4. Known(base, OldIds(kept, lostRows), deltas, round, step')
    <3>1. Known(base, OldIds(kept, lostRows), deltas, round, step)
      BY <1>6 DEF AnswerShown
    <3> QED
      BY <1>2, <3>1 DEF Known
  <2> QED
    BY <1>2, <1>6, <1>7, <2>1, <2>3, <2>4 DEF AnswerShown
<1> QED
  BY <1>8, <1>9, <1>10 DEF AnswerInv

LEMMA ToolFinishedStep ==
  ASSUME AnswerInv, NEW ok \in BOOLEAN, Answer!ToolFinished(ok)
  PROVE  AnswerInv'
<1>0. AnswerTypes /\ Dated
  BY DEF AnswerInv
<1> PICK c, status : c = Last(run) /\ status = IF ok THEN "done" ELSE "failed"
  OBVIOUS
<1>1. /\ step = "calling" /\ step' = "streaming"
      /\ blocks' = Answer!UpsertToolCallBlock(blocks, [id |-> c.id, name |-> c.name, status |-> status])
      /\ UNCHANGED <<answerRows, others, round, retries, deltas, run, gone, lostRows>>
  BY SameForAnswers DEF Answer!ToolFinished
<1>2. blocks \in Seq(Blocks) /\ run \in Seq(StartedCalls) /\ Apart(run) /\ run # <<>>
  BY <1>0, <1>1 DEF AnswerTypes
<1>3. c \in StartedCalls /\ Len(run) \in DOMAIN run /\ c = run[Len(run)]
  BY <1>2, LastApart
<1>4. PICK base : AnswerShown(base)
  BY DEF AnswerInv
<1>5. Answer!ToolsOf(blocks) = AddTools(Answer!ToolsOf(base), run)
  BY <1>4 DEF AnswerShown, Grown
<1>6. Has(Answer!ToolsOf(blocks), c.id)
  <2>1. BriefOf(c) \in Answer!ToolsOf(blocks)
    BY <1>3, <1>5 DEF AddTools
  <2>2. BriefOf(c).id = c.id
    BY DEF BriefOf
  <2> QED
    BY <2>1, <2>2 DEF Has
<1>7. ASSUME NEW t \in Answer!ToolsOf(blocks), t.id = c.id PROVE t = BriefOf(c)
  <2>1. ~ \A k \in DOMAIN run : run[k].id # t.id
    BY <1>3, <1>7
  <2>2. PICK k \in DOMAIN run : t = BriefOf(run[k])
    BY <1>5, <2>1 DEF AddTools
  <2>3. run[k].id = c.id
    BY <1>7, <2>2 DEF BriefOf
  <2>4. k = Len(run)
    BY <1>2, <1>3, <2>3 DEF Apart
  <2> QED
    BY <1>3, <2>2, <2>4
<1>8. status \in {"done", "failed"}
  OBVIOUS
<1>9. Alike(blocks, blocks')
  BY <1>1, <1>2, <1>3, <1>6, <1>7, <1>8, FinishLeaves
<1>10. Grown(base, blocks', deltas, run)
  <2>1. base \in Seq(Blocks) /\ Grown(base, blocks, deltas, run)
    BY <1>4 DEF AnswerShown
  <2>2. Alike(base, base)
    BY <2>1, AlikeChain
  <2> QED
    BY <1>9, <2>1, <2>2, GrownAlike
<1>11. AnswerTypes'
  BY <1>0, <1>1, <1>9 DEF AnswerTypes, Alike
<1>12. Dated'
  BY <1>0, <1>1 DEF Dated
<1>13. AnswerShown(base)'
  <2> PICK kept : kept = KeptRows(answerRows, gone)
    OBVIOUS
  <2>1. Again' = Again
    BY <1>1, AgainSame
  <2>2. Known(base, OldIds(kept, lostRows), deltas, round, step')
    <3>1. Known(base, OldIds(kept, lostRows), deltas, round, step)
      BY <1>4 DEF AnswerShown
    <3> QED
      BY <1>1, <3>1 DEF Known
  <2> QED
    BY <1>1, <1>4, <1>10, <2>1, <2>2 DEF AnswerShown
<1> QED
  BY <1>11, <1>12, <1>13 DEF AnswerInv

LEMMA TaskStopsStep ==
  ASSUME AnswerInv, Answer!TaskStops
  PROVE  AnswerInv'
<1>0. AnswerTypes /\ Dated
  BY DEF AnswerInv
<1>1. /\ step' = "ended"
      /\ UNCHANGED <<blocks, answerRows, others, round, retries, deltas, run, gone, lostRows>>
  BY DEF Answer!TaskStops
<1>2. PICK base : AnswerShown(base)
  BY DEF AnswerInv
<1>3. AnswerTypes'
  BY <1>0, <1>1 DEF AnswerTypes
<1>4. Dated'
  BY <1>0, <1>1 DEF Dated
<1>5. AnswerShown(base)'
  <2> PICK kept : kept = KeptRows(answerRows, gone)
    OBVIOUS
  <2>1. Again' = Again
    BY <1>1, AgainSame
  <2>2. Known(base, OldIds(kept, lostRows), deltas, round, step')
    <3>1. Known(base, OldIds(kept, lostRows), deltas, round, step)
      BY <1>2 DEF AnswerShown
    <3> QED
      BY <1>1, <3>1 DEF Known
  <2> QED
    BY <1>1, <1>2, <2>1, <2>2 DEF AnswerShown
<1> QED
  BY <1>3, <1>4, <1>5 DEF AnswerInv

LEMMA NotYetTypes ==
  /\ Answer!NoDeltas \in Deltas
  /\ \A kind \in Kinds : Range(Answer!NoDeltas[kind]) = {}
  /\ <<>> \in Seq(StartedCalls) /\ Apart(<<>>)
BY NoDeltasType, RangeEmpty DEF Apart

LEMMA NothingShown ==
  ASSUME NEW b, Alike(<<>>, b)
  PROVE  /\ \A kind \in Kinds : Answer!Shown(b, kind) = <<>>
         /\ Answer!ToolsOf(b) = {}
<1>1. /\ \A kind \in Kinds : Answer!Shown(<<>>, kind) = <<>>
      /\ Answer!ToolsOf(<<>>) = {}
  BY ShownNothing DEF Answer!ToolsOf
<1> QED
  BY <1>1 DEF Alike

LEMMA NothingAmong ==
  ASSUME NEW a, NEW b, Alike(<<>>, a), Alike(<<>>, b)
  PROVE  Among(a, b)
<1>1. Answer!ToolsOf(a) = {} /\ \A kind \in Kinds : Answer!Shown(a, kind) = <<>> /\ Answer!Shown(b, kind) = <<>>
  BY NothingShown
<1> QED
  BY <1>1, OnlyEmpty DEF Among

LEMMA RetryingStep ==
  ASSUME AnswerInv, Answer!Retrying
  PROVE  AnswerInv'
<1>0. AnswerTypes /\ Dated
  BY DEF AnswerInv
<1> PICK base : base = blocks'
  OBVIOUS
<1>1. /\ step = "streaming" /\ retries' = retries + 1
      /\ deltas' = Answer!NoDeltas /\ run' = <<>>
      /\ base = Answer!RecordModelRetry(blocks)
      /\ gone' = round - 1
      /\ UNCHANGED <<answerRows, others, round, step, lostRows>>
  BY DEF Answer!Retrying
<1>2. Alike(<<>>, base)
  BY <1>0, <1>1, RetryAlike DEF AnswerTypes
<1>3. base \in Seq(Blocks)
  BY <1>2 DEF Alike
<1>4. round \in Nat /\ gone \in Nat /\ gone < round /\ gone' \in Nat /\ gone' < round /\ retries' \in Nat
  <2>1. round \in Nat /\ gone \in Nat /\ gone < round /\ retries \in Nat
    BY <1>0 DEF AnswerTypes
  <2> QED
    BY <1>1, <2>1
<1>5. KeptRows(answerRows, gone') = <<>>
  <2>1. \A r \in Range(answerRows) : r.round < round
    BY <1>0, <1>1 DEF Dated
  <2>2. \A r \in Range(answerRows) : r.round \in Nat
    <3>1. \A r \in AnyRows : r.round \in Nat
      BY DEF AnyRows, AnswerRows, ResultRows
    <3>2. \A r \in Range(answerRows) : r \in AnyRows
      BY <1>0 DEF AnswerTypes, Range
    <3> QED
      BY <3>1, <3>2
  <2>3. \A r \in Range(answerRows) : ~ (r.round > gone')
    BY <1>1, <1>4, <2>1, <2>2
  <2>4. Range(answerRows) \cap {r \in Range(answerRows) : r.round > gone'} = {}
    BY <2>3
  <2> QED
    BY <1>0, <2>4, OnlyNothing DEF KeptRows, AnswerTypes
<1>6. Again' = MapFrom(others, <<>>)
  BY <1>1, <1>5 DEF Again
<1>7. Alike(<<>>, Again')
  BY <1>0, <1>6, ReplayStart, MapFromIs DEF AnswerTypes
<1>8. /\ \A kind \in Kinds : Answer!Shown(base, kind) = <<>>
      /\ Answer!ToolsOf(base) = {}
  BY <1>2, NothingShown
<1>9. Alike(base, Again')
  <2>1. Alike(base, <<>>)
    <3>1. <<>> \in Seq(Blocks)
      OBVIOUS
    <3> QED
      BY <1>2, <3>1, AlikeChain
  <2> QED
    BY <1>7, <2>1, AlikeChain
<1>10. AnswerTypes'
  BY <1>0, <1>1, <1>3, <1>4, NotYetTypes DEF AnswerTypes
<1>11. Dated'
  BY <1>0, <1>1, NotYetTypes DEF Dated
<1>12. AnswerShown(base)'
  <2>1. Grown(base, blocks', deltas', run')
    BY <1>1, <1>3, AlikeChain, GrownFromHere
  <2>2. Among(Again', base)
    BY <1>2, <1>7, NothingAmong
  <2>3. \A ids : Known(base, ids, deltas', round', step')
    BY <1>8, RangeEmpty DEF Known
  <2> QED
    BY <1>3, <1>9, <2>1, <2>2, <2>3 DEF AnswerShown
<1> QED
  BY <1>10, <1>11, <1>12 DEF AnswerInv

LEMMA KeptJoined ==
  ASSUME NEW all \in Seq(AnyRows), NEW more \in Seq(AnyRows), NEW from,
         \A r \in Range(more) : r.round > from
  PROVE  KeptRows(all \o more, from) = KeptRows(all, from) \o more
<1> PICK both : both = all \o more
  OBVIOUS
<1> PICK S, R : S = {r \in Range(both) : r.round > from} /\ R = {r \in Range(all) : r.round > from}
  OBVIOUS
<1>1. Range(both) = Range(all) \cup Range(more)
  BY RangeJoined
<1>2. Answer!Only(both, S) = Answer!Only(all, S) \o Answer!Only(more, S)
  BY OnlyJoined
<1>3. Answer!Only(all, S) = Answer!Only(all, R)
  <2>1. \A x \in Range(all) : x \in S <=> x \in R
    BY <1>1
  <2> QED
    BY <2>1, OnlyAlike
<1>4. Answer!Only(more, S) = more
  <2>1. Range(more) \subseteq S
    BY <1>1
  <2> QED
    BY <2>1, OnlyAll
<1> QED
  BY <1>2, <1>3, <1>4 DEF KeptRows

LEMMA CallsOfResults ==
  ASSUME NEW s \in Seq(AnyRows), \A r \in Range(s) : r.role = "tool"
  PROVE  Answer!CallsOf(s) = <<>>
<1> DEFINE G == {t \in Seq(AnyRows) : Answer!CallsOf(t) = <<>>}
<1>1. <<>> \in G
  <2>1. <<>> \in Seq(AnyRows)
    OBVIOUS
  <2> QED
    BY <2>1, CallsOfNone
<1>2. ASSUME NEW t \in G, NEW r \in Range(s) PROVE Append(t, r) \in G
  <2>1. r \in AnyRows /\ t \in Seq(AnyRows) /\ Answer!CallsOf(t) = <<>>
    BY DEF Range
  <2>2. Append(t, r) \in Seq(AnyRows)
    BY <2>1, AppendProperties
  <2>3. Answer!CallsOf(Append(t, r)) = <<>> \o CallsIn(r)
    BY <2>1, CallsOfMore
  <2>4. CallsIn(r) = <<>>
    BY DEF CallsIn
  <2>5. <<>> \o <<>> = <<>>
    OBVIOUS
  <2> QED
    BY <2>2, <2>3, <2>4, <2>5
<1>3. s \in G
  <2> HIDE DEF G
  <2>1. G \in SUBSET Seq(AnyRows)
    BY DEF G
  <2> QED
    BY <1>1, <1>2, <2>1, OneAtATime
<1> QED
  BY <1>3

\* The rows of a round, and of a part of it.
StoredOfRound(rr, at, d, cs) ==
  /\ rr \in Seq(AnyRows)
  /\ \A r \in Range(rr) : r.round = at
  /\ rr = <<>> => d = Answer!NoDeltas /\ cs = <<>>
  /\ rr # <<>> => RowsOfRound(rr, d, cs)

LEMMA RoundRowTypes ==
  ASSUME NEW at \in Nat, NEW d \in Deltas, NEW cs \in Seq(StartedCalls)
  PROVE  /\ Answer!AssistantRow(at, d, cs) \in AnyRows
         /\ \A c \in StartedCalls : Answer!ToolRow(at, c) \in AnyRows
<1>1. Answer!AssistantRow(at, d, cs) \in AnswerRows
  BY DEF Answer!AssistantRow, AnswerRows
<1>2. \A c \in StartedCalls : Answer!ToolRow(at, c) \in ResultRows
  BY CallIds DEF Answer!ToolRow, ResultRows
<1> QED
  BY <1>1, <1>2 DEF AnyRows

LEMMA RoundRowsAre ==
  ASSUME AnswerTypes
  PROVE  StoredOfRound(Answer!RoundRows, round, deltas, run)
<1> PICK tools, row : /\ tools = [k \in DOMAIN run |-> Answer!ToolRow(round, run[k])]
                      /\ row = Answer!AssistantRow(round, deltas, run)
  OBVIOUS
<1>0. round \in Nat /\ deltas \in Deltas /\ run \in Seq(StartedCalls)
  BY DEF AnswerTypes
<1>1. Len(run) \in Nat /\ DOMAIN run = 1 .. Len(run) /\ \A k \in DOMAIN run : run[k] \in StartedCalls
  BY <1>0
<1>2. /\ tools \in Seq(AnyRows) /\ row \in AnyRows /\ DOMAIN tools = 1 .. Len(run) /\ Len(tools) = Len(run)
      /\ \A k \in 1 .. Len(run) : tools[k] = Answer!ToolRow(round, run[k])
  <2>1. \A k \in DOMAIN run : Answer!ToolRow(round, run[k]) \in AnyRows
    BY <1>0, <1>1, RoundRowTypes
  <2>2. row \in AnyRows
    BY <1>0, RoundRowTypes
  <2>3. tools \in Seq(AnyRows) /\ DOMAIN tools = 1 .. Len(run)
    BY <1>1, <2>1
  <2> QED
    BY <1>1, <2>2, <2>3
<1>3. CASE deltas = Answer!NoDeltas /\ run = <<>>
  <2>1. Answer!RoundRows = <<>> \o tools
    BY <1>3 DEF Answer!RoundRows
  <2>2. Len(tools) = 0
    BY <1>2, <1>3
  <2>3. tools = <<>>
    BY <1>2, <2>2, EmptySeq
  <2>4. <<>> \o <<>> = <<>> /\ <<>> \in Seq(AnyRows)
    OBVIOUS
  <2> QED
    BY <1>3, <2>1, <2>3, <2>4, RangeEmpty DEF StoredOfRound
<1>4. CASE ~ (deltas = Answer!NoDeltas /\ run = <<>>)
  <2> PICK rr : rr = <<row>> \o tools
    OBVIOUS
  <2>1. Answer!RoundRows = rr
    BY <1>4 DEF Answer!RoundRows
  <2>2. /\ rr \in Seq(AnyRows) /\ DOMAIN rr = 1 .. Len(run) + 1 /\ Len(rr) = Len(run) + 1 /\ rr[1] = row
        /\ \A k \in 2 .. Len(run) + 1 : rr[k] = tools[k - 1]
    <3>1. <<row>> \in Seq(AnyRows) /\ Len(<<row>>) = 1 /\ <<row>>[1] = row
      BY <1>2
    <3>2. /\ rr \in Seq(AnyRows) /\ Len(rr) = 1 + Len(run) /\ DOMAIN rr = 1 .. 1 + Len(run)
          /\ \A k \in 1 .. 1 + Len(run) : rr[k] = IF k <= 1 THEN <<row>>[k] ELSE tools[k - 1]
      BY <1>1, <1>2, <3>1, ConcatProperties
    <3>3. 1 \in 1 .. 1 + Len(run) /\ 1 + Len(run) = Len(run) + 1 /\ \A k \in 2 .. Len(run) + 1 : ~ (k <= 1)
      BY <1>1
    <3> QED
      BY <1>1, <3>1, <3>2, <3>3
  <2>3. ASSUME NEW k \in DOMAIN rr, k # 1
        PROVE  rr[k].role = "tool" /\ rr[k].round = round /\ \E j \in DOMAIN run : run[j].id = rr[k].id
    <3>1. k \in 2 .. Len(run) + 1 /\ k - 1 \in 1 .. Len(run)
      BY <1>1, <2>2, <2>3
    <3>2. rr[k] = Answer!ToolRow(round, run[k - 1])
      BY <1>2, <2>2, <3>1
    <3>3. k - 1 \in DOMAIN run
      BY <1>1, <3>1
    <3> QED
      BY <3>2, <3>3 DEF Answer!ToolRow
  <2>4. row.role = "assistant" /\ row.deltas = deltas /\ row.calls = run /\ row.round = round
    BY DEF Answer!AssistantRow
  <2>5. \A r \in Range(rr) : r.round = round
    <3> TAKE r \in Range(rr)
    <3>1. PICK k \in DOMAIN rr : r = rr[k]
      BY DEF Range
    <3>2. CASE k = 1
      BY <2>2, <2>4, <3>1, <3>2
    <3>3. CASE k # 1
      BY <2>3, <3>1, <3>3
    <3> QED
      BY <3>2, <3>3
  <2>6. rr # <<>>
    BY <1>1, <2>2
  <2>7. RowsOfRound(rr, deltas, run)
    BY <2>2, <2>3, <2>4, <2>6 DEF RowsOfRound
  <2> QED
    BY <2>1, <2>2, <2>5, <2>6, <2>7 DEF StoredOfRound
<1> QED
  BY <1>3, <1>4

LEMMA CallsOfFront ==
  ASSUME NEW rr, NEW d, NEW cs \in Seq(StartedCalls), RowsOfRound(rr, d, cs), NEW m \in 1 .. Len(rr)
  PROVE  Answer!CallsOf(SubSeq(rr, 1, m)) = cs
<1> DEFINE Some == {n \in Nat : n + 1 <= Len(rr) => Answer!CallsOf(SubSeq(rr, 1, n + 1)) = cs}
<1>0. rr \in Seq(AnyRows) /\ Len(rr) \in Nat /\ DOMAIN rr = 1 .. Len(rr)
  BY DEF RowsOfRound
<1>1. ASSUME NEW n \in Nat, n + 1 <= Len(rr)
      PROVE  Answer!CallsOf(SubSeq(rr, 1, n + 1)) = Answer!CallsOf(SubSeq(rr, 1, n)) \o CallsIn(rr[n + 1])
  <2>1. SubSeq(rr, 1, n) \in Seq(AnyRows) /\ rr[n + 1] \in AnyRows
        /\ SubSeq(rr, 1, n + 1) = Append(SubSeq(rr, 1, n), rr[n + 1])
    BY <1>0, <1>1, CutMore
  <2> QED
    BY <2>1, CallsOfMore
<1>2. 0 \in Some
  <2> SUFFICES ASSUME 0 + 1 <= Len(rr) PROVE Answer!CallsOf(SubSeq(rr, 1, 1)) = cs
    OBVIOUS
  <2>1. SubSeq(rr, 1, 0) = <<>> /\ 0 + 1 = 1
    BY SubSeqEmpty
  <2>2. Answer!CallsOf(SubSeq(rr, 1, 1)) = Answer!CallsOf(<<>>) \o CallsIn(rr[1])
    BY <1>1, <2>1
  <2>3. CallsIn(rr[1]) = cs
    BY DEF CallsIn, RowsOfRound
  <2>4. <<>> \o cs = cs
    BY ConcatEmptySeq
  <2> QED
    BY <2>2, <2>3, <2>4, CallsOfNone
<1>3. ASSUME NEW n \in Nat, n \in Some PROVE n + 1 \in Some
  <2> SUFFICES ASSUME (n + 1) + 1 <= Len(rr) PROVE Answer!CallsOf(SubSeq(rr, 1, (n + 1) + 1)) = cs
    OBVIOUS
  <2>1. n + 1 \in Nat /\ n + 1 <= Len(rr) /\ (n + 1) + 1 \in DOMAIN rr /\ (n + 1) + 1 # 1
    BY <1>0
  <2>2. Answer!CallsOf(SubSeq(rr, 1, n + 1)) = cs
    BY <1>3, <2>1
  <2>3. CallsIn(rr[(n + 1) + 1]) = <<>>
    BY <2>1 DEF CallsIn, RowsOfRound
  <2>4. cs \o <<>> = cs
    BY ConcatEmptySeq
  <2> QED
    BY <1>1, <2>1, <2>2, <2>3, <2>4
<1>4. Nat \subseteq Some
  <2> HIDE DEF Some
  <2> QED
    BY <1>2, <1>3, InductionOverSet
<1>5. m - 1 \in Nat /\ (m - 1) + 1 = m /\ m <= Len(rr)
  BY <1>0
<1> QED
  <2> HIDE DEF Some
  <2>1. m - 1 \in Some
    BY <1>4, <1>5
  <2> QED
    BY <1>5, <2>1 DEF Some

\* What is stored of a round, and what could not be.
Halves(rr, front, back, n) ==
  /\ n \in 0 .. Len(rr)
  /\ front = SubSeq(rr, 1, n) /\ back = SubSeq(rr, n + 1, Len(rr))

LEMMA HalvesAre ==
  ASSUME NEW rr, NEW at, NEW d, NEW cs \in Seq(StartedCalls), Apart(cs), StoredOfRound(rr, at, d, cs),
         NEW front, NEW back, NEW n, Halves(rr, front, back, n)
  PROVE  /\ front \in Seq(AnyRows) /\ back \in Seq(AnyRows)
         /\ \A r \in Range(front) : r.round = at /\ Apart(CallsIn(r))
         /\ n = 0 => front = <<>> /\ Answer!CallsOf(front) = <<>> /\ Answer!CallsOf(back) = cs
         /\ n # 0 => Answer!CallsOf(front) = cs /\ Answer!CallsOf(back) = <<>>
         /\ back = <<>> => n = Len(rr)
<1> PICK N : N = Len(rr)
  OBVIOUS
<1>0. rr \in Seq(AnyRows) /\ N \in Nat /\ DOMAIN rr = 1 .. N /\ n \in 0 .. N
  BY DEF StoredOfRound, Halves
<1>1. front \in Seq(AnyRows) /\ DOMAIN front = 1 .. n /\ \A k \in 1 .. n : front[k] = rr[k] /\ k \in DOMAIN rr
  <2>1. 1 \in 1 .. N + 1 /\ n \in 1 - 1 .. N /\ n - 1 + 1 = n
    BY <1>0
  <2> QED
    BY <1>0, <2>1, SubSeqProperties DEF Halves
<1>2. /\ back \in Seq(AnyRows) /\ Len(back) = N - n /\ DOMAIN back = 1 .. N - n
      /\ \A k \in 1 .. N - n : back[k] = rr[n + k] /\ n + k \in DOMAIN rr
  <2>1. n + 1 \in 1 .. N + 1 /\ N \in (n + 1) - 1 .. N /\ N - (n + 1) + 1 = N - n /\ N - n \in Nat
    BY <1>0
  <2>2. \A k \in 1 .. N - n : (n + 1) + k - 1 = n + k /\ n + k \in 1 .. N
    BY <1>0
  <2> QED
    BY <1>0, <2>1, <2>2, SubSeqProperties DEF Halves
<1>3. ASSUME NEW r \in Range(front) PROVE r.round = at /\ Apart(CallsIn(r))
  <2>1. PICK k \in 1 .. n : r = rr[k] /\ k \in DOMAIN rr
    BY <1>1 DEF Range
  <2>2. r \in Range(rr)
    BY <2>1 DEF Range
  <2>3. RowsOfRound(rr, d, cs)
    <3>1. rr # <<>>
      BY <2>1
    <3> QED
      BY <3>1 DEF StoredOfRound
  <2>4. CASE k = 1
    BY <2>1, <2>2, <2>3, <2>4 DEF StoredOfRound, RowsOfRound, CallsIn
  <2>5. CASE k # 1
    <3>1. CallsIn(r) = <<>>
      BY <2>1, <2>3, <2>5 DEF RowsOfRound, CallsIn
    <3> QED
      BY <2>2, <3>1, NotYetTypes DEF StoredOfRound
  <2> QED
    BY <2>4, <2>5
<1>4. ASSUME rr # <<>>, NEW m \in 1 .. N PROVE Answer!CallsOf(SubSeq(rr, 1, m)) = cs
  BY <1>4, CallsOfFront DEF StoredOfRound
<1>5. n = 0 => front = <<>> /\ Answer!CallsOf(front) = <<>> /\ Answer!CallsOf(back) = cs
  <2> SUFFICES ASSUME n = 0 PROVE front = <<>> /\ Answer!CallsOf(front) = <<>> /\ Answer!CallsOf(back) = cs
    OBVIOUS
  <2>1. front = <<>>
    BY SubSeqEmpty DEF Halves
  <2>2. back = SubSeq(rr, 1, N) /\ back = rr
    <3>1. 0 + 1 = 1 /\ SubSeq(rr, 1, N) = rr
      BY <1>0, SubSeqFull
    <3> QED
      BY <3>1 DEF Halves
  <2>3. Answer!CallsOf(rr) = cs
    <3>1. CASE rr = <<>>
      BY <3>1, CallsOfNone DEF StoredOfRound
    <3>2. CASE rr # <<>>
      <4>1. N \in 1 .. N
        BY <1>0, <3>2, EmptySeq
      <4> QED
        BY <1>4, <2>2, <3>2, <4>1
    <3> QED
      BY <3>1, <3>2
  <2> QED
    BY <2>1, <2>2, <2>3, CallsOfNone
<1>6. n # 0 => Answer!CallsOf(front) = cs /\ Answer!CallsOf(back) = <<>>
  <2> SUFFICES ASSUME n # 0 PROVE Answer!CallsOf(front) = cs /\ Answer!CallsOf(back) = <<>>
    OBVIOUS
  <2>1. n \in 1 .. N /\ rr # <<>>
    BY <1>0
  <2>2. Answer!CallsOf(front) = cs
    BY <1>4, <2>1 DEF Halves
  <2>3. ASSUME NEW r \in Range(back) PROVE r.role = "tool"
    <3>1. PICK k \in 1 .. N - n : r = rr[n + k] /\ n + k \in DOMAIN rr
      BY <1>2 DEF Range
    <3>2. n + k # 1
      BY <1>0, <2>1
    <3> QED
      BY <2>1, <3>1, <3>2 DEF StoredOfRound, RowsOfRound
  <2>4. Answer!CallsOf(back) = <<>>
    BY <1>2, <2>3, CallsOfResults
  <2> QED
    BY <2>2, <2>4
<1>7. back = <<>> => n = N
  BY <1>0, <1>2
<1> QED
  BY <1>1, <1>2, <1>3, <1>5, <1>6, <1>7

LEMMA OnceNow ==
  ASSUME NEW kept \in Seq(AnyRows), NEW missing \in Seq(AnyRows), Once(kept, missing, <<>>)
  PROVE  /\ Apart(Answer!CallsOf(kept)) /\ Apart(Answer!CallsOf(missing))
         /\ CallIdsOf(Answer!CallsOf(kept)) \cap CallIdsOf(Answer!CallsOf(missing)) = {}
BY OnceIs, NotYetTypes

LEMMA RangeCatTwice ==
  \A p \in Seq(Items), q \in Seq(Items), r \in Seq(Items) :
    Range(Cat(p, Cat(q, r))) = Range(p) \cup (Range(q) \cup Range(r))
BY CatType, RangeCat

LEMMA OnceEarlier ==
  ASSUME NEW kept \in Seq(AnyRows), NEW missing \in Seq(AnyRows), NEW cs \in Seq(StartedCalls),
         NEW front \in Seq(AnyRows), NEW back \in Seq(AnyRows),
         \/ (Answer!CallsOf(front) = cs /\ Answer!CallsOf(back) = <<>>)
         \/ (Answer!CallsOf(front) = <<>> /\ Answer!CallsOf(back) = cs)
  PROVE  /\ Once(kept \o front, missing \o back, <<>>) => Once(kept, missing, cs)
         /\ OldIds(kept \o front, missing \o back) = OldIds(kept, missing) \cup CallIdsOf(cs)
<1> PICK k, m, f, b : /\ k = Answer!CallsOf(kept) /\ m = Answer!CallsOf(missing)
                      /\ f = Answer!CallsOf(front) /\ b = Answer!CallsOf(back)
  OBVIOUS
<1>1. k \in Seq(StartedCalls) /\ m \in Seq(StartedCalls) /\ f \in Seq(StartedCalls) /\ b \in Seq(StartedCalls)
  BY CallsOfIs
<1> PICK more, gap : more = kept \o front /\ gap = missing \o back
  OBVIOUS
<1>2. more \in Seq(AnyRows) /\ gap \in Seq(AnyRows)
  BY ConcatProperties
<1> PICK km, mm : km = k \o f /\ mm = m \o b
  OBVIOUS
<1>3. Answer!CallsOf(more) = km /\ Answer!CallsOf(gap) = mm
  BY CallsOfJoined
<1>4. CallIdsOf(km) = CallIdsOf(k) \cup CallIdsOf(f) /\ CallIdsOf(mm) = CallIdsOf(m) \cup CallIdsOf(b)
  BY <1>1, IdsOfJoined
<1>5. /\ Apart(km) <=> Apart(k) /\ Apart(f) /\ CallIdsOf(k) \cap CallIdsOf(f) = {}
      /\ Apart(mm) <=> Apart(m) /\ Apart(b) /\ CallIdsOf(m) \cap CallIdsOf(b) = {}
  BY <1>1, ApartJoined
<1>6. CallIdsOf(<<>>) = {}
  BY DEF CallIdsOf
<1>7. (CallIdsOf(f) = CallIdsOf(cs) /\ CallIdsOf(b) = {} /\ (Apart(f) <=> Apart(cs)))
      \/ (CallIdsOf(f) = {} /\ CallIdsOf(b) = CallIdsOf(cs) /\ (Apart(b) <=> Apart(cs)))
  BY <1>6
<1>8. OldIds(more, gap) = OldIds(kept, missing) \cup CallIdsOf(cs)
  <2>1. OldIds(more, gap) = (CallIdsOf(k) \cup CallIdsOf(f)) \cup (CallIdsOf(m) \cup CallIdsOf(b))
    BY <1>3, <1>4 DEF OldIds
  <2>2. OldIds(kept, missing) = CallIdsOf(k) \cup CallIdsOf(m)
    BY DEF OldIds
  <2> QED
    BY <1>7, <2>1, <2>2
<1>9. ASSUME Once(more, gap, <<>>) PROVE Once(kept, missing, cs)
  <2>1. Apart(km) /\ Apart(mm) /\ CallIdsOf(km) \cap CallIdsOf(mm) = {}
    BY <1>2, <1>3, <1>9, OnceNow
  <2>2. /\ Apart(k) /\ Apart(m) /\ Apart(cs)
        /\ CallIdsOf(k) \cap CallIdsOf(m) = {} /\ CallIdsOf(k) \cap CallIdsOf(cs) = {} /\ CallIdsOf(m) \cap CallIdsOf(cs) = {}
    BY <1>4, <1>5, <1>7, <2>1
  <2> QED
    BY <2>2, OnceIs
<1> QED
  BY <1>8, <1>9

\* What the blocks show after a round is of its calls or has been known.
LEMMA KnownAfter ==
  ASSUME NEW base, NEW bs, NEW bs2, NEW ids, NEW d \in Deltas, NEW at \in Nat, NEW at2 \in Nat, NEW state2,
         NEW cs \in Seq(StartedCalls), base \in Seq(Blocks),
         Grown(base, bs2, d, cs), Known(base, ids, d, at, "streaming"),
         \A kind \in Kinds : \A x \in Range(d[kind]) : x \in Texts /\ x[1] = at,
         at <= at2, state2 # "ended" => at < at2
  PROVE  Known(bs2, ids \cup CallIdsOf(cs), Answer!NoDeltas, at2, state2)
<1>1. \A x \in Texts : x[1] \in Nat
  BY DEF Texts
<1>2. ASSUME NEW kind \in Kinds, NEW x \in Range(Answer!Shown(bs2, kind))
      PROVE  \/ x \in ids \cup CallIdsOf(cs)
             \/ (x \in Texts /\ x \notin Range(Answer!NoDeltas[kind]) /\ (state2 # "ended" => x[1] < at2))
  <2> PICK s, p, o : s = Answer!Shown(base, kind) /\ p = d[kind] /\ o = NewIds(Answer!ToolsOf(base), cs)
    OBVIOUS
  <2>1. s \in Seq(Items) /\ p \in Seq(Items) /\ o \in Seq(Items)
    <3>1. s \in Seq(Items) /\ o \in Seq(Items)
      BY ShownIs, NewIdsType
    <3> QED
      BY <3>1, DeltasTypes
  <2>2. Answer!Shown(bs2, kind) = Cat(s, Cat(p, o))
    BY DEF Grown, Cat
  <2>3. Range(Cat(s, Cat(p, o))) = Range(s) \cup (Range(p) \cup Range(o))
    BY <2>1, RangeCatTwice
  <2>4. Range(o) \subseteq CallIdsOf(cs)
    BY NewIdsRange
  <2>5. CASE x \in Range(s)
    <3>1. x \in ids \/ (x \in Texts /\ x[1] < at)
      BY <2>5 DEF Known
    <3>2. x \in Texts /\ x[1] < at => x[1] < at2
      BY <1>1
    <3> QED
      BY <3>1, <3>2, NotYetTypes
  <2>6. CASE x \in Range(p)
    <3>1. x \in Texts /\ x[1] = at
      BY <2>6
    <3> QED
      BY <3>1, NotYetTypes
  <2>7. CASE x \in Range(o)
    BY <2>4, <2>7
  <2> QED
    BY <2>2, <2>3, <2>5, <2>6, <2>7
<1>3. ASSUME NEW t \in Answer!ToolsOf(bs2) PROVE t.id \in ids \cup CallIdsOf(cs)
  <2>1. t \in Answer!ToolsOf(base) \/ \E k \in DOMAIN cs : t = BriefOf(cs[k])
    BY DEF Grown, AddTools
  <2>2. t \in Answer!ToolsOf(base) => t.id \in ids
    BY DEF Known
  <2>3. \A k \in DOMAIN cs : BriefOf(cs[k]).id \in CallIdsOf(cs)
    BY DEF BriefOf, CallIdsOf
  <2> QED
    BY <2>1, <2>2, <2>3
<1> QED
  BY <1>2, <1>3 DEF Known

LEMMA RoundFinishedStep ==
  ASSUME AnswerInv, Answer!RoundFinished
  PROVE  AnswerInv'
<1>0. AnswerTypes /\ Dated
  BY DEF AnswerInv
<1> PICK rr, base2 : rr = Answer!RoundRows /\ base2 = blocks'
  OBVIOUS
<1>1. /\ step = "streaming"
      /\ base2 = Answer!RecordRoundFinished(blocks)
      /\ (step' = "ended" /\ round' = round) \/ (round' = round + 1 /\ step' = step)
      /\ deltas' = Answer!NoDeltas /\ run' = <<>> /\ retries' = 0
      /\ others' = others /\ gone' = gone
  BY DEF Answer!RoundFinished
<1>2. PICK front, back, n : /\ Halves(rr, front, back, n)
                           /\ answerRows' = answerRows \o front /\ lostRows' = lostRows \o back
  <2>1. PICK n \in 0 .. Len(rr) : /\ answerRows' = answerRows \o SubSeq(rr, 1, n)
                                  /\ lostRows' = lostRows \o SubSeq(rr, n + 1, Len(rr))
    BY DEF Answer!RoundFinished
  <2>2. Halves(rr, SubSeq(rr, 1, n), SubSeq(rr, n + 1, Len(rr)), n)
    BY DEF Halves
  <2> QED
    BY <2>1, <2>2
<1>3. n \in 0 .. Len(rr)
  BY <1>2 DEF Halves
<1>4. StoredOfRound(rr, round, deltas, run)
  BY <1>0, RoundRowsAre
<1>5. /\ blocks \in Seq(Blocks) /\ run \in Seq(StartedCalls) /\ Apart(run) /\ deltas \in Deltas
      /\ answerRows \in Seq(AnyRows) /\ lostRows \in Seq(AnyRows) /\ others \in Seq(StartedCalls)
      /\ round \in Nat /\ gone \in Nat /\ gone < round
  BY <1>0 DEF AnswerTypes
<1>6. /\ front \in Seq(AnyRows) /\ back \in Seq(AnyRows)
      /\ \A r \in Range(front) : r.round = round /\ Apart(CallsIn(r))
      /\ n = 0 => front = <<>> /\ Answer!CallsOf(front) = <<>> /\ Answer!CallsOf(back) = run
      /\ n # 0 => Answer!CallsOf(front) = run /\ Answer!CallsOf(back) = <<>>
      /\ back = <<>> => n = Len(rr)
  BY <1>2, <1>4, <1>5, HalvesAre
<1>7. base2 \in Seq(Blocks) /\ Alike(blocks, base2)
  BY <1>1, <1>5, FinishAlike
<1>8. PICK base : AnswerShown(base)
  BY DEF AnswerInv
<1>9. base \in Seq(Blocks) /\ Grown(base, base2, deltas, run)
  <2>1. base \in Seq(Blocks) /\ Grown(base, blocks, deltas, run)
    BY <1>8 DEF AnswerShown
  <2>2. Alike(base, base)
    BY <2>1, AlikeChain
  <2> QED
    BY <1>7, <2>1, <2>2, GrownAlike
<1> PICK kept, kept2 : kept = KeptRows(answerRows, gone) /\ kept2 = KeptRows(answerRows', gone')
  OBVIOUS
<1>10. kept2 = kept \o front
  <2>1. \A r \in Range(front) : r.round > gone
    BY <1>5, <1>6
  <2> QED
    BY <1>1, <1>2, <1>5, <1>6, <2>1, KeptJoined
<1>11. kept \in Seq(AnyRows) /\ Mappable(kept) /\ Again \in Seq(Blocks)
  BY <1>0, KeptMappable
<1>12. Again = Answer!MapRecords(kept) /\ Again' = Answer!MapRecords(kept \o front)
  BY <1>1, <1>10, MapFromIs DEF Again
<1>13. deltas.reasoning \in Seq(Items) /\ deltas.content \in Seq(Items)
  BY <1>5, DeltasTypes
<1>14. round' \in Nat /\ round <= round' /\ (step' # "ended" => round < round') /\ gone < round'
       /\ step' \in {"streaming", "ended"}
  BY <1>1, <1>5
<1>15. n = 0 => Again' = Again
  <2> SUFFICES ASSUME n = 0 PROVE Again' = Again
    OBVIOUS
  <2>1. kept \o <<>> = kept
    BY <1>11, ConcatEmptySeq
  <2> QED
    BY <1>6, <1>12, <2>1
<1>16. n # 0 => Again' \in Seq(Blocks) /\ Grown(Again, Again', deltas, run)
  <2> SUFFICES ASSUME n # 0 PROVE Again' \in Seq(Blocks) /\ Grown(Again, Again', deltas, run)
    OBVIOUS
  <2>1. n \in 1 .. Len(rr) /\ rr # <<>>
    BY <1>3
  <2>2. RowsOfRound(rr, deltas, run)
    BY <1>4, <2>1 DEF StoredOfRound
  <2>3. Grown(Answer!MapRecords(kept), Answer!MapRecords(kept \o front), deltas, run)
    <3>1. Grown(Answer!MapRecords(kept), Answer!MapRecords(kept \o SubSeq(rr, 1, n)), deltas, run)
      BY <1>5, <1>11, <2>1, <2>2, ReplayRound
    <3> QED
      BY <1>2, <3>1 DEF Halves
  <2> QED
    BY <1>12, <2>3 DEF Grown
<1>17. answerRows' \in Seq(AnyRows) /\ lostRows' \in Seq(AnyRows)
  BY <1>2, <1>5, <1>6, ConcatProperties
<1>18. AnswerTypes'
  BY <1>1, <1>5, <1>7, <1>14, <1>17, NotYetTypes DEF AnswerTypes
<1>19. Dated'
  <2>1. ASSUME NEW r \in Range(answerRows')
        PROVE  r.round <= round' /\ (step' # "ended" => r.round < round') /\ Apart(CallsIn(r))
    <3>1. r \in Range(answerRows) \/ r \in Range(front)
      BY <1>2, <1>5, <1>6, RangeJoined
    <3>2. r.round \in Nat /\ r.round <= round /\ Apart(CallsIn(r))
      <4>1. \A x \in AnyRows : x.round \in Nat
        BY DEF AnyRows, AnswerRows, ResultRows
      <4>2. r \in AnyRows
        BY <1>17 DEF Range
      <4>3. r.round <= round /\ Apart(CallsIn(r))
        BY <1>0, <1>5, <1>6, <3>1 DEF Dated
      <4> QED
        BY <4>1, <4>2, <4>3
    <3> QED
      BY <1>5, <1>14, <3>2
  <2>2. \A kind \in Kinds : \A x \in Range(deltas'[kind]) : x \in Texts /\ x[1] = round'
    BY <1>1, NotYetTypes
  <2> QED
    BY <2>1, <2>2 DEF Dated
<1>20. /\ Once(kept2, lostRows', <<>>) => Once(kept, lostRows, run)
       /\ OldIds(kept2, lostRows') = OldIds(kept, lostRows) \cup CallIdsOf(run)
  <2>1. \/ (Answer!CallsOf(front) = run /\ Answer!CallsOf(back) = <<>>)
        \/ (Answer!CallsOf(front) = <<>> /\ Answer!CallsOf(back) = run)
    BY <1>6
  <2>2. lostRows' = lostRows \o back
    BY <1>2
  <2> QED
    BY <1>5, <1>6, <1>10, <1>11, <2>1, <2>2, OnceEarlier
<1>21. lostRows' = <<>> => Alike(base2, Again')
  <2> SUFFICES ASSUME lostRows' = <<>> PROVE Alike(base2, Again')
    OBVIOUS
  <2>1. lostRows = <<>> /\ back = <<>>
    <3>1. \A p \in Seq(AnyRows), q \in Seq(AnyRows) : p \o q = <<>> => p = <<>> /\ q = <<>>
      <4> SUFFICES ASSUME NEW p \in Seq(AnyRows), NEW q \in Seq(AnyRows), p \o q = <<>> PROVE p = <<>> /\ q = <<>>
        OBVIOUS
      <4>1. Len(p \o q) = Len(p) + Len(q) /\ Len(p) \in Nat /\ Len(q) \in Nat /\ Len(<<>>) = 0
        BY ConcatProperties
      <4> QED
        BY <4>1, EmptySeq
    <3> QED
      BY <1>2, <1>5, <1>6, <3>1
  <2>2. Alike(base, Again)
    BY <1>8, <2>1 DEF AnswerShown
  <2>3. CASE n = 0
    <3>1. rr = <<>>
      <4>1. rr \in Seq(AnyRows) /\ Len(rr) = 0
        BY <1>4, <1>6, <2>1, <2>3 DEF StoredOfRound
      <4> QED
        BY <4>1, EmptySeq
    <3>2. deltas = Answer!NoDeltas /\ run = <<>>
      BY <1>4, <3>1 DEF StoredOfRound
    <3>3. Alike(base, base2)
      BY <1>9, <3>2, GrownNowhere
    <3> QED
      BY <1>9, <1>15, <2>2, <2>3, <3>3, AlikeChain
  <2>4. CASE n # 0
    <3>1. Grown(Again, Again', deltas, run) /\ Again' \in Seq(Blocks)
      BY <1>16, <2>4
    <3> QED
      BY <1>9, <2>2, <3>1 DEF Grown, Alike
  <2> QED
    BY <2>3, <2>4
<1>22. Once(kept, lostRows, run) => Among(Again', base2)
  <2> SUFFICES ASSUME Once(kept, lostRows, run) PROVE Among(Again', base2)
    OBVIOUS
  <2>1. Among(Again, base)
    BY <1>8 DEF AnswerShown
  <2>2. Unseen(base, deltas, run)
    <3>1. Known(base, OldIds(kept, lostRows), deltas, round, step)
      BY <1>8 DEF AnswerShown
    <3>2. \A kind \in Kinds : \A x \in Range(deltas[kind]) : x \in Texts
      BY <1>0 DEF Dated
    <3> QED
      BY <1>5, <1>11, <3>1, <3>2, UnseenYet
  <2>3. CASE n = 0
    BY <1>5, <1>9, <1>11, <1>13, <1>15, <2>1, <2>2, <2>3, AmongSkipped
  <2>4. CASE n # 0
    BY <1>5, <1>9, <1>11, <1>13, <1>16, <2>1, <2>2, <2>4, AmongGrown
  <2> QED
    BY <2>3, <2>4
<1>23. Known(base2, OldIds(kept2, lostRows'), Answer!NoDeltas, round', step')
  <2>1. Known(base, OldIds(kept, lostRows), deltas, round, "streaming")
    BY <1>1, <1>8 DEF AnswerShown
  <2>2. \A kind \in Kinds : \A x \in Range(deltas[kind]) : x \in Texts /\ x[1] = round
    BY <1>0 DEF Dated
  <2> QED
    BY <1>5, <1>9, <1>14, <1>20, <2>1, <2>2, KnownAfter
<1>24. Grown(base2, base2, Answer!NoDeltas, <<>>)
  BY <1>7, AlikeChain, GrownFromHere
<1>25. AnswerShown(base2)'
  BY <1>1, <1>7, <1>20, <1>21, <1>22, <1>23, <1>24 DEF AnswerShown
<1> QED
  BY <1>18, <1>19, <1>25 DEF AnswerInv

LEMMA AnswerUnchanged ==
  ASSUME AnswerInv, UNCHANGED answerVars
  PROVE  AnswerInv'
<1>0. AnswerTypes /\ Dated
  BY DEF AnswerInv
<1>1. /\ UNCHANGED <<blocks, answerRows, others, round, retries, deltas, run>>
      /\ UNCHANGED <<step, gone, lostRows>>
  BY DEF answerVars
<1>2. PICK base : AnswerShown(base)
  BY DEF AnswerInv
<1>3. AnswerTypes'
  BY <1>0, <1>1 DEF AnswerTypes
<1>4. Dated'
  BY <1>0, <1>1 DEF Dated
<1>5. AnswerShown(base)'
  <2>1. Again' = Again
    BY <1>1, AgainSame
  <2> QED
    BY <1>1, <1>2, <2>1 DEF AnswerShown
<1> QED
  BY <1>3, <1>4, <1>5 DEF AnswerInv

LEMMA AnswerStep ==
  ASSUME AnswerInv, [MCNext]_<<vars, callVars, answerVars, scene>>
  PROVE  AnswerInv'
<1>1. CASE UNCHANGED <<vars, callVars, answerVars, scene>>
  BY <1>1, AnswerUnchanged
<1>2. CASE Calls!Next /\ UNCHANGED <<vars, answerVars>>
  BY <1>2, AnswerUnchanged
<1>3. CASE Next /\ UNCHANGED <<callVars, answerVars>>
  BY <1>3, AnswerUnchanged
<1>4. CASE Answer!Next
  <2>1. CASE \E kinds \in SUBSET {"reasoning", "content"} \ {{}} : Answer!MessageDelta(kinds)
    BY <2>1, MessageDeltaStep
  <2>2. CASE \E id \in Ids : \E call \in Answer!CallsWith(id) : Answer!ToolStarted(call)
    BY <2>2, ToolStartedStep
  <2>3. CASE \E ok \in BOOLEAN : Answer!ToolFinished(ok)
    BY <2>3, ToolFinishedStep
  <2>4. CASE Answer!Retrying
    BY <2>4, RetryingStep
  <2>5. CASE Answer!RoundFinished
    BY <2>5, RoundFinishedStep
  <2>6. CASE Answer!TaskStops
    BY <2>6, TaskStopsStep
  <2> QED
    BY <1>4, <2>1, <2>2, <2>3, <2>4, <2>5, <2>6 DEF Answer!Next
<1> QED
  BY <1>1, <1>2, <1>3, <1>4 DEF MCNext

-----------------------------------------------------------------------------
(* All rows of the turn: those behind the emptied rounds are mapped on top  *)
(* of those of the emptied rounds.                                          *)

EmptiedRows(all, upTo) == Answer!Only(all, {r \in Range(all) : r.round <= upTo})

Whole == MapFrom(others, answerRows)
Early == MapFrom(others, EmptiedRows(answerRows, gone))

\* Identifiers of the calls that blocks show.
Used(bs) == Answer!IdsOf(Answer!ToolsOf(bs))

\* What all show is what early show, then what is left of what late show.
Behind(all, early, late) ==
  /\ all \in Seq(Blocks) /\ early \in Seq(Blocks) /\ late \in Seq(Blocks)
  /\ \A kind \in Kinds : Answer!Shown(all, kind) =
       Cat(Answer!Shown(early, kind), Answer!Only(Answer!Shown(late, kind), Items \ Used(early)))
  /\ Answer!ToolsOf(all) =
       {t \in Answer!ToolsOf(early) : ~ Has(Answer!ToolsOf(late), t.id)} \cup Answer!ToolsOf(late)

Stacked == Behind(Whole, Early, Again)

LEMMA UsedAre == \A bs, id : id \in Used(bs) <=> Has(Answer!ToolsOf(bs), id)
BY DEF Used, Has, Answer!IdsOf

LEMMA UsedType ==
  ASSUME NEW bs \in Seq(Blocks)
  PROVE  Used(bs) \subseteq Ids
<1>1. \A k \in DOMAIN bs : bs[k] \in Blocks
  OBVIOUS
<1>2. \A b \in Blocks : b.type = "tool" => b.tool.id \in Ids
  BY DEF Blocks, TextBlocks, ToolBlocks, Tools
<1>3. \A t \in Answer!ToolsOf(bs) : t.id \in Ids
  <2> TAKE t \in Answer!ToolsOf(bs)
  <2>1. PICK k \in DOMAIN bs : bs[k].type = "tool" /\ t = Brief(bs[k].tool)
    BY ToolsOfIs
  <2>2. t.id = bs[k].tool.id
    BY <2>1 DEF Brief
  <2> QED
    BY <1>1, <1>2, <2>1, <2>2
<1> QED
  BY <1>3 DEF Used, Answer!IdsOf

LEMMA RowsMappable ==
  ASSUME AnswerTypes, Dated, NEW S
  PROVE  /\ Answer!Only(answerRows, S) \in Seq(AnyRows)
         /\ Mappable(Answer!Only(answerRows, S))
<1> PICK some : some = Answer!Only(answerRows, S)
  OBVIOUS
<1>1. some \in Seq(AnyRows) /\ Range(some) = Range(answerRows) \cap S
  BY OnlyIs, OnlyRange DEF AnswerTypes
<1>2. \A k \in DOMAIN some : some[k] \in Range(some)
  BY DEF Range
<1>3. \A k \in DOMAIN some : Apart(CallsIn(some[k]))
  BY <1>1, <1>2 DEF Dated
<1> QED
  BY <1>1, <1>3 DEF Mappable

LEMMA StackMappable ==
  ASSUME AnswerTypes, Dated
  PROVE  /\ Mappable(answerRows) /\ Whole \in Seq(Blocks)
         /\ Mappable(EmptiedRows(answerRows, gone)) /\ Early \in Seq(Blocks)
<1>1. Answer!Only(answerRows, Range(answerRows)) = answerRows
  BY OnlyAll DEF AnswerTypes
<1>2. Mappable(answerRows)
  BY <1>1, RowsMappable
<1>3. Mappable(EmptiedRows(answerRows, gone))
  BY RowsMappable DEF EmptiedRows
<1>4. Answer!MapRecords(answerRows) \in Seq(Blocks)
  BY <1>2, MapRecordsType DEF AnswerTypes
<1>5. Answer!MapRecords(EmptiedRows(answerRows, gone)) \in Seq(Blocks)
  BY <1>3, MapRecordsType DEF AnswerTypes
<1> QED
  BY <1>2, <1>3, <1>4, <1>5, MapFromIs DEF Whole, Early

LEMMA RowRounds == \A r \in AnyRows : r.round \in Nat
BY DEF AnyRows, AnswerRows, ResultRows

\* Nothing stands behind the emptied rounds.
LEMMA BehindNothing ==
  ASSUME NEW all \in Seq(Blocks), NEW late, Alike(<<>>, late)
  PROVE  Behind(all, all, late)
<1>1. late \in Seq(Blocks)
  BY DEF Alike
<1>2. Answer!ToolsOf(late) = {} /\ \A kind \in Kinds : Answer!Shown(late, kind) = <<>>
  BY NothingShown
<1>3. ASSUME NEW kind \in Kinds
      PROVE  Answer!Shown(all, kind) =
               Cat(Answer!Shown(all, kind), Answer!Only(Answer!Shown(late, kind), Items \ Used(all)))
  <2>1. Answer!Only(Answer!Shown(late, kind), Items \ Used(all)) = <<>>
    BY <1>2, OnlyEmpty
  <2>2. Answer!Shown(all, kind) \in Seq(Items)
    BY ShownIs
  <2> QED
    BY <2>1, <2>2, CatNothing
<1>4. \A t \in Answer!ToolsOf(all) : ~ Has(Answer!ToolsOf(late), t.id)
  BY <1>2 DEF Has
<1> QED
  BY <1>1, <1>2, <1>3, <1>4 DEF Behind

\* All tools have the identifiers G and those of the late ones.
Joins(A, G, L) == \A id \in Ids : Has(A, id) <=> id \in G \/ Has(L, id)

LEMMA NewIdLeft ==
  ASSUME NEW A, NEW L, NEW G, NEW c \in StartedCalls, Joins(A, G, L)
  PROVE  Answer!Only(NewId(L, c), Items \ G) = NewId(A, c)
<1> PICK one : one = <<c.id>>
  OBVIOUS
<1>0. c.id \in Ids /\ c.id \in Items /\ (Has(A, c.id) <=> c.id \in G \/ Has(L, c.id))
  BY CallIds DEF Joins
<1>1. one \in Seq(Items) /\ Range(one) = {c.id}
  <2>1. <<c.id>> \in Seq(Items)
    BY <1>0
  <2>2. Range(<<c.id>>) = {c.id}
    BY DEF Range
  <2> QED
    BY <2>1, <2>2
<1>2. CASE Has(L, c.id)
  <2>1. NewId(L, c) = <<>> /\ NewId(A, c) = <<>>
    BY <1>0, <1>2 DEF NewId
  <2> QED
    BY <2>1, OnlyEmpty
<1>3. CASE ~ Has(L, c.id) /\ c.id \in G
  <2>1. NewId(L, c) = one /\ NewId(A, c) = <<>>
    BY <1>0, <1>3 DEF NewId
  <2>2. Range(one) \cap (Items \ G) = {}
    BY <1>1, <1>3
  <2> QED
    BY <1>1, <2>1, <2>2, OnlyNothing
<1>4. CASE ~ Has(L, c.id) /\ c.id \notin G
  <2>1. NewId(L, c) = one /\ NewId(A, c) = one
    BY <1>0, <1>4 DEF NewId
  <2>2. Range(one) \subseteq Items \ G
    BY <1>0, <1>1, <1>4
  <2> QED
    BY <1>1, <2>1, <2>2, OnlyAll
<1> QED
  BY <1>2, <1>3, <1>4

LEMMA NewIdsLeft ==
  ASSUME NEW A, NEW L, NEW G, NEW cs \in Seq(StartedCalls), Joins(A, G, L)
  PROVE  Answer!Only(NewIds(L, cs), Items \ G) = NewIds(A, cs)
<1> DEFINE H == {s \in Seq(StartedCalls) : Answer!Only(NewIds(L, s), Items \ G) = NewIds(A, s)}
<1>1. <<>> \in H
  <2>1. <<>> \in Seq(StartedCalls)
    OBVIOUS
  <2> QED
    BY <2>1, NewIdsNone, OnlyEmpty
<1>2. ASSUME NEW s \in H, NEW c \in Range(cs) PROVE Append(s, c) \in H
  <2>1. c \in StartedCalls /\ s \in Seq(StartedCalls) /\ Answer!Only(NewIds(L, s), Items \ G) = NewIds(A, s)
    BY DEF Range
  <2>2. /\ Append(s, c) \in Seq(StartedCalls)
        /\ \A tools : NewIds(tools, Append(s, c)) = Cat(NewIds(tools, s), NewId(tools, c))
    BY <2>1, AppendProperties, NewIdsMore DEF Cat
  <2>3. NewIds(L, s) \in Seq(Items) /\ NewId(L, c) \in Seq(Items)
    <3>1. NewIds(L, s) \in Seq(Items)
      BY <2>1, NewIdsType
    <3>2. c.id \in Items
      BY <2>1, CallIds
    <3> QED
      BY <3>1, <3>2 DEF NewId
  <2>4. Answer!Only(Cat(NewIds(L, s), NewId(L, c)), Items \ G) =
          Cat(Answer!Only(NewIds(L, s), Items \ G), Answer!Only(NewId(L, c), Items \ G))
    BY <2>3, OnlyCat
  <2>5. Answer!Only(NewId(L, c), Items \ G) = NewId(A, c)
    BY <2>1, NewIdLeft
  <2> QED
    BY <2>1, <2>2, <2>4, <2>5
<1>3. cs \in H
  <2> HIDE DEF H
  <2>1. H \in SUBSET Seq(StartedCalls)
    BY DEF H
  <2> QED
    BY <1>1, <1>2, <2>1, OneAtATime
<1> QED
  BY <1>3

\* A round more, on top of all rows and of those behind the emptied rounds.
LEMMA BehindGrown ==
  ASSUME NEW all, NEW early, NEW late, Behind(all, early, late),
         NEW all2, NEW late2, NEW d \in Deltas, NEW cs \in Seq(StartedCalls),
         \A kind \in Kinds : \A x \in Range(d[kind]) : x \in Texts,
         Grown(all, all2, d, cs), Grown(late, late2, d, cs)
  PROVE  Behind(all2, early, late2)
<1> PICK A, E, L, A2, L2 : /\ A = Answer!ToolsOf(all) /\ E = Answer!ToolsOf(early)
                           /\ L = Answer!ToolsOf(late)
                           /\ A2 = Answer!ToolsOf(all2) /\ L2 = Answer!ToolsOf(late2)
  OBVIOUS
<1> PICK G : G = Used(early)
  OBVIOUS
<1>0. /\ all \in Seq(Blocks) /\ early \in Seq(Blocks) /\ late \in Seq(Blocks)
      /\ all2 \in Seq(Blocks) /\ late2 \in Seq(Blocks)
  BY DEF Behind, Grown
<1>1. A = {t \in E : ~ Has(L, t.id)} \cup L
  BY DEF Behind
<1>2. A2 = AddTools(A, cs) /\ L2 = AddTools(L, cs)
  BY DEF Grown
<1>3. \A id : id \in G <=> Has(E, id)
  BY UsedAre
<1>4. Joins(A, G, L)
  BY <1>1, <1>3 DEF Has, Joins
<1>5. A2 = {t \in E : ~ Has(L2, t.id)} \cup L2
  <2> PICK new : new = {BriefOf(cs[k]) : k \in DOMAIN cs}
    OBVIOUS
  <2>1. \A T : AddTools(T, cs) = {t \in T : \A k \in DOMAIN cs : cs[k].id # t.id} \cup new
    BY DEF AddTools
  <2>2. \A id : Has(new, id) <=> \E k \in DOMAIN cs : cs[k].id = id
    <3>1. \A c : BriefOf(c).id = c.id
      BY DEF BriefOf
    <3>2. \A t : t \in new <=> \E k \in DOMAIN cs : t = BriefOf(cs[k])
      OBVIOUS
    <3> QED
      BY <3>1, <3>2 DEF Has
  <2>3. \A id : Has(L2, id) <=> Has(L, id) \/ Has(new, id)
    BY <1>2, <2>1, <2>2 DEF Has
  <2>4. \A t : t \in A2 <=> (t \in A /\ ~ Has(new, t.id)) \/ t \in new
    BY <1>2, <2>1, <2>2
  <2>5. \A t : t \in L2 <=> (t \in L /\ ~ Has(new, t.id)) \/ t \in new
    BY <1>2, <2>1, <2>2
  <2>6. \A t : t \in A <=> (t \in E /\ ~ Has(L, t.id)) \/ t \in L
    BY <1>1
  <2> QED
    BY <2>3, <2>4, <2>5, <2>6
<1>6. ASSUME NEW kind \in Kinds
      PROVE  Answer!Shown(all2, kind) =
               Cat(Answer!Shown(early, kind), Answer!Only(Answer!Shown(late2, kind), Items \ G))
  <2> PICK s, f, l, p, o, q : /\ s = Answer!Shown(all, kind) /\ f = Answer!Shown(early, kind)
                              /\ l = Answer!Shown(late, kind)
                              /\ p = d[kind] /\ o = NewIds(L, cs) /\ q = NewIds(A, cs)
    OBVIOUS
  <2> PICK S : S = Items \ G
    OBVIOUS
  <2>1. f \in Seq(Items) /\ l \in Seq(Items) /\ p \in Seq(Items) /\ o \in Seq(Items) /\ q \in Seq(Items)
    <3>1. f \in Seq(Items) /\ l \in Seq(Items)
      BY <1>0, ShownIs
    <3>2. o \in Seq(Items) /\ q \in Seq(Items)
      BY NewIdsType
    <3> QED
      BY <3>1, <3>2, DeltasTypes
  <2>2. s = Cat(f, Answer!Only(l, S))
    BY DEF Behind
  <2>3. Answer!Shown(all2, kind) = Cat(s, Cat(p, q)) /\ Answer!Shown(late2, kind) = Cat(l, Cat(p, o))
    BY DEF Grown, Cat
  <2>4. Answer!Only(p, S) = p
    <3>1. Range(p) \subseteq S
      <4>1. G \subseteq Ids
        BY <1>0, UsedType
      <4>2. \A x \in Range(p) : x \in Texts /\ x \notin Ids /\ x \in Items
        BY IdsApart DEF Items
      <4> QED
        BY <4>1, <4>2
    <3> QED
      BY <2>1, <3>1, OnlyAll
  <2>5. Answer!Only(NewIds(L, cs), Items \ G) = NewIds(A, cs)
    BY <1>4, NewIdsLeft
  <2>6. Answer!Only(Cat(l, Cat(p, o)), S) = Cat(Answer!Only(l, S), Cat(p, q))
    <3>1. Answer!Only(Cat(p, o), S) = Cat(Answer!Only(p, S), Answer!Only(o, S))
      BY <2>1, OnlyCat
    <3>2. Cat(p, o) \in Seq(Items)
      BY <2>1, CatType
    <3>3. Answer!Only(Cat(l, Cat(p, o)), S) = Cat(Answer!Only(l, S), Answer!Only(Cat(p, o), S))
      BY <2>1, <3>2, OnlyCat
    <3> QED
      BY <2>4, <2>5, <3>1, <3>3
  <2>7. Cat(Cat(f, Answer!Only(l, S)), Cat(p, q)) = Cat(f, Cat(Answer!Only(l, S), Cat(p, q)))
    <3>1. Answer!Only(l, S) \in Seq(Items) /\ Cat(p, q) \in Seq(Items)
      BY <2>1, OnlyIs, CatType
    <3> QED
      BY <2>1, <3>1, CatGrouped
  <2> QED
    BY <2>2, <2>3, <2>6, <2>7
<1> QED
  BY <1>0, <1>5, <1>6 DEF Behind

LEMMA StackedSame ==
  ASSUME Stacked, UNCHANGED <<answerRows, others, gone>>
  PROVE  Stacked'
<1>1. Whole' = Whole /\ Early' = Early /\ Again' = Again
  BY DEF Whole, Early, Again
<1> QED
  BY <1>1 DEF Stacked

LEMMA StackedInit == ASSUME Answer!Init PROVE Stacked
<1>1. AnswerTypes /\ Dated
  BY AnswerInit DEF AnswerInv
<1>2. answerRows = <<>>
  BY DEF Answer!Init
<1>3. KeptRows(answerRows, gone) = <<>> /\ EmptiedRows(answerRows, gone) = answerRows
  BY <1>2, OnlyEmpty DEF KeptRows, EmptiedRows
<1>4. Alike(<<>>, Again)
  BY <1>1, <1>3, ReplayStart, MapFromIs DEF Again, AnswerTypes
<1>5. Whole \in Seq(Blocks) /\ Early = Whole
  BY <1>1, <1>3, StackMappable DEF Whole, Early
<1> QED
  BY <1>4, <1>5, BehindNothing DEF Stacked

\* A retry empties the answer of all rounds that have been stored.
LEMMA StackedRetrying ==
  ASSUME AnswerInv, Answer!Retrying
  PROVE  Stacked'
<1>0. AnswerTypes /\ Dated /\ AnswerTypes' /\ Dated'
  BY RetryingStep DEF AnswerInv
<1>1. step = "streaming" /\ gone' = round - 1 /\ UNCHANGED <<answerRows, others>>
  BY DEF Answer!Retrying
<1>2. \A r \in Range(answerRows) : r.round <= gone' /\ ~ (r.round > gone')
  <2>1. \A r \in Range(answerRows) : r.round < round
    BY <1>0, <1>1 DEF Dated
  <2>2. \A r \in Range(answerRows) : r.round \in Nat
    BY <1>0, RowRounds DEF AnswerTypes, Range
  <2>3. round \in Nat
    BY <1>0 DEF AnswerTypes
  <2> QED
    BY <1>1, <2>1, <2>2, <2>3
<1>3. answerRows \in Seq(AnyRows)
  BY <1>0 DEF AnswerTypes
<1>4. EmptiedRows(answerRows, gone') = answerRows
  <2>1. Range(answerRows) \subseteq {r \in Range(answerRows) : r.round <= gone'}
    BY <1>2
  <2> QED
    BY <1>3, <2>1, OnlyAll DEF EmptiedRows
<1>5. KeptRows(answerRows, gone') = <<>>
  <2>1. Range(answerRows) \cap {r \in Range(answerRows) : r.round > gone'} = {}
    BY <1>2
  <2> QED
    BY <1>3, <2>1, OnlyNothing DEF KeptRows
<1>6. Whole' = Whole /\ Early' = Whole /\ Again' = MapFrom(others, <<>>)
  BY <1>1, <1>4, <1>5 DEF Whole, Early, Again
<1>7. Alike(<<>>, MapFrom(others, <<>>))
  BY <1>0, ReplayStart, MapFromIs DEF AnswerTypes
<1>8. Whole \in Seq(Blocks)
  BY <1>0, StackMappable
<1> QED
  BY <1>6, <1>7, <1>8, BehindNothing DEF Stacked

LEMMA EmptiedJoined ==
  ASSUME NEW all \in Seq(AnyRows), NEW more \in Seq(AnyRows), NEW upTo \in Nat,
         \A r \in Range(more) : r.round > upTo
  PROVE  EmptiedRows(all \o more, upTo) = EmptiedRows(all, upTo)
<1> PICK both : both = all \o more
  OBVIOUS
<1> PICK S, R : S = {r \in Range(both) : r.round <= upTo} /\ R = {r \in Range(all) : r.round <= upTo}
  OBVIOUS
<1>1. Range(both) = Range(all) \cup Range(more)
  BY RangeJoined
<1>2. Answer!Only(both, S) = Answer!Only(all, S) \o Answer!Only(more, S)
  BY OnlyJoined
<1>3. Answer!Only(all, S) = Answer!Only(all, R)
  <2>1. \A x \in Range(all) : x \in S <=> x \in R
    BY <1>1
  <2> QED
    BY <2>1, OnlyAlike
<1>4. Answer!Only(more, S) = <<>>
  <2>1. \A r \in Range(more) : r.round \in Nat
    BY RowRounds DEF Range
  <2>2. Range(more) \cap S = {}
    BY <2>1
  <2> QED
    BY <2>2, OnlyNothing
<1>5. Answer!Only(all, R) \o <<>> = Answer!Only(all, R)
  <2>1. Answer!Only(all, R) \in Seq(AnyRows)
    BY OnlyIs
  <2> QED
    BY <2>1, ConcatEmptySeq
<1> QED
  BY <1>2, <1>3, <1>4, <1>5 DEF EmptiedRows

LEMMA StackedRoundFinished ==
  ASSUME AnswerInv, Stacked, Answer!RoundFinished
  PROVE  Stacked'
<1>0. AnswerTypes /\ Dated
  BY DEF AnswerInv
<1> PICK rr : rr = Answer!RoundRows
  OBVIOUS
<1>1. others' = others /\ gone' = gone
  BY DEF Answer!RoundFinished
<1>2. PICK front, back, n : Halves(rr, front, back, n) /\ answerRows' = answerRows \o front
  <2>1. PICK n \in 0 .. Len(rr) : answerRows' = answerRows \o SubSeq(rr, 1, n)
    BY DEF Answer!RoundFinished
  <2>2. Halves(rr, SubSeq(rr, 1, n), SubSeq(rr, n + 1, Len(rr)), n)
    BY DEF Halves
  <2> QED
    BY <2>1, <2>2
<1>3. n \in 0 .. Len(rr)
  BY <1>2 DEF Halves
<1>4. StoredOfRound(rr, round, deltas, run)
  BY <1>0, RoundRowsAre
<1>5. /\ run \in Seq(StartedCalls) /\ Apart(run) /\ deltas \in Deltas
      /\ answerRows \in Seq(AnyRows) /\ others \in Seq(StartedCalls)
      /\ round \in Nat /\ gone \in Nat /\ gone < round
  BY <1>0 DEF AnswerTypes
<1>6. front \in Seq(AnyRows) /\ (\A r \in Range(front) : r.round > gone) /\ (n = 0 => front = <<>>)
  <2>1. front \in Seq(AnyRows) /\ (\A r \in Range(front) : r.round = round) /\ (n = 0 => front = <<>>)
    BY <1>2, <1>4, <1>5, HalvesAre
  <2> QED
    BY <1>5, <2>1
<1> PICK kept : kept = KeptRows(answerRows, gone)
  OBVIOUS
<1>7. Early' = Early /\ Again' = MapFrom(others, kept \o front) /\ Whole' = MapFrom(others, answerRows \o front)
  <2>1. EmptiedRows(answerRows', gone') = EmptiedRows(answerRows, gone)
    BY <1>1, <1>2, <1>5, <1>6, EmptiedJoined
  <2>2. KeptRows(answerRows', gone') = kept \o front
    BY <1>1, <1>2, <1>5, <1>6, KeptJoined
  <2> QED
    BY <1>1, <1>2, <2>1, <2>2 DEF Early, Again, Whole
<1>8. kept \in Seq(AnyRows) /\ Mappable(kept) /\ Mappable(answerRows)
  BY <1>0, KeptMappable, StackMappable
<1>9. CASE n = 0
  <2>1. kept \o <<>> = kept /\ answerRows \o <<>> = answerRows
    BY <1>5, <1>8, ConcatEmptySeq
  <2>2. Again' = Again /\ Whole' = Whole
    BY <1>6, <1>7, <1>9, <2>1 DEF Again, Whole
  <2> QED
    BY <1>7, <2>2 DEF Stacked
<1>10. CASE n # 0
  <2>1. n \in 1 .. Len(rr) /\ rr # <<>>
    BY <1>3, <1>10
  <2>2. RowsOfRound(rr, deltas, run)
    BY <1>4, <2>1 DEF StoredOfRound
  <2>3. front = SubSeq(rr, 1, n)
    BY <1>2 DEF Halves
  <2>4. ASSUME NEW records, Mappable(records)
        PROVE  Grown(MapFrom(others, records), MapFrom(others, records \o front), deltas, run)
    <3>1. Grown(Answer!MapRecords(records), Answer!MapRecords(records \o SubSeq(rr, 1, n)), deltas, run)
      BY <1>5, <2>1, <2>2, <2>4, ReplayRound
    <3> QED
      BY <2>3, <3>1, MapFromIs
  <2>5. Grown(Whole, Whole', deltas, run) /\ Grown(Again, Again', deltas, run)
    BY <1>7, <1>8, <2>4 DEF Whole, Again
  <2>6. \A kind \in Kinds : \A x \in Range(deltas[kind]) : x \in Texts
    BY <1>0 DEF Dated
  <2>7. Behind(Whole', Early, Again')
    BY <1>5, <2>5, <2>6, BehindGrown DEF Stacked
  <2> QED
    BY <1>7, <2>7 DEF Stacked
<1> QED
  BY <1>9, <1>10

LEMMA StackedStep ==
  ASSUME AnswerInv, Stacked, [MCNext]_<<vars, callVars, answerVars, scene>>
  PROVE  Stacked'
<1>1. CASE UNCHANGED answerVars
  BY <1>1, StackedSame DEF answerVars
<1>2. CASE \/ \E kinds \in SUBSET {"reasoning", "content"} \ {{}} : Answer!MessageDelta(kinds)
           \/ \E id \in Ids : \E call \in Answer!CallsWith(id) : Answer!ToolStarted(call)
           \/ \E ok \in BOOLEAN : Answer!ToolFinished(ok)
           \/ Answer!TaskStops
  <2>1. UNCHANGED <<answerRows, others, gone>>
    BY <1>2 DEF Answer!MessageDelta, Answer!ToolStarted, Answer!ToolFinished, Answer!TaskStops
  <2> QED
    BY <2>1, StackedSame
<1>3. CASE Answer!Retrying
  BY <1>3, StackedRetrying
<1>4. CASE Answer!RoundFinished
  BY <1>4, StackedRoundFinished
<1>5. \/ UNCHANGED answerVars
      \/ Answer!Next
  BY DEF MCNext
<1> QED
  BY <1>1, <1>2, <1>3, <1>4, <1>5 DEF Answer!Next

LEMMA PrefixOfJoined ==
  ASSUME NEW s \in Seq(Items), NEW t \in Seq(Items)
  PROVE  IsPrefix(s, s \o t)
<1> PICK both, N : both = s \o t /\ N = Len(s)
  OBVIOUS
<1>1. /\ both \in Seq(Items) /\ N \in Nat /\ DOMAIN s = 1 .. N /\ N <= Len(both) /\ Len(both) \in Nat
      /\ \A k \in 1 .. N : both[k] = s[k]
  BY ConcatProperties
<1> PICK front : front = SubSeq(both, 1, N)
  OBVIOUS
<1>2. front \in Seq(Items) /\ Len(front) = N /\ \A k \in 1 .. N : front[k] = s[k]
  BY <1>1
<1>3. front = s
  BY <1>1, <1>2, SeqEqual
<1>4. SubSeq(s, 1, N) = s
  BY SubSeqFull
<1> QED
  BY <1>1, <1>3, <1>4 DEF IsPrefix

LEMMA RestOfJoined ==
  ASSUME NEW s \in Seq(Items), NEW t \in Seq(Items)
  PROVE  SubSeq(s \o t, Len(s) + 1, Len(s \o t)) = t
<1> PICK both, N, M, rest : /\ both = s \o t /\ N = Len(s) /\ M = Len(t)
                            /\ rest = SubSeq(s \o t, Len(s) + 1, Len(s \o t))
  OBVIOUS
<1>1. /\ both \in Seq(Items) /\ N \in Nat /\ M \in Nat /\ Len(both) = N + M
      /\ \A k \in 1 .. N + M : both[k] = IF k <= N THEN s[k] ELSE t[k - N]
  BY ConcatProperties
<1>2. /\ rest \in Seq(Items) /\ Len(rest) = M
      /\ \A k \in 1 .. M : rest[k] = both[N + k]
  <2>1. N + 1 \in 1 .. Len(both) + 1 /\ N + M \in (N + 1) - 1 .. Len(both) /\ (N + M) - (N + 1) + 1 = M
    BY <1>1
  <2>2. \A k \in 1 .. M : (N + 1) + k - 1 = N + k
    BY <1>1
  <2>3. rest = SubSeq(both, N + 1, N + M)
    BY <1>1
  <2> QED
    BY <1>1, <2>1, <2>2, <2>3, SubSeqProperties
<1>3. \A k \in 1 .. M : rest[k] = t[k]
  <2> TAKE k \in 1 .. M
  <2>1. N + k \in 1 .. N + M /\ ~ (N + k <= N) /\ (N + k) - N = k
    BY <1>1
  <2> QED
    BY <1>1, <1>2, <2>1
<1>4. rest = t
  BY <1>2, <1>3, SeqEqual
<1> QED
  BY <1>4

LEMMA OnlyTwice ==
  ASSUME NEW s \in Seq(Items), NEW S, NEW R
  PROVE  Answer!Only(Answer!Only(s, S), R) = Answer!Only(s, S \cap R)
<1> DEFINE G == {t \in Seq(Items) : Answer!Only(Answer!Only(t, S), R) = Answer!Only(t, S \cap R)}
<1>1. <<>> \in G
  BY OnlyEmpty
<1>2. ASSUME NEW t \in G, NEW x \in Range(s) PROVE Append(t, x) \in G
  <2>1. x \in Items /\ t \in Seq(Items) /\ Answer!Only(Answer!Only(t, S), R) = Answer!Only(t, S \cap R)
    BY DEF Range
  <2>2. /\ Append(t, x) \in Seq(Items)
        /\ \A Q : Answer!Only(Append(t, x), Q) = Cat(Answer!Only(t, Q), Just(x, Q))
    BY <2>1, AppendProperties, OnlyMore DEF Cat
  <2>3. Just(x, S) \in Seq(Items) /\ Answer!Only(t, S) \in Seq(Items)
    <3>1. <<x>> \in Seq(Items) /\ <<>> \in Seq(Items)
      BY <2>1
    <3>2. Answer!Only(t, S) \in Seq(Items)
      BY <2>1, OnlyIs
    <3> QED
      BY <3>1, <3>2 DEF Just
  <2>4. Answer!Only(Cat(Answer!Only(t, S), Just(x, S)), R) =
          Cat(Answer!Only(Answer!Only(t, S), R), Answer!Only(Just(x, S), R))
    BY <2>3, OnlyCat
  <2> PICK one \in Seq(Items) : one = Just(x, S)
    BY <2>3
  <2>5. Answer!Only(one, R) = Just(x, S \cap R)
    <3>1. CASE x \notin S
      <4>1. one = <<>> /\ Just(x, S \cap R) = <<>>
        BY <3>1 DEF Just
      <4> QED
        BY <4>1, OnlyEmpty
    <3>2. CASE x \in S
      <4>1. one = <<x>> /\ Range(one) = {x} /\ Just(x, S \cap R) = Just(x, R)
        <5>1. Range(<<x>>) = {x}
          BY DEF Range
        <5> QED
          BY <3>2, <5>1 DEF Just
      <4>2. CASE x \in R
        <5>1. Answer!Only(one, R) = one
          BY <2>3, <4>1, <4>2, OnlyAll
        <5> QED
          BY <4>1, <4>2, <5>1 DEF Just
      <4>3. CASE x \notin R
        <5>1. Answer!Only(one, R) = <<>>
          BY <2>3, <4>1, <4>3, OnlyNothing
        <5> QED
          BY <4>1, <4>3, <5>1 DEF Just
      <4> QED
        BY <4>2, <4>3
    <3> QED
      BY <3>1, <3>2
  <2> QED
    BY <2>1, <2>2, <2>4, <2>5
<1>3. s \in G
  <2> HIDE DEF G
  <2>1. G \in SUBSET Seq(Items)
    BY DEF G
  <2> QED
    BY <1>1, <1>2, <2>1, OneAtATime
<1> QED
  BY <1>3

LEMMA LeavesLess ==
  ASSUME NEW s \in Seq(Items), NEW t \in Seq(Items), NEW S, Leaves(t, s)
  PROVE  Leaves(Answer!Only(t, S), Answer!Only(s, S))
<1>1. Answer!Only(Answer!Only(t, Range(s)), S) = Answer!Only(t, Range(s) \cap S)
  BY OnlyTwice
<1>2. Answer!Only(s, S) = Answer!Only(t, Range(s) \cap S)
  BY <1>1 DEF Leaves
<1>3. Range(Answer!Only(s, S)) = Range(s) \cap S
  BY OnlyRange
<1> PICK R : R = Range(s) \cap S
  OBVIOUS
<1>4. Answer!Only(Answer!Only(t, S), R) = Answer!Only(t, S \cap R)
  BY OnlyTwice
<1>5. S \cap R = R
  OBVIOUS
<1> QED
  BY <1>2, <1>3, <1>4, <1>5 DEF Leaves

\* What is left of the blocks begins with what is left of those they grew from.
LEMMA GrownPrefix ==
  ASSUME NEW a \in Seq(Blocks), NEW b, NEW c, NEW d, NEW cs \in Seq(StartedCalls), NEW S,
         d.reasoning \in Seq(Items), d.content \in Seq(Items), NEW kind \in Kinds,
         Alike(a, c), Grown(a, b, d, cs)
  PROVE  IsPrefix(Answer!Only(Answer!Shown(c, kind), S), Answer!Only(Answer!Shown(b, kind), S))
<1> PICK s, p, o : s = Answer!Shown(a, kind) /\ p = d[kind] /\ o = NewIds(Answer!ToolsOf(a), cs)
  OBVIOUS
<1>1. s \in Seq(Items) /\ p \in Seq(Items) /\ o \in Seq(Items)
  <2>1. s \in Seq(Items) /\ o \in Seq(Items)
    BY ShownIs, NewIdsType
  <2> QED
    BY <2>1 DEF Kinds
<1>2. PICK more \in Seq(Items) : more = Cat(p, o)
  BY <1>1, CatType
<1>3. Answer!Shown(c, kind) = s
  BY DEF Alike
<1>4. Answer!Shown(b, kind) = Cat(s, more)
  BY <1>2 DEF Grown, Cat
<1>5. Answer!Only(Cat(s, more), S) = Cat(Answer!Only(s, S), Answer!Only(more, S))
  BY <1>1, OnlyCat
<1>6. Answer!Only(s, S) \in Seq(Items) /\ Answer!Only(more, S) \in Seq(Items)
  BY <1>1, <1>2, OnlyIs
<1>7. IsPrefix(Answer!Only(s, S), Cat(Answer!Only(s, S), Answer!Only(more, S)))
  BY <1>6, PrefixOfJoined DEF Cat
<1> QED
  BY <1>3, <1>4, <1>5, <1>7

LEMMA AnswerInvShows == AnswerInv /\ Stacked => Answer!ShownAgain
<1> SUFFICES ASSUME AnswerInv, Stacked PROVE Answer!ShownAgain
  OBVIOUS
<1>0. AnswerTypes /\ Dated
  BY DEF AnswerInv
<1>1. PICK base : AnswerShown(base)
  BY DEF AnswerInv
<1> PICK kept, late, all, early, used :
        /\ kept = KeptRows(answerRows, gone) /\ late = Again
        /\ all = Whole /\ early = Early /\ used = Used(early)
  OBVIOUS
<1>2. Answer!MapRecords(answerRows) = all /\ Answer!MapRecords(Answer!Emptied) = early
  BY MapFromIs, SameForAnswers DEF Whole, Early, EmptiedRows, Answer!Emptied
<1>3. kept \in Seq(AnyRows)
  BY <1>0, KeptMappable
<1>4. Behind(all, early, late) /\ all \in Seq(Blocks) /\ early \in Seq(Blocks) /\ late \in Seq(Blocks)
  BY DEF Stacked, Behind
<1>5. /\ blocks \in Seq(Blocks) /\ lostRows \in Seq(AnyRows) /\ run \in Seq(StartedCalls)
      /\ deltas.reasoning \in Seq(Items) /\ deltas.content \in Seq(Items)
  BY <1>0, DeltasTypes DEF AnswerTypes
<1>6. base \in Seq(Blocks) /\ Grown(base, blocks, deltas, run)
  BY <1>1 DEF AnswerShown
<1>7. (lostRows = <<>> /\ Answer!AllAnnounced) => Alike(blocks, late)
  <2> SUFFICES ASSUME lostRows = <<>>, Answer!AllAnnounced PROVE Alike(blocks, late)
    OBVIOUS
  <2>1. deltas = Answer!NoDeltas /\ run = <<>>
    BY DEF Answer!AllAnnounced
  <2>2. Alike(base, blocks)
    BY <1>6, <2>1, GrownNowhere
  <2>3. Alike(base, late)
    BY <1>1 DEF AnswerShown
  <2> QED
    BY <1>6, <2>2, <2>3, AlikeChain
<1>8. Answer!IdsUsedOnce => Among(late, blocks)
  <2> SUFFICES ASSUME Answer!IdsUsedOnce PROVE Among(late, blocks)
    OBVIOUS
  <2>1. Once(kept, lostRows, run)
    BY KeptIs DEF Answer!IdsUsedOnce, Once, Apart
  <2>2. Among(late, base)
    BY <1>1, <2>1 DEF AnswerShown
  <2>3. Unseen(base, deltas, run)
    <3>1. Known(base, OldIds(kept, lostRows), deltas, round, step)
      BY <1>1 DEF AnswerShown
    <3>2. \A kind \in Kinds : \A x \in Range(deltas[kind]) : x \in Texts
      BY <1>0 DEF Dated
    <3> QED
      BY <1>3, <1>5, <2>1, <3>1, <3>2, UnseenYet
  <2> QED
    BY <1>4, <1>5, <1>6, <2>2, <2>3, AmongSkipped
<1>9. ASSUME NEW kind \in Kinds
      PROVE  LET front == Answer!Shown(early, kind)
                 old   == Answer!Only(Answer!Shown(blocks, kind), Range(Answer!Shown(blocks, kind)) \ used)
                 new   == Answer!Shown(all, kind)
                 rest  == SubSeq(new, Len(front) + 1, Len(new)) IN
             /\ IsPrefix(front, new)
             /\ lostRows = <<>> => IsPrefix(rest, old)
             /\ (lostRows = <<>> /\ Answer!AllAnnounced) => rest = old
             /\ Answer!IdsUsedOnce => rest = Answer!Only(old, Range(rest))
  <2> PICK front, sb, sl, new, S : /\ front = Answer!Shown(early, kind) /\ sb = Answer!Shown(blocks, kind)
                                   /\ sl = Answer!Shown(late, kind) /\ new = Answer!Shown(all, kind)
                                   /\ S = Items \ used
    OBVIOUS
  <2> PICK old, rest : old = Answer!Only(sb, S) /\ rest = Answer!Only(sl, S)
    OBVIOUS
  <2>1. front \in Seq(Items) /\ sb \in Seq(Items) /\ sl \in Seq(Items) /\ rest \in Seq(Items)
    <3>1. front \in Seq(Items) /\ sb \in Seq(Items) /\ sl \in Seq(Items)
      BY <1>4, <1>5, ShownIs
    <3> QED
      BY <3>1, OnlyIs
  <2>2. new = front \o rest
    BY <1>4 DEF Behind, Cat
  <2>3. IsPrefix(front, new)
    BY <2>1, <2>2, PrefixOfJoined
  <2>4. SubSeq(new, Len(front) + 1, Len(new)) = rest
    BY <2>1, <2>2, RestOfJoined
  <2>5. Answer!Only(sb, Range(sb) \ used) = old
    <3>1. \A x \in Range(sb) : x \in Items
      BY <2>1 DEF Range
    <3>2. \A x \in Range(sb) : x \in Range(sb) \ used <=> x \in S
      BY <3>1
    <3> QED
      BY <2>1, <3>2, OnlyAlike
  <2>6. lostRows = <<>> => IsPrefix(rest, old)
    BY <1>1, <1>5, <1>6, GrownPrefix DEF AnswerShown
  <2>7. (lostRows = <<>> /\ Answer!AllAnnounced) => rest = old
    BY <1>7 DEF Alike
  <2>8. Answer!IdsUsedOnce => rest = Answer!Only(old, Range(rest))
    <3> SUFFICES ASSUME Answer!IdsUsedOnce PROVE rest = Answer!Only(old, Range(rest))
      OBVIOUS
    <3>1. Leaves(sb, sl)
      BY <1>8 DEF Among, Leaves
    <3>2. Leaves(Answer!Only(sb, S), Answer!Only(sl, S))
      BY <2>1, <3>1, LeavesLess
    <3> QED
      BY <3>2 DEF Leaves
  <2> QED
    BY <2>3, <2>4, <2>5, <2>6, <2>7, <2>8
<1>10. /\ (lostRows = <<>> /\ Answer!AllAnnounced) =>
            Answer!ToolsOf(all) = Answer!ToolsOf(blocks) \cup
              {t \in Answer!ToolsOf(early) : t.id \notin Answer!IdsOf(Answer!ToolsOf(blocks))}
       /\ Answer!IdsUsedOnce => Answer!ToolsOf(all) \subseteq Answer!ToolsOf(early) \cup Answer!ToolsOf(blocks)
  <2> PICK A, E, L, B : /\ A = Answer!ToolsOf(all) /\ E = Answer!ToolsOf(early)
                        /\ L = Answer!ToolsOf(late) /\ B = Answer!ToolsOf(blocks)
    OBVIOUS
  <2>1. A = {t \in E : ~ Has(L, t.id)} \cup L
    BY <1>4 DEF Behind
  <2>2. (lostRows = <<>> /\ Answer!AllAnnounced) => L = B
    BY <1>7 DEF Alike
  <2>3. Answer!IdsUsedOnce => L \subseteq B
    BY <1>8 DEF Among
  <2>4. \A id : id \in Answer!IdsOf(B) <=> Has(B, id)
    BY DEF Answer!IdsOf, Has
  <2> QED
    BY <2>1, <2>2, <2>3, <2>4
<1>11. used = Answer!IdsOf(Answer!ToolsOf(early))
  BY DEF Used
<1>12. "reasoning" \in Kinds /\ "content" \in Kinds /\ Kinds = {"reasoning", "content"}
  BY DEF Kinds
<1> QED
  BY <1>2, <1>9, <1>10, <1>11, <1>12, SameForAnswers DEF Answer!ShownAgain

\* An answer that is opened again begins with the rounds that a retry has taken
\* off the live one, and goes on with what that shows, up to the last round that
\* was finished; a call that has an identifier of those rounds stands where it
\* stood there, as the later call.  If rows were lost, what is left stands in
\* the order it stood in (tool_call_display.rs:1, mapMessageRecords).
THEOREM ShownAgainTheorem == MCSpec => []ShownAgain
<1>1. MCInit => AnswerInv /\ Stacked
  BY AnswerInit, StackedInit DEF MCInit
<1>2. AnswerInv /\ Stacked /\ [MCNext]_<<vars, callVars, answerVars, scene>> => AnswerInv' /\ Stacked'
  BY AnswerStep, StackedStep
<1>3. AnswerInv /\ Stacked => ShownAgain
  BY AnswerInvShows DEF ShownAgain
<1> QED
  BY <1>1, <1>2, <1>3, PTL DEF MCSpec
=============================================================================
