-------------------------- MODULE AgentTaskProofs ---------------------------
(***************************************************************************)
(* Proofs about AgentTask for every set of tasks and callers and every      *)
(* bound: types, what a terminal event says, what becomes of the abort      *)
(* handles, and that AgentTask implements TaskStream: whatever starts,      *)
(* cancels, drops or answers a runner, each event it publishes is one the   *)
(* grammar allows after the newest one.                                     *)
(***************************************************************************)
EXTENDS AgentTask, TLAPS

-----------------------------------------------------------------------------
(* Types.  The limits on rounds and tool calls are not inductive by         *)
(* themselves: a round is only opened below the limit, and a tool call      *)
(* only returned when one was to do.                                        *)

InBounds(r) ==
  /\ r.results + r.todo <= MaxTools
  /\ r.pc \in {"toolStart", "tool"} => r.todo > 0
  /\ r.pc \in {"none", "precheck", "prepare", "profile"} => r.round = 0
  /\ r.pc \in {"head", "fold"} => r.round < MaxRounds

RunnersInBounds == \A t \in Tasks : InBounds(run[t])

TypeInv == TypeOK /\ RunnersInBounds

\* The part of TypeInv about the runners, and the part about the streams.
RunType == run \in [Tasks -> Locals] /\ RunnersInBounds
StreamType == last \in [Tasks -> Stream!Event] /\ ends \in [Tasks -> Nat]

\* The fields of a runner, for the arithmetic.
LEMMA LocalsFields ==
  ASSUME TypeInv, NEW t \in Tasks
  PROVE  /\ run[t] \in Locals
         /\ run[t].round \in 0 .. MaxRounds
         /\ run[t].retries \in 0 .. MaxRetries
         /\ run[t].results \in 0 .. MaxTools
         /\ run[t].todo \in 0 .. MaxTools
         /\ run[t].pc \in RunnerSteps
         /\ InBounds(run[t])
  BY DEF TypeInv, TypeOK, Locals, RunnersInBounds

\* Replacing one runner by a well-formed one keeps the runners well-formed.
LEMMA MoveType ==
  ASSUME TypeInv, NEW t \in Tasks, NEW r \in Locals, InBounds(r),
         run' = [run EXCEPT ![t] = r]
  PROVE  RunType'
<1>1. run' \in [Tasks -> Locals]
  BY DEF TypeInv, TypeOK
<1>2. ASSUME NEW u \in Tasks PROVE InBounds(run'[u])
  BY <1>1 DEF TypeInv, TypeOK, RunnersInBounds
<1> QED
  BY <1>1, <1>2 DEF RunType, RunnersInBounds, InBounds

\* A runner may move to any step whose bounds it satisfies.
LEMMA GotoType ==
  ASSUME TypeInv, NEW t \in Tasks, NEW p \in RunnerSteps, Goto(t, p),
         p \in {"toolStart", "tool"} => run[t].todo > 0,
         p \in {"none", "precheck", "prepare", "profile"} => run[t].round = 0,
         p \in {"head", "fold"} => run[t].round < MaxRounds
  PROVE  RunType'
<1> DEFINE r == [run[t] EXCEPT !.pc = p]
<1>1. r \in Locals
  BY LocalsFields DEF Locals
<1>2. InBounds(r)
  BY LocalsFields DEF InBounds, Locals
<1>3. run' = [run EXCEPT ![t] = r]
  BY DEF Goto
<1> QED
  BY <1>1, <1>2, <1>3, MoveType

\* A runner that leaves run_inner keeps its round and nothing else.
LEMMA ExitType ==
  ASSUME TypeInv, NEW t \in Tasks, Exit(t)
  PROVE  RunType'
<1> DEFINE r == At("exit", run[t].round)
<1>1. r \in Locals
  BY LocalsFields, AgentAssumption DEF At, Locals, RunnerSteps
<1>2. InBounds(r)
  BY LocalsFields, AgentAssumption DEF At, InBounds
<1>3. run' = [run EXCEPT ![t] = r]
  BY DEF Exit
<1> QED
  BY <1>1, <1>2, <1>3, MoveType

\* Publishing an event of a known kind keeps the stream's types.
LEMMA PublishType ==
  ASSUME TypeInv, NEW t \in Tasks, NEW k \in Stream!Kinds, Publish(t, k)
  PROVE  StreamType'
<1>1. Stream!Ev(k, run[t].round) \in Stream!Event
  BY LocalsFields DEF Stream!Ev, Stream!Event
<1> QED
  BY <1>1 DEF TypeInv, TypeOK, StreamType, Publish

\* So does publishing nothing.
LEMMA SilentType ==
  ASSUME TypeInv, Silent
  PROVE  StreamType'
  BY DEF TypeInv, TypeOK, StreamType, Silent

\* A step of a runner is well typed when its own three effects are.
LEMMA RunnerOnlyType ==
  ASSUME TypeInv, RunnerOnly, RunType', StreamType', state' \in [Tasks -> AgentState]
  PROVE  TypeInv'
  BY DEF TypeInv, TypeOK, RunType, StreamType, RunnerOnly, RunnersInBounds, InBounds

\* What an await of the runner returns keeps the types.
LEMMA AwaitType ==
  ASSUME TypeInv, NEW t \in Tasks, Await(t)
  PROVE  TypeInv'
<1> USE DEF RunnerSteps, Running, AwaitPoints, At_
<1>k. {"ContextCompactionStarted", "ContextCompactionFinished",
       "ContextCompactionCanceled", "AssistantMessageDelta",
       "ModelRoundFinished", "ToolCallFinished"} \subseteq Stream!Kinds
  BY DEF Stream!Kinds, Stream!InRound, Stream!Compaction
<1>s. state \in [Tasks -> AgentState]
  BY DEF TypeInv, TypeOK
<1>f. /\ run[t] \in Locals /\ InBounds(run[t])
      /\ run[t].results \in 0 .. MaxTools /\ run[t].todo \in 0 .. MaxTools
  BY LocalsFields
<1>1. CASE PrecheckReturns(t)
  <2>1. run[t].round = 0
    BY <1>1, <1>f DEF PrecheckReturns, InBounds
  <2>2. RunType'
    BY <1>1, <2>1, GotoType DEF PrecheckReturns
  <2>3. StreamType'
    BY <1>1, <1>k, PublishType, SilentType DEF PrecheckReturns
  <2> QED
    BY <1>1, <1>s, <2>2, <2>3, RunnerOnlyType DEF PrecheckReturns
<1>c. ASSUME NEW p \in {"profile", "head"}, CompactionReturns(t, p),
             p = "profile" => run[t].round = 0,
             p = "head" => run[t].round < MaxRounds
      PROVE  TypeInv'
  <2>1. RunType'
    BY <1>c, GotoType DEF CompactionReturns
  <2>2. StreamType'
    BY <1>c, <1>k, PublishType, SilentType DEF CompactionReturns
  <2> QED
    BY <1>c, <1>s, <2>1, <2>2, RunnerOnlyType DEF CompactionReturns
<1>2. CASE PrepareReturns(t)
  BY <1>2, <1>c, <1>f DEF PrepareReturns, InBounds
<1>3. CASE FoldReturns(t)
  BY <1>3, <1>c, <1>f DEF FoldReturns, InBounds
<1>4. CASE ProfileReturns(t)
  <2>1. run[t].round < MaxRounds
    BY <1>4, <1>f, AgentAssumption DEF ProfileReturns, InBounds
  <2>2. RunType'
    BY <1>4, <2>1, GotoType DEF ProfileReturns
  <2> QED
    BY <1>4, <1>s, <2>2, SilentType, RunnerOnlyType DEF ProfileReturns
<1>5. CASE ChunkCanceled(t)
  BY <1>5, <1>s, ExitType, SilentType, RunnerOnlyType DEF ChunkCanceled
<1>6. CASE ChunkDelta(t)
  <2>1. RunType'
    BY <1>6 DEF ChunkDelta, TypeInv, TypeOK, RunType, RunnersInBounds, InBounds
  <2>2. StreamType'
    BY <1>6, <1>k, PublishType DEF ChunkDelta
  <2> QED
    BY <1>6, <1>s, <2>1, <2>2, RunnerOnlyType DEF ChunkDelta
<1>7. CASE ChunkToolCalls(t)
  <2>1. ASSUME NEW n \in 1 .. MaxTools - run[t].results,
               run' = [run EXCEPT ![t].pc = "toolStart", ![t].todo = n]
        PROVE  RunType'
    <3> DEFINE r == [run[t] EXCEPT !.pc = "toolStart", !.todo = n]
    <3>1. n \in 0 .. MaxTools /\ n > 0 /\ run[t].results + n <= MaxTools
      BY <1>f, AgentAssumption
    <3>2. r \in Locals
      BY <1>f, <3>1 DEF Locals
    <3>3. InBounds(r)
      BY <1>f, <3>1 DEF InBounds, Locals
    <3> QED
      BY <2>1, <3>2, <3>3, MoveType
  <2>2. RunType'
    BY <1>7, <2>1, GotoType DEF ChunkToolCalls
  <2> QED
    BY <1>7, <1>s, <2>2, SilentType, RunnerOnlyType DEF ChunkToolCalls
<1>8. CASE ChunkError(t)
  BY <1>8, <1>s, GotoType, SilentType, RunnerOnlyType DEF ChunkError
<1>9. CASE ChunkFinished(t)
  BY <1>9, <1>k, <1>s, GotoType, PublishType, RunnerOnlyType DEF ChunkFinished
<1>10. CASE StreamEnds(t)
  BY <1>10, <1>s, GotoType, SilentType, RunnerOnlyType DEF StreamEnds
<1>11. CASE ToolReturns(t)
  <2> DEFINE p == IF run[t].todo > 1 THEN "toolStart" ELSE "stream"
             r == [run[t] EXCEPT !.pc = p, !.todo = @ - 1, !.results = @ + 1]
  <2>1. run[t].todo > 0 /\ run[t].results + run[t].todo <= MaxTools
    BY <1>11, <1>f DEF ToolReturns, InBounds
  <2>2. /\ run[t].todo - 1 \in 0 .. MaxTools
        /\ run[t].results + 1 \in 0 .. MaxTools
    BY <1>f, <2>1, AgentAssumption
  <2>3. p \in RunnerSteps /\ (p = "toolStart" => run[t].todo - 1 > 0)
    BY <1>f
  <2>4. r \in Locals
    BY <1>f, <2>2, <2>3 DEF Locals
  <2>5. InBounds(r)
    BY <1>f, <2>1, <2>2, <2>3 DEF InBounds, Locals
  <2>6. RunType'
    <3>1. run' = [run EXCEPT ![t] = r]
      BY <1>11 DEF ToolReturns
    <3> QED
      BY <2>4, <2>5, <3>1, MoveType
  <2>7. StreamType'
    BY <1>11, <1>k, PublishType DEF ToolReturns
  <2>8. state' \in [Tasks -> AgentState]
    BY <1>11, <1>s DEF ToolReturns, SetState, AgentState
  <2> QED
    BY <1>11, <2>6, <2>7, <2>8, RunnerOnlyType DEF ToolReturns
<1> QED
  BY <1>1, <1>2, <1>3, <1>4, <1>5, <1>6, <1>7, <1>8, <1>9, <1>10, <1>11 DEF Await

\* What the runner does between awaits keeps the types.
LEMMA LocalType ==
  ASSUME TypeInv, NEW t \in Tasks, Local(t)
  PROVE  TypeInv'
<1> USE DEF RunnerSteps, Running, AwaitPoints, At_
<1>k. {"ContextCompactionStarted", "ModelRequestStarted", "ModelRequestRetrying",
       "ToolCallStarted", "Finished", "Failed", "Canceled"} \subseteq Stream!Kinds
  BY DEF Stream!Kinds, Stream!InRound, Stream!Compaction, Stream!Terminal
<1>s. state \in [Tasks -> AgentState]
  BY DEF TypeInv, TypeOK
<1>a. ASSUME NEW v \in {"RunningTool", "Completed", "Failed"}, SetState(t, v)
      PROVE  state' \in [Tasks -> AgentState]
  BY <1>s, <1>a DEF SetState, AgentState, Final
<1>f. /\ run[t] \in Locals /\ InBounds(run[t])
      /\ run[t].round \in 0 .. MaxRounds /\ run[t].retries \in 0 .. MaxRetries
      /\ run[t].results \in 0 .. MaxTools /\ run[t].todo \in 0 .. MaxTools
  BY LocalsFields
<1>1. CASE LoopHead(t)
  <2>0. run[t].round < MaxRounds
    BY <1>1, <1>f DEF LoopHead, InBounds
  <2>1. ASSUME run' = [run EXCEPT ![t].pc = "fold", ![t].folded = TRUE]
        PROVE  RunType'
    <3> DEFINE r == [run[t] EXCEPT !.pc = "fold", !.folded = TRUE]
    <3>1. r \in Locals
      BY <1>f DEF Locals
    <3>2. InBounds(r)
      BY <1>f, <2>0 DEF InBounds, Locals
    <3> QED
      BY <2>1, <3>1, <3>2, MoveType
  <2>2. ASSUME run' = [run EXCEPT ![t].pc = "request", ![t].round = @ + 1,
                                  ![t].retries = 0, ![t].results = 0]
        PROVE  RunType'
    <3> DEFINE r == [run[t] EXCEPT !.pc = "request", !.round = @ + 1,
                                   !.retries = 0, !.results = 0]
    <3>1. /\ run[t].round + 1 \in 0 .. MaxRounds
          /\ 0 \in 0 .. MaxRetries /\ 0 \in 0 .. MaxTools
      BY <1>f, <2>0, AgentAssumption
    <3>2. r \in Locals
      BY <1>f, <3>1 DEF Locals
    <3>3. InBounds(r)
      BY <1>f DEF InBounds, Locals
    <3> QED
      BY <2>2, <3>2, <3>3, MoveType
  <2>3. RunType' /\ StreamType'
    BY <1>1, <1>k, <2>1, <2>2, PublishType, SilentType DEF LoopHead
  <2> QED
    BY <1>1, <1>s, <2>3, RunnerOnlyType DEF LoopHead
<1>2. CASE SendRequest(t)
  <2>1. RunType' /\ StreamType'
    BY <1>2, <1>k, GotoType, PublishType DEF SendRequest
  <2> QED
    BY <1>2, <1>s, <2>1, RunnerOnlyType DEF SendRequest
<1>3. CASE Retry(t)
  <2>1. ASSUME run[t].retries < MaxRetries,
               run' = [run EXCEPT ![t].pc = "request", ![t].retries = @ + 1,
                                  ![t].results = 0]
        PROVE  RunType'
    <3> DEFINE r == [run[t] EXCEPT !.pc = "request", !.retries = @ + 1, !.results = 0]
    <3>1. run[t].retries + 1 \in 0 .. MaxRetries /\ 0 \in 0 .. MaxTools
      BY <1>f, <2>1, AgentAssumption
    <3>2. r \in Locals
      BY <1>f, <3>1 DEF Locals
    <3>3. InBounds(r)
      BY <1>f DEF InBounds, Locals
    <3> QED
      BY <2>1, <3>2, <3>3, MoveType
  <2>2. RunType' /\ StreamType'
    BY <1>3, <1>k, <2>1, GotoType, PublishType, SilentType DEF Retry
  <2> QED
    BY <1>3, <1>s, <2>2, RunnerOnlyType DEF Retry
<1>4. CASE StartTool(t)
  <2>1. run[t].todo > 0
    BY <1>4, <1>f DEF StartTool, InBounds
  <2>2. RunType' /\ StreamType'
    BY <1>4, <1>k, <2>1, GotoType, PublishType DEF StartTool
  <2> QED
    BY <1>4, <1>a, <2>2, RunnerOnlyType DEF StartTool
<1>5. CASE EndRound(t)
  <2>1. ASSUME NEW h \in BOOLEAN,
               run' = [run EXCEPT ![t].hot = h,
                                  ![t].pc = IF run[t].results = 0 THEN "complete"
                                            ELSE IF run[t].round < MaxRounds THEN "head"
                                            ELSE "fail"]
        PROVE  RunType'
    <3> DEFINE p == IF run[t].results = 0 THEN "complete"
                    ELSE IF run[t].round < MaxRounds THEN "head" ELSE "fail"
               r == [run[t] EXCEPT !.hot = h, !.pc = p]
    <3>1. p \in RunnerSteps /\ p \notin {"toolStart", "tool", "fold", "none",
                                         "precheck", "prepare", "profile"}
      OBVIOUS
    <3>2. r \in Locals
      BY <1>f, <3>1 DEF Locals
    <3>3. InBounds(r)
      BY <1>f, <3>1 DEF InBounds, Locals
    <3> QED
      BY <2>1, <3>2, <3>3, MoveType
  <2>2. RunType'
    BY <1>5, <2>1, ExitType DEF EndRound
  <2> QED
    BY <1>5, <1>s, <2>2, SilentType, RunnerOnlyType DEF EndRound
<1>6. CASE Complete(t)
  <2>1. RunType' /\ StreamType'
    BY <1>6, <1>k, ExitType, PublishType DEF Complete
  <2> QED
    BY <1>6, <1>a, <2>1, RunnerOnlyType DEF Complete
<1>7. CASE Fail(t)
  <2>1. RunType' /\ StreamType'
    BY <1>7, <1>k, ExitType, PublishType DEF Fail
  <2> QED
    BY <1>7, <1>a, <2>1, RunnerOnlyType DEF Fail
<1>8. CASE GuardControl(t)
  <2>1. RunType' /\ StreamType'
    BY <1>8, GotoType, SilentType DEF GuardControl
  <2> QED
    BY <1>8, <2>1
    DEF GuardControl, TypeInv, TypeOK, RunType, StreamType, RunnersInBounds, InBounds
<1>9. CASE GuardEvent(t)
  <2>1. RunType' /\ StreamType'
    BY <1>9, <1>k, GotoType, PublishType, SilentType DEF GuardEvent
  <2> QED
    BY <1>9, <1>s, <2>1, RunnerOnlyType DEF GuardEvent
<1> QED
  BY <1>1, <1>2, <1>3, <1>4, <1>5, <1>6, <1>7, <1>8, <1>9 DEF Local

\* The calls made on the agent keep the types.
LEMMA CallType ==
  ASSUME TypeInv, NEW t \in Tasks,
         \/ StartTask(t) \/ Starter(t) \/ ResumeTask(t) \/ Drop(t)
         \/ \E c \in Callers : CancelAbort(c) \/ CancelMark(c, t)
  PROVE  TypeInv'
<1> USE DEF TypeInv, TypeOK, AgentState, Final
<1>u. ASSUME UNCHANGED run PROVE RunType'
  BY <1>u DEF RunType, RunnersInBounds, InBounds
<1>q. ASSUME RunType', StreamType', state' \in [Tasks -> AgentState],
             control' \in SUBSET Tasks, abort' \in SUBSET Tasks,
             start' \in [Tasks -> StartSteps],
             call' \in [Callers -> Tasks \cup {NoTask}]
      PROVE  TypeInv'
  BY <1>q DEF RunType, StreamType, RunnersInBounds, InBounds
<1>1. CASE StartTask(t)
  <2>1. StreamType'
    BY <1>1, PublishType DEF StartTask, Stream!Kinds
  <2> QED
    BY <1>1, <1>u, <1>q, <2>1 DEF StartTask, SetState, StartSteps
<1>2. CASE SpawnRunner(t)
  <2> DEFINE r == At("precheck", 0)
  <2>1. r \in Locals /\ InBounds(r)
    BY AgentAssumption DEF At, Locals, InBounds, RunnerSteps, Running, AwaitPoints
  <2>2. RunType'
    BY <1>2, <2>1, MoveType DEF SpawnRunner
  <2> QED
    BY <1>2, <1>q, <2>2, SilentType DEF SpawnRunner, StartSteps
<1>3. CASE RegisterControl(t)
  BY <1>3, <1>u, <1>q, SilentType DEF RegisterControl, StartSteps
<1>4. CASE FinishStart(t)
  BY <1>4, <1>u, <1>q, SilentType DEF FinishStart, StartSteps
<1>5. CASE ResumeTask(t)
  BY <1>5, <1>u, <1>q, SilentType DEF ResumeTask, SetState
<1>6. CASE Drop(t)
  BY <1>6, <1>q, ExitType, SilentType DEF Drop, RunnerOnly
<1>7. ASSUME NEW c \in Callers, CancelAbort(c) PROVE TypeInv'
  BY <1>7, <1>u, <1>q, SilentType DEF CancelAbort
<1>8. ASSUME NEW c \in Callers, CancelMark(c, t) PROVE TypeInv'
  BY <1>8, <1>u, <1>q, SilentType DEF CancelMark, SetState
<1> QED
  BY <1>1, <1>2, <1>3, <1>4, <1>5, <1>6, <1>7, <1>8 DEF Starter

\* Every reachable state is well typed and within the limits of the runner:
\* rounds, retries and tool calls never exceed them (runner.rs:172, 231).
THEOREM TypeCorrect == Spec => []TypeInv
<1>1. Init => TypeInv
  BY AgentAssumption
  DEF Init, TypeInv, TypeOK, RunnersInBounds, InBounds, At, Locals, AgentState,
      StartSteps, RunnerSteps, Stream!NoEvent, Stream!Event, Stream!Kinds
<1>2. TypeInv /\ [Next]_vars => TypeInv'
  <2> SUFFICES ASSUME TypeInv, [Next]_vars PROVE TypeInv'
    OBVIOUS
  <2>1. CASE Next
    <3>1. ASSUME NEW c \in Callers, CancelAbort(c) PROVE TypeInv'
      <4>1. \E t \in Tasks : call[c] = t
        BY <3>1 DEF CancelAbort, TypeInv, TypeOK
      <4> QED
        BY <3>1, <4>1, CallType
    <3> QED
      BY <2>1, <3>1, AwaitType, LocalType, CallType DEF Next
  <2>2. CASE UNCHANGED vars
    BY <2>2 DEF vars, TypeInv, TypeOK, RunnersInBounds, InBounds
  <2> QED
    BY <2>1, <2>2
<1> QED
  BY <1>1, <1>2, PTL DEF Spec

-----------------------------------------------------------------------------
(* What holds between a runner's position, the task's state, its stream and *)
(* its handle when resume_task is not called.                               *)

NotSpawned == {"new", "announced"}
Ended == {"exit", "guard", "gone"}

\* The state is the runner's or a canceller's until a terminal event fixes
\* it; a runner that ends without one was aborted, or saw a cancellation
\* that its guard is going to announce.
SettledInv(t) ==
  /\ run[t].pc = "none" <=> start[t] \in NotSpawned
  /\ run[t].pc \notin Ended => state[t] \notin {"Completed", "Failed"}
  /\ ends[t] = IF Stream!IsTerminal(last[t]) THEN 1 ELSE 0
  /\ Stream!IsTerminal(last[t]) =>
       /\ run[t].pc \in Ended
       /\ state[t] = StateOf(last[t].kind)
       /\ last[t].kind = "Canceled" => run[t].pc = "gone"
  /\ ~Stream!IsTerminal(last[t]) /\ run[t].pc \in {"exit", "guard"} =>
       t \in abort \/ state[t] = "Canceled"
  /\ ~Stream!IsTerminal(last[t]) /\ run[t].pc = "gone" => t \in abort

\* Handles exist from registration on, and are never both stored and used; a
\* runner whose guard has run keeps one only until start looks at its state.
HandleInv(t) ==
  /\ t \in control \cup abort => start[t] \in {"registered", "returned"}
  /\ t \in abort => t \notin control
  /\ run[t].pc \in {"guard", "gone"} =>
       /\ t \in control => start[t] = "registered"
       /\ start[t] \in {"spawned", "registered"} => state[t] \in Final \/ t \in abort

\* With callers that know a task only once start returned: a live task can
\* be aborted or has been.
KernelInv(t) ==
  /\ start[t] # "returned" => state[t] # "Canceled" /\ \A c \in Callers : call[c] # t
  /\ start[t] \in {"registered", "returned"} /\ run[t].pc \in Running =>
       t \in control \cup abort
  /\ /\ state[t] = "Canceled" /\ start[t] = "returned" /\ run[t].pc \in Running
     /\ \A c \in Callers : call[c] # t
     => t \in abort

SafeInv == \A t \in Tasks : SettledInv(t) /\ HandleInv(t)
DeliveryInv == \A t \in Tasks : KernelInv(t)

-----------------------------------------------------------------------------
(* SafeInv is inductive.                                                   *)

\* A step inside the loop of run_inner: the runner of t moves from one step
\* to another, publishes nothing terminal and marks the task at most as
\* thinking or running a tool.
InLoop(t) ==
  /\ run[t].pc \in Running /\ run'[t].pc \in Running
  /\ \A u \in Tasks \ {t} : run'[u] = run[u]
  /\ Silent \/ \E k \in Stream!Kinds \ Stream!Terminal : Publish(t, k)
  /\ UNCHANGED state \/ \E s \in {"Thinking", "RunningTool"} : SetState(t, s)
  /\ RunnerOnly

\* A step in the loop leaves a task that has not ended as it was for its
\* subscriber, and every other task alone.
LEMMA InLoopSafe ==
  ASSUME TypeInv, SafeInv, NEW t \in Tasks, InLoop(t)
  PROVE  SafeInv'
<1> SUFFICES ASSUME NEW u \in Tasks PROVE SettledInv(u)' /\ HandleInv(u)'
  BY DEF SafeInv
<1> USE DEF TypeInv, TypeOK, SafeInv
<1>1. CASE u # t
  <2>1. /\ run'[u] = run[u] /\ state'[u] = state[u]
        /\ last'[u] = last[u] /\ ends'[u] = ends[u]
    BY <1>1 DEF InLoop, Silent, Publish, SetState
  <2>2. UNCHANGED <<start, control, abort>>
    BY DEF InLoop, RunnerOnly
  <2> QED
    BY <2>1, <2>2 DEF SettledInv, HandleInv, Stream!IsTerminal
<1>2. CASE u = t
  <2>1. run[t].pc \notin Ended /\ run'[t].pc \notin Ended /\ run[t].pc # "none" /\ run'[t].pc # "none"
    BY DEF InLoop, Running, AwaitPoints, Ended
  <2>2. ~Stream!IsTerminal(last[t]) /\ ends[t] = 0
    BY <2>1 DEF SettledInv
  <2>3. ~Stream!IsTerminal(last'[t]) /\ ends'[t] = ends[t]
    BY <2>2 DEF InLoop, Silent, Publish, Stream!IsTerminal, Stream!Ev
  <2>4. state[t] \notin {"Completed", "Failed"} /\ state'[t] \notin {"Completed", "Failed"}
    BY <2>1 DEF SettledInv, InLoop, SetState
  <2>5. UNCHANGED <<start, control, abort>>
    BY DEF InLoop, RunnerOnly
  <2>6. SettledInv(t)'
    BY <2>1, <2>2, <2>3, <2>4, <2>5 DEF SettledInv, Ended, Stream!IsTerminal
  <2>7. HandleInv(t)'
    BY <2>1, <2>5 DEF HandleInv, Ended
  <2> QED
    BY <1>2, <2>6, <2>7
<1> QED
  BY <1>1, <1>2

\* A step out of run_inner: silently, by an abort or on seeing the
\* cancellation, or with the terminal event of the state it sets.
Leaves(t) ==
  /\ run[t].pc \in Running
  /\ Exit(t)
  /\ \/ Silent /\ UNCHANGED state /\ (t \in abort \/ state[t] = "Canceled")
     \/ Publish(t, "Finished") /\ SetState(t, "Completed")
     \/ Publish(t, "Failed") /\ SetState(t, "Failed")
  /\ RunnerOnly

\* A runner that leaves run_inner has published the terminal event of the state
\* it set, or leaves it to its guard.
LEMMA LeavesSafe ==
  ASSUME TypeInv, SafeInv, NEW t \in Tasks, Leaves(t)
  PROVE  SafeInv'
<1> SUFFICES ASSUME NEW u \in Tasks PROVE SettledInv(u)' /\ HandleInv(u)'
  BY DEF SafeInv
<1> USE DEF TypeInv, TypeOK, SafeInv
<1>1. CASE u # t
  <2>1. /\ run'[u] = run[u] /\ state'[u] = state[u]
        /\ last'[u] = last[u] /\ ends'[u] = ends[u]
    BY <1>1 DEF Leaves, Exit, Silent, Publish, SetState
  <2>2. UNCHANGED <<start, control, abort>>
    BY DEF Leaves, RunnerOnly
  <2> QED
    BY <2>1, <2>2 DEF SettledInv, HandleInv, Stream!IsTerminal
<1>2. CASE u = t
  <2>1. run[t].pc \notin Ended /\ run[t].pc # "none" /\ run'[t].pc = "exit"
    BY DEF Leaves, Running, AwaitPoints, Ended, Exit, At
  <2>2. ~Stream!IsTerminal(last[t]) /\ ends[t] = 0
    BY <2>1 DEF SettledInv
  <2>3. UNCHANGED <<start, control, abort>>
    BY DEF Leaves, RunnerOnly
  <2>4. \/ /\ last'[t] = last[t] /\ ends'[t] = 0 /\ state'[t] = state[t]
           /\ t \in abort \/ state[t] = "Canceled"
        \/ /\ last'[t].kind = "Finished" /\ ends'[t] = 1 /\ state'[t] = "Completed"
        \/ /\ last'[t].kind = "Failed" /\ ends'[t] = 1 /\ state'[t] = "Failed"
    BY <2>2 DEF Leaves, Silent, Publish, SetState, Stream!Terminal, Stream!Ev
  <2>5. SettledInv(t)'
    BY <2>1, <2>2, <2>3, <2>4
    DEF SettledInv, Ended, Stream!IsTerminal, Stream!Terminal, StateOf
  <2>6. HandleInv(t)'
    BY <2>1, <2>3 DEF HandleInv, Ended
  <2> QED
    BY <1>2, <2>5, <2>6
<1> QED
  BY <1>1, <1>2

\* Every await returns into the loop or leaves it.
LEMMA AwaitMoves ==
  ASSUME TypeInv, NEW t \in Tasks, Await(t)
  PROVE  InLoop(t) \/ Leaves(t)
<1> USE DEF TypeInv, TypeOK, Locals, Running, AwaitPoints, At_, Goto
<1>k. {"ContextCompactionStarted", "ContextCompactionFinished",
       "ContextCompactionCanceled", "AssistantMessageDelta",
       "ModelRoundFinished", "ToolCallFinished"} \subseteq Stream!Kinds \ Stream!Terminal
  BY DEF Stream!Kinds, Stream!InRound, Stream!Compaction, Stream!Terminal
<1>1. CASE PrecheckReturns(t)
  BY <1>1, <1>k DEF PrecheckReturns, InLoop
<1>2. CASE PrepareReturns(t)
  BY <1>2, <1>k DEF PrepareReturns, CompactionReturns, InLoop
<1>3. CASE FoldReturns(t)
  BY <1>3, <1>k DEF FoldReturns, CompactionReturns, InLoop
<1>4. CASE ProfileReturns(t)
  BY <1>4 DEF ProfileReturns, InLoop
<1>5. CASE ChunkCanceled(t)
  BY <1>5 DEF ChunkCanceled, Leaves
<1>6. CASE ChunkDelta(t)
  BY <1>6, <1>k DEF ChunkDelta, InLoop
<1>7. CASE ChunkToolCalls(t)
  BY <1>7 DEF ChunkToolCalls, InLoop
<1>8. CASE ChunkError(t)
  BY <1>8 DEF ChunkError, InLoop
<1>9. CASE ChunkFinished(t)
  BY <1>9, <1>k DEF ChunkFinished, InLoop
<1>10. CASE StreamEnds(t)
  BY <1>10 DEF StreamEnds, InLoop
<1>11. CASE ToolReturns(t)
  BY <1>11, <1>k DEF ToolReturns, InLoop
<1> QED
  BY <1>1, <1>2, <1>3, <1>4, <1>5, <1>6, <1>7, <1>8, <1>9, <1>10, <1>11 DEF Await

\* So does every step between awaits, until the guard runs.
LEMMA LocalMoves ==
  ASSUME TypeInv, NEW t \in Tasks, Local(t)
  PROVE  InLoop(t) \/ Leaves(t) \/ GuardControl(t) \/ GuardEvent(t)
<1> USE DEF TypeInv, TypeOK, Locals, Running, AwaitPoints, At_, Goto
<1>k. {"ContextCompactionStarted", "ModelRequestStarted", "ModelRequestRetrying",
       "ToolCallStarted"} \subseteq Stream!Kinds \ Stream!Terminal
  BY DEF Stream!Kinds, Stream!InRound, Stream!Compaction, Stream!Terminal
<1>1. CASE LoopHead(t)
  BY <1>1, <1>k DEF LoopHead, InLoop
<1>2. CASE SendRequest(t)
  BY <1>2, <1>k DEF SendRequest, InLoop
<1>3. CASE Retry(t)
  BY <1>3, <1>k DEF Retry, InLoop
<1>4. CASE StartTool(t)
  BY <1>4, <1>k DEF StartTool, InLoop
<1>5. CASE EndRound(t)
  <2>1. CASE state[t] = "Canceled"
    BY <1>5, <2>1 DEF EndRound, Leaves
  <2>2. CASE state[t] # "Canceled"
    <3>1. run'[t].pc \in {"complete", "head", "fail"}
          /\ \A u \in Tasks \ {t} : run'[u] = run[u]
      BY <1>5, <2>2 DEF EndRound
    <3> QED
      BY <1>5, <3>1 DEF EndRound, InLoop
  <2> QED
    BY <2>1, <2>2
<1>6. CASE Complete(t)
  BY <1>6 DEF Complete, Leaves
<1>7. CASE Fail(t)
  BY <1>7 DEF Fail, Leaves
<1> QED
  BY <1>1, <1>2, <1>3, <1>4, <1>5, <1>6, <1>7 DEF Local

\* The guard takes the handle away and then announces a cancellation.
LEMMA GuardSafe ==
  ASSUME TypeInv, SafeInv, NEW t \in Tasks, GuardControl(t) \/ GuardEvent(t)
  PROVE  SafeInv'
<1> SUFFICES ASSUME NEW u \in Tasks PROVE SettledInv(u)' /\ HandleInv(u)'
  BY DEF SafeInv
<1> USE DEF TypeInv, TypeOK, SafeInv
<1>1. CASE u # t
  <2>1. /\ run'[u] = run[u] /\ state'[u] = state[u] /\ start'[u] = start[u]
        /\ last'[u] = last[u] /\ ends'[u] = ends[u]
        /\ u \in control' <=> u \in control
        /\ u \in abort' <=> u \in abort
    BY <1>1 DEF GuardControl, GuardEvent, Goto, Silent, Publish, RunnerOnly
  <2> QED
    BY <2>1 DEF SettledInv, HandleInv, Stream!IsTerminal
<1>2. CASE u = t /\ GuardControl(t)
  <2>1. run[t].pc = "exit" /\ run'[t].pc = "guard" /\ t \notin control'
    BY <1>2 DEF GuardControl, At_, Goto, Locals
  <2>2. UNCHANGED <<state, start, abort, last, ends>>
    BY <1>2 DEF GuardControl, Silent
  <2>3. SettledInv(t)'
    BY <2>1, <2>2 DEF SettledInv, Ended, Stream!IsTerminal
  <2>4. HandleInv(t)'
    <3>1. state[t] \in Final \/ t \in abort
      BY <2>1 DEF SettledInv, Final, Stream!IsTerminal, Stream!Terminal, StateOf
    <3> QED
      BY <2>1, <2>2, <3>1 DEF HandleInv
  <2> QED
    BY <1>2, <2>3, <2>4
<1>3. CASE u = t /\ GuardEvent(t)
  <2>1. run[t].pc = "guard" /\ run'[t].pc = "gone"
    BY <1>3 DEF GuardEvent, At_, Goto, Locals
  <2>2. UNCHANGED <<state, start, abort, control>>
    BY <1>3 DEF GuardEvent, RunnerOnly
  <2>3. HandleInv(t)'
    BY <2>1, <2>2 DEF HandleInv
  <2>4. CASE state[t] = "Canceled"
    <3>1. ~Stream!IsTerminal(last[t])
      BY <2>1, <2>4 DEF SettledInv, Stream!IsTerminal, Stream!Terminal, StateOf
    <3>2. last'[t].kind = "Canceled" /\ ends'[t] = 1
      BY <1>3, <2>4, <3>1 DEF GuardEvent, Publish, Stream!Terminal, Stream!Ev, SettledInv
    <3>3. SettledInv(t)'
      BY <2>1, <2>2, <2>4, <3>1, <3>2
      DEF SettledInv, Ended, Stream!IsTerminal, Stream!Terminal, StateOf
    <3> QED
      BY <1>3, <2>3, <3>3
  <2>5. CASE state[t] # "Canceled"
    <3>1. UNCHANGED <<last, ends>>
      BY <1>3, <2>5 DEF GuardEvent, Silent
    <3>2. SettledInv(t)'
      BY <2>1, <2>2, <2>5, <3>1 DEF SettledInv, Ended, Stream!IsTerminal
    <3> QED
      BY <1>3, <2>3, <3>2
  <2> QED
    BY <2>4, <2>5
<1> QED
  BY <1>1, <1>2, <1>3

\* Starting, canceling and dropping a task keep SafeInv.
LEMMA CallSafe ==
  ASSUME TypeInv, SafeInv, NEW t \in Tasks,
         \/ StartTask(t) \/ Starter(t) \/ Drop(t)
         \/ \E c \in Callers : CancelMark(c, t) \/ (call[c] = t /\ CancelAbort(c))
  PROVE  SafeInv'
<1> SUFFICES ASSUME NEW u \in Tasks PROVE SettledInv(u)' /\ HandleInv(u)'
  BY DEF SafeInv
<1> USE DEF TypeInv, TypeOK, SafeInv
<1>1. CASE u # t
  <2>1. /\ run'[u] = run[u] /\ state'[u] = state[u] /\ start'[u] = start[u]
        /\ last'[u] = last[u] /\ ends'[u] = ends[u]
        /\ u \in control' <=> u \in control
        /\ u \in abort' <=> u \in abort
    BY <1>1 DEF StartTask, Starter, SpawnRunner, RegisterControl, FinishStart, Drop,
       CancelMark, CancelAbort, Exit, SetState, Silent, Publish, RunnerOnly
  <2> QED
    BY <2>1 DEF SettledInv, HandleInv, Stream!IsTerminal
<1>2. CASE Drop(t)
  BY <1>2, LeavesSafe DEF Drop, Leaves, Running, SafeInv
<1> USE DEF SettledInv, HandleInv, Stream!IsTerminal, Stream!Terminal, NotSpawned, Ended
<1>3. CASE u = t /\ StartTask(t)
  BY <1>3 DEF StartTask, SetState, Publish, Stream!Ev
<1>4. CASE u = t /\ SpawnRunner(t)
  BY <1>4 DEF SpawnRunner, Silent, At
<1>5. CASE u = t /\ RegisterControl(t)
  BY <1>5 DEF RegisterControl, Silent
<1>6. CASE u = t /\ FinishStart(t)
  BY <1>6 DEF FinishStart, Silent
<1>7. ASSUME NEW c \in Callers, u = t, CancelMark(c, t)
      PROVE  SettledInv(u)' /\ HandleInv(u)'
  BY <1>7 DEF CancelMark, SetState, Silent, Final, StateOf
<1>8. ASSUME NEW c \in Callers, u = t, call[c] = t, CancelAbort(c)
      PROVE  SettledInv(u)' /\ HandleInv(u)'
  BY <1>8 DEF CancelAbort, Silent
<1> QED
  BY <1>1, <1>2, <1>3, <1>4, <1>5, <1>6, <1>7, <1>8 DEF Starter

\* SafeInv holds of every reachable state when nobody resumes tasks.
LEMMA Safe ==
  ASSUME AllowResume = FALSE
  PROVE  Spec => []SafeInv
<1>1. Init => SafeInv
  BY DEF Init, SafeInv, SettledInv, HandleInv, NotSpawned, Ended, At,
         Stream!IsTerminal, Stream!Terminal, Stream!NoEvent
<1>2. TypeInv /\ SafeInv /\ [Next]_vars => SafeInv'
  <2> SUFFICES ASSUME TypeInv, SafeInv, [Next]_vars PROVE SafeInv'
    OBVIOUS
  <2>1. ASSUME NEW c \in Callers, CancelAbort(c) PROVE SafeInv'
    <3>1. call[c] \in Tasks
      BY <2>1 DEF CancelAbort, TypeInv, TypeOK
    <3> QED
      BY <2>1, <3>1, CallSafe
  <2>2. ASSUME NEW t \in Tasks, Await(t) \/ Local(t) PROVE SafeInv'
    BY <2>2, AwaitMoves, LocalMoves, InLoopSafe, LeavesSafe, GuardSafe
  <2>3. ASSUME NEW t \in Tasks, ResumeTask(t) PROVE FALSE
    BY <2>3 DEF ResumeTask
  <2>4. CASE UNCHANGED vars
    BY <2>4 DEF vars, SafeInv, SettledInv, HandleInv, Stream!IsTerminal
  <2> QED
    BY <2>1, <2>2, <2>3, <2>4, CallSafe DEF Next
<1> QED
  BY <1>1, <1>2, TypeCorrect, PTL DEF Spec

\* A terminal event and the task table never disagree, whatever races:
\* Finished, Failed and Canceled each mean that the task is in that state.
THEOREM TerminalEventTheorem ==
  ASSUME AllowResume = FALSE
  PROVE  Spec => []TerminalEventMatchesState
<1>1. SafeInv => TerminalEventMatchesState
  BY DEF SafeInv, SettledInv, TerminalEventMatchesState
<1> QED
  BY <1>1, Safe, PTL

\* Every task nobody aborted tells its subscriber how it ended.
THEOREM SilentEndTheorem ==
  ASSUME AllowResume = FALSE
  PROVE  Spec => []SilentEndOnlyIfAborted
<1>1. SafeInv => SilentEndOnlyIfAborted
  BY DEF SafeInv, SettledInv, SilentEndOnlyIfAborted
<1> QED
  BY <1>1, Safe, PTL

\* No abort handle is left behind when both the start call and the runner
\* are over, in whichever order they end.
THEOREM NoControlLeftTheorem ==
  ASSUME AllowResume = FALSE
  PROVE  Spec => []NoControlLeft
<1>1. SafeInv => NoControlLeft
  BY DEF SafeInv, HandleInv, NoControlLeft
<1> QED
  BY <1>1, Safe, PTL

-----------------------------------------------------------------------------
(* A cancellation reaches its runner.                                      *)

\* What a runner's step may do to KernelInv of its own task: stay in the
\* loop without marking it canceled, or leave it.
LEMMA RunnerDelivery ==
  ASSUME TypeInv, DeliveryInv, NEW t \in Tasks,
         InLoop(t) \/ Leaves(t) \/ GuardControl(t) \/ GuardEvent(t),
         run[t].pc = "none" <=> start[t] \in NotSpawned
  PROVE  DeliveryInv'
<1> SUFFICES ASSUME NEW u \in Tasks PROVE KernelInv(u)'
  BY DEF DeliveryInv
<1> USE DEF TypeInv, TypeOK, DeliveryInv
<1>1. CASE u # t
  <2>1. /\ run'[u] = run[u] /\ state'[u] = state[u]
        /\ u \in control' <=> u \in control
    BY <1>1 DEF InLoop, Leaves, GuardControl, GuardEvent, Exit, Goto, SetState, RunnerOnly
  <2>2. UNCHANGED <<start, abort, call>>
    BY DEF InLoop, Leaves, GuardControl, GuardEvent, RunnerOnly
  <2> QED
    BY <2>1, <2>2 DEF KernelInv
<1>2. CASE u = t /\ InLoop(t)
  <2>1. /\ run[t].pc \in Running /\ UNCHANGED <<start, control, abort, call>>
        /\ state'[t] = state[t] \/ state'[t] # "Canceled"
    BY <1>2 DEF InLoop, RunnerOnly, SetState
  <2> QED
    BY <1>2, <2>1 DEF KernelInv
<1>3. CASE u = t /\ (Leaves(t) \/ GuardControl(t) \/ GuardEvent(t))
  <2>1. run'[t].pc \notin Running
    BY <1>3 DEF Leaves, Exit, At, GuardControl, GuardEvent, Goto, Locals, Running, AwaitPoints
  <2>2. /\ UNCHANGED <<start, abort, call>>
        /\ state'[t] = state[t] \/ state'[t] # "Canceled"
    BY <1>3 DEF Leaves, GuardControl, GuardEvent, RunnerOnly, SetState
  <2> QED
    BY <1>3, <2>1, <2>2 DEF KernelInv
<1> QED
  BY <1>1, <1>2, <1>3

\* Starting and canceling keep KernelInv, if a task is only known to callers
\* once its start returned.
LEMMA CallDelivery ==
  ASSUME EarlyCancel = FALSE, TypeInv, SafeInv, DeliveryInv, NEW t \in Tasks,
         \/ StartTask(t) \/ Starter(t)
         \/ \E c \in Callers : CancelMark(c, t) \/ (call[c] = t /\ CancelAbort(c))
  PROVE  DeliveryInv'
<1> SUFFICES ASSUME NEW u \in Tasks PROVE KernelInv(u)'
  BY DEF DeliveryInv
<1> USE DEF TypeInv, TypeOK, DeliveryInv
<1>1. CASE u # t
  <2>1. /\ run'[u] = run[u] /\ state'[u] = state[u] /\ start'[u] = start[u]
        /\ u \in control' <=> u \in control
        /\ u \in abort' <=> u \in abort
        /\ \A c \in Callers : call'[c] = u <=> call[c] = u
    BY <1>1, AgentAssumption
    DEF StartTask, Starter, SpawnRunner, RegisterControl, FinishStart, CancelMark,
        CancelAbort, SetState
  <2> QED
    BY <2>1 DEF KernelInv
<1>2. CASE u = t /\ StartTask(t)
  BY <1>2 DEF StartTask, SetState, KernelInv
<1>3. CASE u = t /\ SpawnRunner(t)
  BY <1>3 DEF SpawnRunner, KernelInv
<1>4. CASE u = t /\ RegisterControl(t)
  BY <1>4 DEF RegisterControl, KernelInv
<1>5. CASE u = t /\ FinishStart(t)
  <2>1. start[t] = "registered" /\ state[t] # "Canceled" /\ \A c \in Callers : call[c] # t
    BY <1>5 DEF FinishStart, KernelInv
  <2>2. run[t].pc \in Running => t \in control' \cup abort
    <3>1. run[t].pc \in Running => state[t] \notin Final
      BY <2>1 DEF SafeInv, SettledInv, Running, AwaitPoints, Ended, Final
    <3> QED
      BY <1>5, <2>1, <3>1 DEF FinishStart, KernelInv
  <2> QED
    BY <1>5, <2>1, <2>2 DEF FinishStart, KernelInv
<1>6. ASSUME NEW c \in Callers, u = t, CancelMark(c, t) PROVE KernelInv(u)'
  <2>1. start[t] = "returned" /\ call'[c] = t
    BY <1>6 DEF CancelMark, Known
  <2> QED
    BY <1>6, <2>1 DEF CancelMark, KernelInv
<1>7. ASSUME NEW c \in Callers, u = t, call[c] = t, CancelAbort(c) PROVE KernelInv(u)'
  <2>1. start[t] = "returned"
    BY <1>7 DEF KernelInv
  <2>2. run[t].pc \in Running => t \in abort'
    BY <1>7, <2>1 DEF CancelAbort, KernelInv
  <2> QED
    BY <1>7, <2>1, <2>2 DEF CancelAbort, KernelInv
<1> QED
  BY <1>1, <1>2, <1>3, <1>4, <1>5, <1>6, <1>7 DEF Starter

\* In the kernel, once cancel_task is over the runner of a canceled task has
\* been told to abort, however many callers cancel it at once.
THEOREM CancelDeliveredTheorem ==
  ASSUME AllowResume = FALSE, EarlyCancel = FALSE
  PROVE  Spec => []CancelDelivered
<1>1. Init => DeliveryInv
  BY AgentAssumption DEF Init, DeliveryInv, KernelInv, At, Running, AwaitPoints
<1>2. TypeInv /\ SafeInv /\ DeliveryInv /\ [Next]_vars => DeliveryInv'
  <2> SUFFICES ASSUME TypeInv, SafeInv, DeliveryInv, [Next]_vars PROVE DeliveryInv'
    OBVIOUS
  <2>1. ASSUME NEW c \in Callers, CancelAbort(c) PROVE DeliveryInv'
    <3>1. call[c] \in Tasks
      BY <2>1 DEF CancelAbort, TypeInv, TypeOK
    <3> QED
      BY <2>1, <3>1, CallDelivery
  <2>2. ASSUME NEW t \in Tasks, Await(t) \/ Local(t) \/ Drop(t) PROVE DeliveryInv'
    <3>1. run[t].pc = "none" <=> start[t] \in NotSpawned
      BY DEF SafeInv, SettledInv
    <3>2. Drop(t) => Leaves(t)
      BY DEF Drop, Leaves, Running
    <3> QED
      BY <2>2, <3>1, <3>2, AwaitMoves, LocalMoves, RunnerDelivery
  <2>3. ASSUME NEW t \in Tasks, ResumeTask(t) PROVE FALSE
    BY <2>3 DEF ResumeTask
  <2>4. CASE UNCHANGED vars
    BY <2>4 DEF vars, DeliveryInv, KernelInv
  <2> QED
    BY <2>1, <2>2, <2>3, <2>4, CallDelivery DEF Next
<1>3. DeliveryInv => CancelDelivered
  BY DEF DeliveryInv, KernelInv, CancelDelivered
<1> QED
  BY <1>1, <1>2, <1>3, TypeCorrect, Safe, PTL DEF Spec

-----------------------------------------------------------------------------
(* The grammar of the events.                                               *)

\* The newest event at each position of the runner.
Between == {"ContextCompactionFinished", "ContextCompactionCanceled"}

\* The events of an open round between its tool calls.
Streaming == {"ModelRequestStarted", "AssistantMessageDelta", "ToolCallFinished"}

\* An attempt's tool results are the tool calls it announced as finished.
ToolsAgree(r, k) ==
  /\ r.results = 0 => k # "ToolCallFinished"
  /\ r.results # 0 => k # "ModelRequestStarted"

Position(p, r, k) ==
  /\ p = "none" => k \in {"None", "TaskStarted"}
  /\ p = "precheck" => k = "TaskStarted" /\ r.hot = FALSE
  /\ p = "prepare" => k = "ContextCompactionStarted" /\ r.hot = FALSE
  /\ p = "profile" => k \in {"TaskStarted"} \cup Between /\ r.hot = FALSE
  /\ p = "fold" => k = "ContextCompactionStarted" /\ r.folded = TRUE
  /\ p = "head" =>
       /\ k \in {"TaskStarted", "ModelRoundFinished", "AssistantMessageDelta",
                 "ToolCallFinished"} \cup Between
       /\ r.hot = TRUE /\ r.folded = FALSE => k \notin {"TaskStarted"} \cup Between
  /\ p = "request" =>
       /\ k \in {"TaskStarted", "ModelRoundFinished", "AssistantMessageDelta",
                 "ToolCallFinished", "ModelRequestRetrying"} \cup Between
       /\ r.results = 0
  /\ p \in {"stream", "toolStart", "retry"} =>
       k \in Streaming /\ ToolsAgree(r, k)
  /\ p = "tool" => k = "ToolCallStarted"
  /\ p \in {"roundEnd", "complete"} =>
       /\ k \in Streaming \cup {"ModelRoundFinished"}
       /\ ToolsAgree(r, k)
  /\ p = "complete" => r.results = 0
  /\ p = "fail" => k \notin Stream!Terminal \cup
                         {"None", "ToolCallStarted", "ModelRequestRetrying"}
  /\ p \in Ended => k \notin {"None", "ModelRequestRetrying"}

Announced(r, k) == Position(r.pc, r, k)

\* Its round: one behind while a new round is being opened.
RoundOf(r, e) ==
  e.round = IF r.pc = "request" /\ e.kind # "ModelRequestRetrying"
              THEN r.round - 1 ELSE r.round

StreamInv(t) ==
  /\ Announced(run[t], last[t].kind)
  /\ RoundOf(run[t], last[t])
  /\ start[t] = "new" => last[t] = Stream!NoEvent
  /\ start[t] = "announced" => last[t].kind = "TaskStarted"

GrammarInv == \A t \in Tasks : StreamInv(t)

-----------------------------------------------------------------------------
\* An event that may follow the newest one is a step of TaskStream.
LEMMA EmitStep ==
  ASSUME TypeInv, NEW t \in Tasks, NEW k \in Stream!Kinds, Publish(t, k),
         Stream!MayFollow(last[t], Stream!Ev(k, run[t].round))
  PROVE  Stream!Next
<1> DEFINE e == Stream!Ev(k, run[t].round)
<1>1. e \in Stream!Event
  BY LocalsFields DEF Stream!Ev, Stream!Event
<1>2. Stream!Emit(t, e)
  BY DEF Publish, Stream!Emit, Stream!IsTerminal, Stream!Ev
<1> QED
  BY <1>1, <1>2 DEF Stream!Next

\* Only t's runner and stream move in a step of t's runner.
LEMMA OnlyOwn ==
  ASSUME TypeInv, NEW t \in Tasks,
         InLoop(t) \/ Leaves(t) \/ GuardControl(t) \/ GuardEvent(t),
         NEW u \in Tasks, u # t
  PROVE  run'[u] = run[u] /\ last'[u] = last[u] /\ UNCHANGED start
  BY DEF TypeInv, TypeOK, InLoop, Leaves, GuardControl, GuardEvent, Exit, Goto, Silent, Publish,
         RunnerOnly

\* What every step of a runner leaves of StreamInv once its own part is known.
LEMMA OwnGrammar ==
  ASSUME TypeInv, GrammarInv, NEW t \in Tasks,
         InLoop(t) \/ Leaves(t) \/ GuardControl(t) \/ GuardEvent(t),
         start[t] \notin NotSpawned,
         Announced(run'[t], last'[t].kind), RoundOf(run'[t], last'[t])
  PROVE  GrammarInv'
<1> SUFFICES ASSUME NEW u \in Tasks PROVE StreamInv(u)'
  BY DEF GrammarInv
<1>1. CASE u # t
  BY <1>1, OnlyOwn DEF GrammarInv, StreamInv, Announced, RoundOf
<1>2. CASE u = t
  <2>1. UNCHANGED start
    BY DEF InLoop, Leaves, GuardControl, GuardEvent, RunnerOnly
  <2> QED
    BY <1>2, <2>1 DEF StreamInv, NotSpawned, Announced, RoundOf
<1> QED
  BY <1>1, <1>2

\* What a step does to the newest event of t: nothing, or a legal next one.
LegalStep(t) ==
  \/ Silent
  \/ \E k \in Stream!Kinds :
        Publish(t, k) /\ Stream!MayFollow(last[t], Stream!Ev(k, run[t].round))

OwnStep(t) ==
  /\ Announced(run'[t], last'[t].kind) /\ RoundOf(run'[t], last'[t])
  /\ LegalStep(t)

SameLocals(t) ==
  /\ run'[t].round = run[t].round /\ run'[t].results = run[t].results
  /\ run'[t].hot = run[t].hot /\ run'[t].folded = run[t].folded

NextIs(t, k) == Stream!MayFollow(last[t], Stream!Ev(k, run[t].round))

\* The fields a step changes, for the two ways a runner moves and publishes.
LEMMA StepFields ==
  ASSUME TypeInv, NEW t \in Tasks
  PROVE  /\ \A p \in RunnerSteps : Goto(t, p) => run'[t].pc = p /\ SameLocals(t)
         /\ Exit(t) => run'[t].pc = "exit" /\ run'[t].round = run[t].round
         /\ \A k \in Stream!Kinds :
              Publish(t, k) => last'[t].kind = k /\ last'[t].round = run[t].round
         /\ Silent => last'[t] = last[t]
  BY DEF TypeInv, TypeOK, Locals, SameLocals, Goto, Exit, At, Publish, Silent, Stream!Ev

\* What GrammarInv says of a runner that is not about to send a request.
LEMMA InStep ==
  ASSUME GrammarInv, NEW t \in Tasks, run[t].pc # "request"
  PROVE  Position(run[t].pc, run[t], last[t].kind) /\ last[t].round = run[t].round
  BY DEF GrammarInv, StreamInv, Announced, RoundOf

\* Moving silently to a position where the newest event is allowed.
LEMMA MoveSilently ==
  ASSUME TypeInv, GrammarInv, NEW t \in Tasks, NEW p \in RunnerSteps \ {"request"},
         run[t].pc # "request", Silent,
         run'[t].pc = p, run'[t].round = run[t].round, Position(p, run'[t], last[t].kind)
  PROVE  OwnStep(t)
<1>1. last'[t] = last[t]
  BY StepFields
<1> QED
  BY <1>1, InStep DEF OwnStep, LegalStep, Announced, RoundOf

\* Moving with an event the grammar allows next, to a position that fits it.
LEMMA MoveWith ==
  ASSUME TypeInv, GrammarInv, NEW t \in Tasks, NEW p \in RunnerSteps \ {"request"},
         NEW k \in Stream!Kinds, Publish(t, k), NextIs(t, k),
         run'[t].pc = p, run'[t].round = run[t].round, Position(p, run'[t], k)
  PROVE  OwnStep(t)
<1>1. last'[t].kind = k /\ last'[t].round = run[t].round
  BY StepFields
<1> QED
  BY <1>1 DEF OwnStep, LegalStep, NextIs, Announced, RoundOf

\* The same when nothing but the position of the runner changes.
LEMMA GoSilently ==
  ASSUME TypeInv, GrammarInv, NEW t \in Tasks, NEW p \in RunnerSteps \ {"request"},
         run[t].pc # "request", Silent, Goto(t, p), Position(p, run[t], last[t].kind)
  PROVE  OwnStep(t)
<1>1. run'[t].pc = p /\ SameLocals(t)
  BY StepFields
<1>2. Position(p, run'[t], last[t].kind)
  BY <1>1 DEF SameLocals, Position, ToolsAgree
<1> QED
  BY <1>1, <1>2, MoveSilently DEF SameLocals

\* And with an event.
LEMMA GoWith ==
  ASSUME TypeInv, GrammarInv, NEW t \in Tasks, NEW p \in RunnerSteps \ {"request"},
         NEW k \in Stream!Kinds, Publish(t, k), NextIs(t, k), Goto(t, p),
         Position(p, run[t], k)
  PROVE  OwnStep(t)
<1>1. run'[t].pc = p /\ SameLocals(t)
  BY StepFields
<1>2. Position(p, run'[t], k)
  BY <1>1 DEF SameLocals, Position, ToolsAgree
<1> QED
  BY <1>1, <1>2, MoveWith DEF SameLocals

\* Leaving run_inner silently, with any newest event an ended runner may have.
LEMMA ExitSilently ==
  ASSUME TypeInv, GrammarInv, NEW t \in Tasks, run[t].pc # "request", Silent, Exit(t),
         last[t].kind \notin {"None", "ModelRequestRetrying"}
  PROVE  OwnStep(t)
<1>1. run'[t].pc = "exit" /\ run'[t].round = run[t].round
  BY StepFields
<1>2. Position("exit", run'[t], last[t].kind)
  BY DEF Position, Ended
<1>3. "exit" \in RunnerSteps \ {"request"}
  BY DEF RunnerSteps
<1> QED
  BY <1>1, <1>2, <1>3, MoveSilently

\* What an await returns publishes what the grammar allows at that point.
LEMMA AwaitGrammar ==
  ASSUME TypeInv, GrammarInv, NEW t \in Tasks, Await(t)
  PROVE  OwnStep(t)
<1> USE DEF At_
<1> DEFINE k0 == last[t].kind
<1>k. {"ContextCompactionStarted", "ContextCompactionFinished",
       "ContextCompactionCanceled", "AssistantMessageDelta",
       "ModelRoundFinished", "ToolCallFinished"} \subseteq Stream!Kinds
  BY DEF Stream!Kinds, Stream!InRound, Stream!Compaction
<1>q. AwaitPoints \cup {"head", "toolStart", "retry", "roundEnd", "complete", "fail", "exit"}
        \subseteq RunnerSteps \ {"request"}
  BY DEF RunnerSteps, Running, AwaitPoints
<1>1. CASE PrecheckReturns(t)
  <2>1. run[t].pc = "precheck" /\ k0 = "TaskStarted" /\ run[t].hot = FALSE
        /\ last[t].round = run[t].round
    BY <1>1, InStep DEF PrecheckReturns, Position
  <2>2. /\ Position("prepare", run[t], "ContextCompactionStarted")
        /\ Position("profile", run[t], k0) /\ Position("fail", run[t], k0)
    BY <2>1 DEF Position, Ended, Stream!Terminal
  <2>3. NextIs(t, "ContextCompactionStarted")
    BY <2>1 DEF NextIs, Stream!MayFollow, Stream!Compacts, Stream!Ev
  <2> QED
    BY <1>1, <1>k, <1>q, <2>1, <2>2, <2>3, GoWith, GoSilently DEF PrecheckReturns, AwaitPoints
<1>c. ASSUME NEW p \in {"profile", "head"}, CompactionReturns(t, p),
             run[t].pc # "request", k0 = "ContextCompactionStarted",
             last[t].round = run[t].round,
             p = "profile" => run[t].hot = FALSE, p = "head" => run[t].folded = TRUE
      PROVE  OwnStep(t)
  <2>1. /\ Position(p, run[t], "ContextCompactionFinished")
        /\ Position(p, run[t], "ContextCompactionCanceled")
        /\ Position("fail", run[t], k0)
    BY <1>c DEF Position, Ended, Between, Stream!Terminal
  <2>2. NextIs(t, "ContextCompactionFinished") /\ NextIs(t, "ContextCompactionCanceled")
    BY <1>c DEF NextIs, Stream!MayFollow, Stream!Compacts, Stream!Ev
  <2> QED
    BY <1>c, <1>k, <1>q, <2>1, <2>2, GoWith, GoSilently DEF CompactionReturns, AwaitPoints
<1>2. CASE PrepareReturns(t)
  BY <1>2, <1>c, InStep DEF PrepareReturns, Position
<1>3. CASE FoldReturns(t)
  BY <1>3, <1>c, InStep DEF FoldReturns, Position
<1>4. CASE ProfileReturns(t)
  <2>1. run[t].pc = "profile" /\ k0 \in {"TaskStarted"} \cup Between /\ run[t].hot = FALSE
    BY <1>4, InStep DEF ProfileReturns, Position
  <2>2. Position("head", run[t], k0) /\ Position("fail", run[t], k0)
    BY <2>1 DEF Position, Ended, Between, Stream!Terminal
  <2> QED
    BY <1>4, <1>q, <2>1, <2>2, GoSilently DEF ProfileReturns
<1>s. ASSUME run[t].pc = "stream"
      PROVE  /\ k0 \in Streaming /\ ToolsAgree(run[t], k0) /\ last[t].round = run[t].round
             /\ \A k \in {"AssistantMessageDelta", "ModelRoundFinished"} : NextIs(t, k)
             /\ \A p \in {"retry", "roundEnd", "toolStart"} : Position(p, run[t], k0)
             /\ Position("stream", run[t], "AssistantMessageDelta")
             /\ Position("roundEnd", run[t], "ModelRoundFinished")
             /\ Position("fail", run[t], k0)
  <2>1. k0 \in Streaming /\ ToolsAgree(run[t], k0) /\ last[t].round = run[t].round
    BY <1>s, InStep DEF Position
  <2>2. \A k \in {"AssistantMessageDelta", "ModelRoundFinished"} : NextIs(t, k)
    BY <2>1 DEF Streaming, NextIs, Stream!MayFollow, Stream!Streams, Stream!InRound, Stream!Ev
  <2>3. \A p \in {"retry", "roundEnd", "toolStart"} : Position(p, run[t], k0)
    BY <2>1 DEF Position, Ended
  <2>4. Position("stream", run[t], "AssistantMessageDelta")
        /\ Position("roundEnd", run[t], "ModelRoundFinished")
    BY DEF Position, Ended, Streaming, ToolsAgree
  <2>5. Position("fail", run[t], k0)
    BY <2>1 DEF Position, Ended, Streaming, Stream!Terminal
  <2> QED
    BY <2>1, <2>2, <2>3, <2>4, <2>5
<1>5. CASE ChunkCanceled(t)
  BY <1>5, <1>s, ExitSilently DEF ChunkCanceled, Streaming
<1>6. CASE ChunkDelta(t)
  <2>1. run[t].pc = "stream" /\ run' = run /\ Publish(t, "AssistantMessageDelta")
    BY <1>6 DEF ChunkDelta
  <2>2. Position("stream", run'[t], "AssistantMessageDelta")
    BY <2>1, <1>s
  <2> QED
    BY <1>k, <1>q, <1>s, <2>1, <2>2, MoveWith DEF AwaitPoints
<1>7. CASE ChunkToolCalls(t)
  <2>1. ASSUME NEW n \in 1 .. MaxTools - run[t].results,
               run' = [run EXCEPT ![t].pc = "toolStart", ![t].todo = n], Silent
        PROVE  OwnStep(t)
    <3>1. run'[t].pc = "toolStart" /\ SameLocals(t)
      BY <2>1 DEF TypeInv, TypeOK, Locals, SameLocals
    <3>2. Position("toolStart", run'[t], k0)
      BY <1>7, <1>s, <3>1 DEF ChunkToolCalls, Position, SameLocals, ToolsAgree, Ended
    <3> QED
      BY <1>7, <1>q, <2>1, <3>1, <3>2, MoveSilently DEF ChunkToolCalls, SameLocals
  <2>2. ASSUME Goto(t, "fail"), Silent PROVE OwnStep(t)
    BY <1>7, <1>q, <1>s, <2>2, GoSilently DEF ChunkToolCalls
  <2> QED
    BY <1>7, <2>1, <2>2 DEF ChunkToolCalls
<1>8. CASE ChunkError(t)
  BY <1>8, <1>q, <1>s, GoSilently DEF ChunkError
<1>9. CASE ChunkFinished(t)
  BY <1>9, <1>k, <1>q, <1>s, GoWith DEF ChunkFinished
<1>10. CASE StreamEnds(t)
  BY <1>10, <1>q, <1>s, GoSilently DEF StreamEnds
<1>11. CASE ToolReturns(t)
  <2> DEFINE p == IF run[t].todo > 1 THEN "toolStart" ELSE "stream"
  <2>1. run[t].pc = "tool" /\ k0 = "ToolCallStarted" /\ last[t].round = run[t].round
    BY <1>11, InStep DEF ToolReturns, Position
  <2>2. NextIs(t, "ToolCallFinished")
    BY <2>1 DEF NextIs, Stream!MayFollow, Stream!Streams, Stream!InRound, Stream!Ev
  <2>3. /\ run'[t].pc = p /\ run'[t].round = run[t].round
        /\ run'[t].results = run[t].results + 1
    BY <1>11 DEF ToolReturns, TypeInv, TypeOK, Locals
  <2>4. run'[t].results # 0
    BY <2>3, LocalsFields
  <2>5. Position(p, run'[t], "ToolCallFinished")
    BY <2>4 DEF Position, Streaming, ToolsAgree, Ended
  <2> QED
    BY <1>11, <1>k, <1>q, <2>2, <2>3, <2>5, MoveWith DEF ToolReturns, AwaitPoints
<1> QED
  BY <1>1, <1>2, <1>3, <1>4, <1>5, <1>6, <1>7, <1>8, <1>9, <1>10, <1>11 DEF Await

\* So does every step between awaits; the guard needs to know that nothing
\* terminal has been published by a task it finds canceled.
LEMMA LocalGrammar ==
  ASSUME TypeInv, SafeInv, GrammarInv, NEW t \in Tasks, Local(t)
  PROVE  OwnStep(t)
<1> USE DEF At_
<1> DEFINE k0 == last[t].kind
<1>k. {"ContextCompactionStarted", "ModelRequestStarted", "ModelRequestRetrying",
       "ToolCallStarted", "Finished", "Failed", "Canceled"} \subseteq Stream!Kinds
  BY DEF Stream!Kinds, Stream!InRound, Stream!Compaction, Stream!Terminal
<1>q. RunnerSteps \ {"request"} = AwaitPoints \cup
        {"head", "toolStart", "retry", "roundEnd", "complete", "fail",
         "none", "exit", "guard", "gone"}
  BY DEF RunnerSteps, Running, AwaitPoints
<1>f. /\ run[t].round \in 0 .. MaxRounds /\ run[t].results \in 0 .. MaxTools
      /\ run[t] \in Locals /\ last[t].round \in 0 .. MaxRounds
  BY LocalsFields DEF TypeInv, TypeOK, Stream!Event
<1>1. CASE LoopHead(t)
  <2>1. /\ run[t].pc = "head" /\ last[t].round = run[t].round
        /\ k0 \in {"TaskStarted", "ModelRoundFinished", "AssistantMessageDelta",
                   "ToolCallFinished"} \cup Between
        /\ run[t].hot = TRUE /\ run[t].folded = FALSE => k0 \notin {"TaskStarted"} \cup Between
    BY <1>1, InStep DEF LoopHead, Position
  <2>2. CASE run[t].hot = TRUE /\ run[t].folded = FALSE
    <3>1. /\ Publish(t, "ContextCompactionStarted")
          /\ run'[t].pc = "fold" /\ run'[t].folded = TRUE /\ run'[t].round = run[t].round
      BY <1>1, <2>2 DEF LoopHead, TypeInv, TypeOK, Locals
    <3>2. NextIs(t, "ContextCompactionStarted")
      BY <2>1, <2>2 DEF NextIs, Stream!MayFollow, Stream!Compacts, Stream!Ev, Between
    <3>3. Position("fold", run'[t], "ContextCompactionStarted")
      BY <3>1 DEF Position, Ended
    <3>4. "ContextCompactionStarted" \in Stream!Kinds
      BY <1>k
    <3> QED
      BY <1>q, <3>1, <3>2, <3>3, <3>4, MoveWith DEF AwaitPoints
  <2>3. CASE ~(run[t].hot = TRUE /\ run[t].folded = FALSE)
    <3>0. ~(run[t].hot /\ ~run[t].folded)
      BY <1>f, <2>3 DEF Locals
    <3>1. /\ Silent /\ run'[t].pc = "request" /\ run'[t].results = 0
          /\ run'[t].round = run[t].round + 1
      BY <1>1, <3>0 DEF LoopHead, TypeInv, TypeOK, Locals
    <3>2. last'[t] = last[t]
      BY <3>1, StepFields
    <3>3. Announced(run'[t], last'[t].kind)
      BY <2>1, <3>1, <3>2 DEF Announced, Position, Ended, Between
    <3>4. RoundOf(run'[t], last'[t])
      BY <1>f, <2>1, <3>1, <3>2 DEF RoundOf, Between
    <3> QED
      BY <3>1, <3>3, <3>4 DEF OwnStep, LegalStep
  <2> QED
    BY <2>2, <2>3
<1>2. CASE SendRequest(t)
  <2>1. /\ run[t].pc = "request" /\ run[t].results = 0
        /\ k0 \in {"TaskStarted", "ModelRoundFinished", "AssistantMessageDelta",
                   "ToolCallFinished", "ModelRequestRetrying"} \cup Between
        /\ k0 # "ModelRequestRetrying" => last[t].round = run[t].round - 1
        /\ k0 = "ModelRequestRetrying" => last[t].round = run[t].round
    BY <1>2 DEF SendRequest, GrammarInv, StreamInv, Announced, Position, RoundOf
  <2>2. NextIs(t, "ModelRequestStarted")
    BY <1>f, <2>1 DEF NextIs, Stream!MayFollow, Stream!Requests, Stream!Ev, Between
  <2>3. \A p \in {"stream", "retry"} : Position(p, run[t], "ModelRequestStarted")
    BY <2>1 DEF Position, Streaming, ToolsAgree, Ended
  <2>4. "ModelRequestStarted" \in Stream!Kinds
    BY <1>k
  <2> QED
    BY <1>2, <1>q, <2>2, <2>3, <2>4, GoWith DEF SendRequest, AwaitPoints
<1>3. CASE Retry(t)
  <2>1. run[t].pc = "retry" /\ k0 \in Streaming /\ last[t].round = run[t].round
    BY <1>3, InStep DEF Retry, Position
  <2>2. CASE run[t].retries < MaxRetries
    <3>1. /\ Publish(t, "ModelRequestRetrying") /\ run'[t].pc = "request"
          /\ run'[t].round = run[t].round /\ run'[t].results = 0
      BY <1>3, <2>2 DEF Retry, TypeInv, TypeOK, Locals
    <3>2. NextIs(t, "ModelRequestRetrying")
      BY <2>1 DEF NextIs, Stream!MayFollow, Stream!Streams, Stream!InRound, Stream!Ev, Streaming
    <3>3. last'[t].kind = "ModelRequestRetrying" /\ last'[t].round = run[t].round
      BY <1>k, <3>1, StepFields
    <3>4. Announced(run'[t], last'[t].kind) /\ RoundOf(run'[t], last'[t])
      BY <3>1, <3>3 DEF Announced, RoundOf, Position, Ended
    <3> QED
      BY <1>k, <3>1, <3>2, <3>4 DEF OwnStep, LegalStep, NextIs
  <2>3. CASE ~(run[t].retries < MaxRetries)
    <3>1. Position("fail", run[t], k0)
      BY <2>1 DEF Position, Streaming, Ended, Stream!Terminal
    <3> QED
      BY <1>3, <1>q, <2>1, <2>3, <3>1, GoSilently DEF Retry
  <2> QED
    BY <2>2, <2>3
<1>4. CASE StartTool(t)
  <2>1. run[t].pc = "toolStart" /\ k0 \in Streaming /\ last[t].round = run[t].round
    BY <1>4, InStep DEF StartTool, Position
  <2>2. NextIs(t, "ToolCallStarted")
    BY <2>1 DEF NextIs, Stream!MayFollow, Stream!Streams, Stream!InRound, Stream!Ev, Streaming
  <2>3. Position("tool", run[t], "ToolCallStarted")
    BY DEF Position, Ended
  <2> QED
    BY <1>4, <1>k, <1>q, <2>2, <2>3, GoWith DEF StartTool, AwaitPoints
<1>5. CASE EndRound(t)
  <2>1. /\ run[t].pc = "roundEnd" /\ k0 \in Streaming \cup {"ModelRoundFinished"}
        /\ ToolsAgree(run[t], k0) /\ last[t].round = run[t].round
    BY <1>5, InStep DEF EndRound, Position
  <2>2. CASE state[t] = "Canceled"
    BY <1>5, <2>1, <2>2, ExitSilently DEF EndRound, Streaming
  <2>3. CASE state[t] # "Canceled"
    <3> DEFINE p == IF run[t].results = 0 THEN "complete"
                    ELSE IF run[t].round < MaxRounds THEN "head" ELSE "fail"
    <3>1. PICK h \in BOOLEAN : run' = [run EXCEPT ![t].hot = h, ![t].pc = p]
      BY <1>5, <2>3 DEF EndRound
    <3>2. /\ run'[t].pc = p /\ run'[t].round = run[t].round
          /\ run'[t].results = run[t].results
      BY <3>1 DEF TypeInv, TypeOK, Locals
    <3>3. Position(p, run'[t], k0)
      BY <2>1, <3>2 DEF Position, Streaming, ToolsAgree, Between, Ended, Stream!Terminal
    <3> QED
      BY <1>5, <1>q, <2>1, <3>2, <3>3, MoveSilently DEF EndRound
  <2> QED
    BY <2>2, <2>3
<1>6. CASE Complete(t)
  <2>1. /\ run[t].pc = "complete" /\ run[t].results = 0 /\ last[t].round = run[t].round
        /\ k0 \in Streaming \cup {"ModelRoundFinished"} /\ k0 # "ToolCallFinished"
    BY <1>6, InStep DEF Complete, Position, ToolsAgree
  <2>2. NextIs(t, "Finished")
    BY <2>1 DEF NextIs, Stream!MayFollow, Stream!Closes, Stream!Ev, Streaming
  <2>3. run'[t].pc = "exit" /\ run'[t].round = run[t].round
    BY <1>6, StepFields DEF Complete
  <2>4. Position("exit", run'[t], "Finished")
    BY DEF Position, Ended
  <2> QED
    BY <1>6, <1>k, <1>q, <2>2, <2>3, <2>4, MoveWith DEF Complete
<1>7. CASE Fail(t)
  <2>1. /\ run[t].pc = "fail" /\ last[t].round = run[t].round
        /\ k0 \notin Stream!Terminal \cup {"None", "ToolCallStarted", "ModelRequestRetrying"}
    BY <1>7, InStep DEF Fail, Position
  <2>2. NextIs(t, "Failed")
    BY <2>1 DEF NextIs, Stream!MayFollow, Stream!Closes, Stream!Ev
  <2>3. run'[t].pc = "exit" /\ run'[t].round = run[t].round
    BY <1>7, StepFields DEF Fail
  <2>4. Position("exit", run'[t], "Failed")
    BY DEF Position, Ended
  <2> QED
    BY <1>7, <1>k, <1>q, <2>2, <2>3, <2>4, MoveWith DEF Fail
<1>8. CASE GuardControl(t)
  <2>1. run[t].pc = "exit" /\ k0 \notin {"None", "ModelRequestRetrying"}
    BY <1>8, InStep DEF GuardControl, Position, Ended
  <2>2. Position("guard", run[t], k0)
    BY <2>1 DEF Position, Ended
  <2> QED
    BY <1>8, <1>q, <2>1, <2>2, GoSilently DEF GuardControl
<1>9. CASE GuardEvent(t)
  <2>1. /\ run[t].pc = "guard" /\ last[t].round = run[t].round
        /\ k0 \notin {"None", "ModelRequestRetrying"}
    BY <1>9, InStep DEF GuardEvent, Position, Ended
  <2>2. Position("gone", run[t], k0) /\ Position("gone", run[t], "Canceled")
    BY <2>1 DEF Position, Ended
  <2>3. CASE state[t] = "Canceled"
    <3>1. k0 \notin Stream!Terminal
      BY <2>1, <2>3 DEF SafeInv, SettledInv, Stream!IsTerminal, Stream!Terminal, StateOf
    <3>2. NextIs(t, "Canceled")
      BY <2>1, <3>1 DEF NextIs, Stream!MayFollow, Stream!Closes, Stream!Ev
    <3> QED
      BY <1>9, <1>k, <1>q, <2>2, <2>3, <3>2, GoWith DEF GuardEvent
  <2>4. CASE state[t] # "Canceled"
    BY <1>9, <1>q, <2>1, <2>2, <2>4, GoSilently DEF GuardEvent
  <2> QED
    BY <2>3, <2>4
<1> QED
  BY <1>1, <1>2, <1>3, <1>4, <1>5, <1>6, <1>7, <1>8, <1>9 DEF Local

\* An aborted runner is dropped at an await, in the middle of its stream.
LEMMA DropGrammar ==
  ASSUME TypeInv, GrammarInv, NEW t \in Tasks, Drop(t)
  PROVE  OwnStep(t)
<1>1. /\ run[t].pc \in AwaitPoints /\ run[t].pc # "request"
      /\ Position(run[t].pc, run[t], last[t].kind)
  BY InStep DEF Drop, AwaitPoints
<1>2. last[t].kind \notin {"None", "ModelRequestRetrying"}
  BY <1>1 DEF Position, AwaitPoints, Between, Streaming
<1> QED
  BY <1>1, <1>2, ExitSilently DEF Drop

\* Starting a task opens its stream; a cancellation publishes nothing.
LEMMA CallGrammar ==
  ASSUME TypeInv, SafeInv, GrammarInv, NEW t \in Tasks,
         \/ StartTask(t) \/ Starter(t)
         \/ \E c \in Callers : CancelMark(c, t) \/ CancelAbort(c)
  PROVE  GrammarInv' /\ [Stream!Next]_(Stream!streamVars)
<1> USE DEF TypeInv, TypeOK
<1>1. CASE StartTask(t)
  <2>1. /\ last[t] = Stream!NoEvent /\ run[t].pc = "none" /\ run[t].round = 0
        /\ run' = run /\ start'[t] = "announced" /\ Publish(t, "TaskStarted")
        /\ \A u \in Tasks \ {t} : last'[u] = last[u] /\ start'[u] = start[u]
    BY <1>1, LocalsFields
    DEF StartTask, Publish, GrammarInv, StreamInv, SafeInv, SettledInv, NotSpawned, InBounds
  <2>2. last'[t] = Stream!Ev("TaskStarted", 0)
    BY <2>1 DEF Publish
  <2>3. StreamInv(t)'
    BY <2>1, <2>2 DEF StreamInv, Announced, Position, RoundOf, Ended, Stream!Ev
  <2>4. ASSUME NEW u \in Tasks, u # t PROVE StreamInv(u)'
    BY <2>1, <2>4 DEF GrammarInv, StreamInv, Announced, RoundOf
  <2>5. Stream!Next
    <3>1. "TaskStarted" \in Stream!Kinds
      BY DEF Stream!Kinds
    <3>2. Stream!MayFollow(last[t], Stream!Ev("TaskStarted", run[t].round))
      BY <2>1 DEF Stream!MayFollow, Stream!Opens
    <3> QED
      BY <2>1, <3>1, <3>2, EmitStep
  <2> QED
    BY <2>3, <2>4, <2>5 DEF GrammarInv
<1>2. CASE SpawnRunner(t)
  <2>1. /\ last[t].kind = "TaskStarted" /\ run[t].pc = "none" /\ run[t].round = 0
        /\ last[t].round = 0 /\ Silent /\ run'[t] = At("precheck", 0)
        /\ start'[t] = "spawned"
        /\ \A u \in Tasks \ {t} : run'[u] = run[u] /\ start'[u] = start[u]
    BY <1>2, LocalsFields
    DEF SpawnRunner, GrammarInv, StreamInv, RoundOf, SafeInv, SettledInv, NotSpawned, InBounds
  <2>2. StreamInv(t)'
    BY <2>1 DEF StreamInv, Announced, Position, RoundOf, At, Ended, Silent
  <2>3. ASSUME NEW u \in Tasks, u # t PROVE StreamInv(u)'
    BY <2>1, <2>3 DEF GrammarInv, StreamInv, Announced, RoundOf, Silent
  <2> QED
    BY <2>1, <2>2, <2>3 DEF GrammarInv, Silent, Stream!streamVars
<1>3. ASSUME UNCHANGED run, Silent,
             \A u \in Tasks : start'[u] \in {"new", "announced"} => start'[u] = start[u]
      PROVE  GrammarInv' /\ [Stream!Next]_(Stream!streamVars)
  BY <1>3 DEF GrammarInv, StreamInv, Announced, RoundOf, Silent, Stream!streamVars
<1>4. CASE RegisterControl(t) \/ FinishStart(t)
  BY <1>3, <1>4 DEF RegisterControl, FinishStart
<1>5. CASE \E c \in Callers : CancelMark(c, t) \/ CancelAbort(c)
  BY <1>3, <1>5 DEF CancelMark, CancelAbort
<1> QED
  BY <1>1, <1>2, <1>4, <1>5 DEF Starter

\* The events of a task obey the grammar, for every number of tasks, callers,
\* rounds, retries and tool calls: the runtime implements TaskStream.
THEOREM RuntimeImplementsStream ==
  ASSUME AllowResume = FALSE
  PROVE  Spec => StreamSpec
<1>1. Init => GrammarInv /\ Stream!Init
  BY DEF Init, GrammarInv, StreamInv, Announced, Position, RoundOf, At, Ended,
         Stream!Init, Stream!NoEvent
<1>2. TypeInv /\ SafeInv /\ GrammarInv /\ [Next]_vars
        => GrammarInv' /\ [Stream!Next]_(Stream!streamVars)
  <2> SUFFICES ASSUME TypeInv, SafeInv, GrammarInv, [Next]_vars
               PROVE  GrammarInv' /\ [Stream!Next]_(Stream!streamVars)
    OBVIOUS
  <2>1. ASSUME NEW t \in Tasks, Await(t) \/ Local(t) \/ Drop(t)
        PROVE  GrammarInv' /\ [Stream!Next]_(Stream!streamVars)
    <3>1. OwnStep(t)
      BY <2>1, AwaitGrammar, LocalGrammar, DropGrammar
    <3>2. InLoop(t) \/ Leaves(t) \/ GuardControl(t) \/ GuardEvent(t)
      BY <2>1, AwaitMoves, LocalMoves DEF Drop, Leaves, Running
    <3>3. run[t].pc # "none"
      BY <3>2 DEF InLoop, Leaves, GuardControl, GuardEvent, At_, Running, AwaitPoints
    <3>4. start[t] \notin NotSpawned
      BY <3>3 DEF SafeInv, SettledInv
    <3>5. GrammarInv'
      BY <3>1, <3>2, <3>4, OwnGrammar DEF OwnStep
    <3>6. [Stream!Next]_(Stream!streamVars)
      BY <3>1, EmitStep DEF OwnStep, LegalStep, Silent, Stream!streamVars
    <3> QED
      BY <3>5, <3>6
  <2>2. ASSUME NEW t \in Tasks, StartTask(t) \/ Starter(t)
        PROVE  GrammarInv' /\ [Stream!Next]_(Stream!streamVars)
    BY <2>2, CallGrammar
  <2>3. ASSUME NEW c \in Callers, NEW t \in Tasks, CancelAbort(c) \/ CancelMark(c, t)
        PROVE  GrammarInv' /\ [Stream!Next]_(Stream!streamVars)
    BY <2>3, CallGrammar
  <2>4. ASSUME NEW c \in Callers, CancelAbort(c) PROVE \E t \in Tasks : TRUE
    BY <2>4 DEF CancelAbort, TypeInv, TypeOK
  <2>5. ASSUME NEW t \in Tasks, ResumeTask(t) PROVE FALSE
    BY <2>5 DEF ResumeTask
  <2>6. CASE UNCHANGED vars
    BY <2>6 DEF vars, GrammarInv, StreamInv, Announced, RoundOf, Stream!streamVars
  <2> QED
    BY <2>1, <2>2, <2>3, <2>4, <2>5, <2>6 DEF Next
<1> QED
  BY <1>1, <1>2, TypeCorrect, Safe, PTL DEF Spec, StreamSpec, Stream!Spec

-----------------------------------------------------------------------------
(* What the grammar entails for every stream of events.                     *)

OneTerminalEvent == Stream!OneTerminalEvent

\* Nothing follows a terminal event.
LEMMA TerminalIsLast ==
  ASSUME NEW l, l.kind \in Stream!Terminal, NEW e
  PROVE  ~Stream!MayFollow(l, e)
BY DEF Stream!MayFollow, Stream!Opens, Stream!Compacts, Stream!Requests, Stream!Streams,
       Stream!Closes, Stream!NoEvent, Stream!Ev, Stream!Terminal, Stream!InRound

\* The grammar keeps its types and ends a stream at most once.
LEMMA StreamInvariance == StreamSpec => [](Stream!TypeOK /\ OneTerminalEvent)
<1> USE DEF OneTerminalEvent
<1>1. Stream!Init => Stream!TypeOK /\ OneTerminalEvent
  <2>1. 0 \in 0 .. MaxRounds
    BY AgentAssumption
  <2> QED
    BY <2>1 DEF Stream!Init, Stream!TypeOK, Stream!OneTerminalEvent, Stream!NoEvent,
         Stream!Event, Stream!Kinds, Stream!IsTerminal, Stream!Terminal
<1>2. Stream!TypeOK /\ OneTerminalEvent /\ [Stream!Next]_(Stream!streamVars)
        => (Stream!TypeOK /\ OneTerminalEvent)'
  <2> SUFFICES ASSUME Stream!TypeOK, OneTerminalEvent, [Stream!Next]_(Stream!streamVars)
               PROVE  (Stream!TypeOK /\ OneTerminalEvent)'
    OBVIOUS
  <2>1. CASE UNCHANGED Stream!streamVars
    BY <2>1 DEF Stream!streamVars, Stream!TypeOK, Stream!OneTerminalEvent
  <2>2. CASE Stream!Next
    <3>1. PICK t \in Tasks, e \in Stream!Event : Stream!Emit(t, e)
      BY <2>2 DEF Stream!Next
    <3>2. ~Stream!IsTerminal(last[t]) /\ ends[t] = 0
      BY <3>1, TerminalIsLast DEF Stream!Emit, Stream!IsTerminal, Stream!OneTerminalEvent
    <3>3. Stream!TypeOK'
      BY <3>1 DEF Stream!Emit, Stream!TypeOK
    <3>4. last'[t] = e /\ ends'[t] = IF Stream!IsTerminal(e) THEN 1 ELSE 0
      BY <3>1, <3>2 DEF Stream!Emit, Stream!TypeOK
    <3>5. \A u \in Tasks \ {t} : last'[u] = last[u] /\ ends'[u] = ends[u]
      BY <3>1 DEF Stream!Emit, Stream!TypeOK
    <3> QED
      BY <3>3, <3>4, <3>5 DEF Stream!OneTerminalEvent, Stream!IsTerminal
  <2> QED
    BY <2>1, <2>2
<1> QED
  BY <1>1, <1>2, PTL DEF StreamSpec, Stream!Spec

\* A stream that follows the grammar has at most one terminal event, and it is
\* the newest one (event.rs:217-223).
THEOREM OneTerminalEventTheorem == StreamSpec => []OneTerminalEvent
BY StreamInvariance, PTL

\* No task publishes two terminal events, or anything behind one, however its
\* end and its cancellation race (runner.rs:75-98, agent.rs:61-89).
THEOREM OneTerminalEventOfTask ==
  ASSUME AllowResume = FALSE
  PROVE  Spec => []OneTerminalEvent
BY OneTerminalEventTheorem, RuntimeImplementsStream, PTL
=============================================================================
