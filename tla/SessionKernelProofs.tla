------------------------ MODULE SessionKernelProofs -------------------------
(***************************************************************************)
(* For every number of tasks, of sessions, of events and of rounds, with    *)
(* failing storage, deleted sessions and crashes: two tasks never work on   *)
(* one session at a time, the user interface sees a stream of the runtime's *)
(* grammar (SessionKernel implements TaskStream under the mapping Ui), the  *)
(* rows of a session are stored in the order of what happened, each model   *)
(* call the bridge heard of is logged once, when its outcome is known, and  *)
(* if storage works, a round that was announced is stored with the tool     *)
(* results it kept.                                                         *)
(***************************************************************************)
EXTENDS SessionKernel, FiniteSetTheorems, SequenceTheorems, TLAPS

-----------------------------------------------------------------------------
\* The shape of what the argument reads.
Shape ==
  /\ step \in [Tasks -> Steps]
  /\ owner \in [Tasks -> Sessions \cup {NoSession}]
  /\ bridge \in [Tasks -> [pc : BridgeStates, event : Message, left : Int]]

\* A bridge is only there for a start that returned, and a task that works on
\* a session has its mark in running_sessions.
Claims ==
  /\ \A t \in Tasks : bridge[t].pc # "none" => step[t] = "returned"
  /\ \A t \in Tasks : Active(t) => owner[t] \in running

ClaimInv == Shape /\ Claims /\ OneTaskPerSession

\* The steps of a start before the runtime knows of the task.
Starting == {"marked", "tools", "turn", "prompted", "assembled", "starting"}

\* Only who works on a session may release it.
Frees(t) == Active(t) /\ running' = running \ {owner[t]}

-----------------------------------------------------------------------------
\* A step that leaves owners, marks and activity alone keeps the claims.
LEMMA StutterKeeps ==
  ASSUME ClaimInv, UNCHANGED <<owner, running>>,
         step' \in [Tasks -> Steps],
         bridge' \in [Tasks -> [pc : BridgeStates, event : Message, left : Int]],
         \A t \in Tasks : Active(t)' => Active(t),
         \A t \in Tasks : bridge'[t].pc # "none" => step'[t] = "returned"
  PROVE  ClaimInv'
BY DEF ClaimInv, Shape, Claims, OneTaskPerSession

\* Who works on a session may let go of it: nobody else works on it.
LEMMA FreeKeeps ==
  ASSUME ClaimInv, NEW t \in Tasks, Frees(t), UNCHANGED owner, ~Active(t)',
         step' \in [Tasks -> Steps],
         bridge' \in [Tasks -> [pc : BridgeStates, event : Message, left : Int]],
         \A u \in Tasks \ {t} : Active(u)' => Active(u),
         \A u \in Tasks : bridge'[u].pc # "none" => step'[u] = "returned"
  PROVE  ClaimInv'
BY DEF ClaimInv, Shape, Claims, OneTaskPerSession, Frees

\* A failing start lets go of its session.
LEMMA RejectKeeps ==
  ASSUME ClaimInv, NEW t \in Tasks, step[t] \in Starting, Reject(t),
         UNCHANGED <<owner, bridge>>
  PROVE  ClaimInv'
<1> USE DEF ClaimInv, Shape, Claims
<1>1. step' = [step EXCEPT ![t] = "rejected"] /\ running' = running \ {owner[t]}
  BY DEF Reject, Goto
<1>2. step' \in [Tasks -> Steps] /\ step'[t] = "rejected" /\ \A u \in Tasks \ {t} : step'[u] = step[u]
  BY <1>1 DEF Steps
<1>3. bridge[t].pc = "none"
  BY DEF Starting
<1>4. Active(t) /\ ~Active(t)'
  BY <1>2, <1>3 DEF Active, Starting
<1>5. \A u \in Tasks \ {t} : Active(u)' => Active(u)
  BY <1>2 DEF Active
<1>6. \A u \in Tasks : bridge'[u].pc # "none" => step'[u] = "returned"
  BY <1>2, <1>3
<1> QED
  BY <1>1, <1>2, <1>4, <1>5, <1>6, FreeKeeps DEF Frees

\* A start that goes on keeps its claim.
LEMMA GotoKeeps ==
  ASSUME ClaimInv, NEW t \in Tasks, step[t] \in Starting,
         NEW p \in Starting, Goto(t, p), UNCHANGED <<owner, running, bridge>>
  PROVE  ClaimInv'
<1> USE DEF ClaimInv, Shape, Claims
<1>1. step' = [step EXCEPT ![t] = p] /\ p \in Steps
  BY DEF Goto, Starting, Steps
<1>2. step' \in [Tasks -> Steps] /\ step'[t] = p /\ \A u \in Tasks \ {t} : step'[u] = step[u]
  BY <1>1
<1>3. \A u \in Tasks : Active(u)' => Active(u)
  BY <1>2 DEF Active, Starting
<1>4. \A u \in Tasks : bridge'[u].pc # "none" => step'[u] = "returned"
  BY <1>2 DEF Starting
<1> QED
  BY <1>2, <1>3, <1>4, StutterKeeps

\* A bridge that moves on, without starting or ending, keeps the claim.
LEMMA MoveKeeps ==
  ASSUME ClaimInv, NEW t \in Tasks, bridge[t].pc \notin {"none", "done"},
         UNCHANGED <<step, owner, running>>,
         bridge' = bridge \/
           \E p \in BridgeStates, e \in Message, n \in Int : Move(t, p, e, n)
  PROVE  ClaimInv'
<1> USE DEF ClaimInv, Shape, Claims
<1>1. CASE bridge' = bridge
  BY <1>1 DEF Active, OneTaskPerSession
<1>2. CASE \E p \in BridgeStates, e \in Message, n \in Int : Move(t, p, e, n)
  <2>1. PICK p \in BridgeStates, e \in Message, n \in Int : Move(t, p, e, n)
    BY <1>2
  <2>2. bridge' = [bridge EXCEPT ![t] = [pc |-> p, event |-> e, left |-> n]]
    BY <2>1 DEF Move, At
  <2>3. bridge' \in [Tasks -> [pc : BridgeStates, event : Message, left : Int]]
    BY <2>2
  <2>4. \A u \in Tasks \ {t} : bridge'[u] = bridge[u]
    BY <2>2
  <2>5. \A u \in Tasks : Active(u)' => Active(u)
    BY <2>4 DEF Active
  <2>6. \A u \in Tasks : bridge'[u].pc # "none" => step'[u] = "returned"
    BY <2>4
  <2> QED
    BY <2>3, <2>5, <2>6, StutterKeeps
<1> QED
  BY <1>1, <1>2

-----------------------------------------------------------------------------
\* Every step of start_agent_task behind the claim.
LEMMA StartStepKeeps ==
  ASSUME ClaimInv, NEW t \in Tasks, StartStep(t)
  PROVE  ClaimInv'
<1> USE DEF bridgeVars
<1>1. CASE BuildTools(t)
  BY <1>1, RejectKeeps, GotoKeeps DEF BuildTools, Starting
<1>2. CASE ReadTurn(t)
  BY <1>2, RejectKeeps, GotoKeeps DEF ReadTurn, Starting
<1>3. CASE WritePrompt(t)
  BY <1>3, RejectKeeps, GotoKeeps DEF WritePrompt, Starting
<1>4. CASE AssembleContext(t)
  BY <1>4, RejectKeeps, GotoKeeps DEF AssembleContext, Starting
<1>5. CASE StartAgent(t)
  BY <1>5, GotoKeeps DEF StartAgent, Starting
<1>6. CASE SpawnBridge(t)
  <2> USE DEF ClaimInv, Shape, Claims
  <2>1. /\ step[t] = "starting" /\ step' = [step EXCEPT ![t] = "returned"]
        /\ bridge' = [bridge EXCEPT ![t] = [pc |-> "receiving", event |-> NoMessage, left |-> 0]]
        /\ UNCHANGED <<owner, running>>
    BY <1>6 DEF SpawnBridge, Goto, At
  <2>2. NoMessage \in Message
    <3>1. 0 \in 0 .. MaxRounds /\ 0 \in 0 .. MaxTools
      BY StreamAssumption, KernelAssumption
    <3> QED
      BY <3>1 DEF NoMessage, Message, Kinds
  <2>3. /\ step' \in [Tasks -> Steps]
        /\ bridge' \in [Tasks -> [pc : BridgeStates, event : Message, left : Int]]
    BY <2>1, <2>2 DEF Steps, BridgeStates
  <2>4. \A u \in Tasks \ {t} : bridge'[u] = bridge[u] /\ step'[u] = step[u]
    BY <2>1
  <2>5. Active(t) /\ step'[t] = "returned"
    BY <2>1 DEF Active
  <2>6. \A u \in Tasks : Active(u)' => Active(u)
    BY <2>4, <2>5 DEF Active
  <2>7. \A u \in Tasks : bridge'[u].pc # "none" => step'[u] = "returned"
    BY <2>4, <2>5
  <2> QED
    BY <2>1, <2>3, <2>6, <2>7, StutterKeeps
<1> QED
  BY <1>1, <1>2, <1>3, <1>4, <1>5, <1>6 DEF StartStep

\* The claim itself: a free session, or a refusal.
LEMMA ClaimKeeps ==
  ASSUME ClaimInv, NEW t \in Tasks, NEW s \in Sessions, ClaimSession(t, s)
  PROVE  ClaimInv'
<1> USE DEF ClaimInv, Shape, Claims
<1>1. /\ step[t] = "idle" /\ owner' = [owner EXCEPT ![t] = s] /\ running' = running \cup {s}
      /\ step' = [step EXCEPT ![t] = IF s \in running THEN "rejected" ELSE "marked"]
      /\ bridge' = bridge
  BY DEF ClaimSession, Goto, bridgeVars
<1>2. owner' \in [Tasks -> Sessions \cup {NoSession}] /\ step' \in [Tasks -> Steps]
  BY <1>1 DEF Steps
<1>3. \A u \in Tasks \ {t} : owner'[u] = owner[u] /\ (Active(u)' <=> Active(u))
  BY <1>1 DEF Active
<1>4. owner'[t] = s /\ s \in running' /\ (Active(t)' => s \notin running)
  BY <1>1 DEF Active
<1>5. Claims'
  <2>1. \A u \in Tasks : Active(u)' => owner'[u] \in running'
    BY <1>1, <1>3, <1>4
  <2>2. \A u \in Tasks : bridge'[u].pc # "none" => step'[u] = "returned"
    BY <1>1
  <2> QED
    BY <2>1, <2>2
<1>6. OneTaskPerSession'
  <2> SUFFICES ASSUME NEW u \in Tasks, NEW v \in Tasks,
                      Active(u)', Active(v)', owner'[u] = owner'[v]
               PROVE  u = v
    BY DEF OneTaskPerSession
  <2>1. CASE u # t /\ v # t
    BY <2>1, <1>3 DEF OneTaskPerSession
  <2>2. CASE u = t /\ v # t
    BY <2>2, <1>3, <1>4
  <2>3. CASE u # t /\ v = t
    BY <2>3, <1>3, <1>4
  <2> QED
    BY <2>1, <2>2, <2>3
<1> QED
  BY <1>1, <1>2, <1>5, <1>6

\* What the bridge does: hearing, persisting, settling and letting go.
LEMMA BridgeStepKeeps ==
  ASSUME ClaimInv, NEW t \in Tasks, BridgeStep(t)
  PROVE  ClaimInv'
<1> USE DEF ClaimInv, Shape, Claims
<1>1. 0 \in 0 .. MaxRounds /\ 0 \in 0 .. MaxTools /\ MaxTools \in Nat
  BY StreamAssumption, KernelAssumption
<1>2. NoMessage \in Message
  BY <1>1 DEF NoMessage, Message, Kinds
<1>3. CASE HearTerminal(t) \/ HearClosed(t)
  <2>1. /\ bridge[t].pc = "receiving" /\ Move(t, "finishing", NoMessage, 0)
        /\ UNCHANGED <<step, owner, running>>
    BY <1>3 DEF HearTerminal, HearClosed, Heard, Receives, BridgeOnly, startVars
  <2> QED
    BY <1>2, <2>1, MoveKeeps DEF BridgeStates
<1>4. CASE HearRequest(t) \/ HearRetry(t) \/ HearOther(t)
  <2>1. bridge[t].pc = "receiving" /\ UNCHANGED <<bridge, step, owner, running>>
    BY <1>4 DEF HearRequest, HearRetry, HearOther, Heard, Receives, BridgeOnly, startVars
  <2> QED
    BY <2>1, MoveKeeps
<1>5. CASE HearRound(t)
  <2>1. PICK e \in Message :
          /\ bridge[t].pc = "receiving" /\ UNCHANGED <<step, owner, running>>
          /\ Move(t, "persisting", e, e.tools + 1) \/ Move(t, "settling", e, 0)
    BY <1>5 DEF HearRound, Heard, Receives, BridgeOnly, startVars
  <2>2. e.tools + 1 \in Int
    BY <1>1 DEF Message
  <2> QED
    BY <2>1, <2>2, MoveKeeps DEF BridgeStates
<1>6. CASE PersistRow(t)
  <2>1. /\ bridge[t].pc = "persisting" /\ UNCHANGED <<step, owner, running>>
        /\ \/ Move(t, "persisting", bridge[t].event, bridge[t].left - 1)
           \/ Move(t, "settling", bridge[t].event, bridge[t].left - 1)
           \/ Move(t, "settling", bridge[t].event, 0)
    BY <1>6 DEF PersistRow, BridgeOnly, startVars
  <2>2. bridge[t].event \in Message /\ bridge[t].left - 1 \in Int
    OBVIOUS
  <2> QED
    BY <2>1, <2>2, MoveKeeps DEF BridgeStates
<1>7. CASE SettleRound(t)
  <2>1. /\ bridge[t].pc = "settling" /\ UNCHANGED <<step, owner, running>>
        /\ Move(t, "receiving", NoMessage, 0)
    BY <1>7 DEF SettleRound, BridgeOnly, startVars
  <2> QED
    BY <1>2, <2>1, MoveKeeps DEF BridgeStates
<1>8. CASE ReleaseSession(t)
  <2>1. /\ bridge[t].pc = "finishing" /\ UNCHANGED <<step, owner>>
        /\ bridge' = [bridge EXCEPT ![t] = [pc |-> "done", event |-> NoMessage, left |-> 0]]
        /\ running' = running \ {owner[t]}
    BY <1>8 DEF ReleaseSession, Move, At, startVars
  <2>2. bridge' \in [Tasks -> [pc : BridgeStates, event : Message, left : Int]]
    BY <1>2, <2>1 DEF BridgeStates
  <2>3. step[t] = "returned" /\ Active(t) /\ ~Active(t)'
    BY <2>1 DEF Active
  <2>4. \A u \in Tasks \ {t} : bridge'[u] = bridge[u]
    BY <2>1
  <2>5. \A u \in Tasks \ {t} : Active(u)' => Active(u)
    BY <2>1, <2>4 DEF Active
  <2>6. \A u \in Tasks : bridge'[u].pc # "none" => step'[u] = "returned"
    BY <2>1, <2>3, <2>4
  <2> QED
    BY <2>1, <2>2, <2>3, <2>5, <2>6, FreeKeeps DEF Frees
<1> QED
  BY <1>3, <1>4, <1>5, <1>6, <1>7, <1>8 DEF BridgeStep

\* The process dies: nobody works on any session.
LEMMA CrashKeeps ==
  ASSUME ClaimInv, Crash
  PROVE  ClaimInv'
<1> USE DEF ClaimInv, Shape, Claims
<1>1. 0 \in 0 .. MaxRounds /\ 0 \in 0 .. MaxTools
  BY StreamAssumption, KernelAssumption
<1>2. Idle \in [pc : BridgeStates, event : Message, left : Int] /\ Idle.pc = "none"
  BY <1>1 DEF Idle, At, NoMessage, Message, Kinds, BridgeStates
<1>3. /\ step' = [t \in Tasks |-> IF step[t] = "idle" THEN "idle" ELSE "lost"]
      /\ bridge' = [t \in Tasks |-> Idle] /\ owner' = owner
  BY DEF Crash
<1>4. Shape'
  BY <1>2, <1>3 DEF Steps
<1>5. \A t \in Tasks : ~Active(t)'
  BY <1>3 DEF Active
<1>6. \A t \in Tasks : bridge'[t].pc = "none"
  BY <1>2, <1>3
<1> QED
  BY <1>4, <1>5, <1>6 DEF OneTaskPerSession

\* The claims hold in every reachable state.
LEMMA ClaimInvariance == KernelSpec => []ClaimInv
<1>1. KernelInit => ClaimInv
  <2> SUFFICES ASSUME KernelInit PROVE ClaimInv
    OBVIOUS
  <2>1. 0 \in 0 .. MaxRounds /\ 0 \in 0 .. MaxTools
    BY StreamAssumption, KernelAssumption
  <2>2. Idle \in [pc : BridgeStates, event : Message, left : Int] /\ Idle.pc = "none"
    BY <2>1 DEF Idle, At, NoMessage, Message, Kinds, BridgeStates
  <2>3. Shape
    BY <2>2 DEF KernelInit, Shape, Steps
  <2>4. \A t \in Tasks : ~Active(t) /\ bridge[t].pc = "none"
    BY <2>2 DEF KernelInit, Active
  <2> QED
    BY <2>3, <2>4 DEF ClaimInv, Claims, OneTaskPerSession
<1>2. ClaimInv /\ [KernelNext]_vars => ClaimInv'
  <2> SUFFICES ASSUME ClaimInv, [KernelNext]_vars PROVE ClaimInv'
    OBVIOUS
  <2> USE DEF startVars, bridgeVars
  <2>1. CASE UNCHANGED <<step, owner, running, bridge>>
    BY <2>1 DEF ClaimInv, Shape, Claims, OneTaskPerSession, Active
  <2>2. CASE \E t \in Tasks : AgentStep(t) \/ CancelTask(t)
    BY <2>1, <2>2 DEF AgentStep, HangUp, PublishEvent, CancelTask
  <2>3. CASE \E s \in Sessions : DeleteSession(s)
    BY <2>1, <2>3 DEF DeleteSession
  <2>4. CASE UNCHANGED vars
    BY <2>1, <2>4 DEF vars
  <2> QED
    BY <2>2, <2>3, <2>4, StartStepKeeps, ClaimKeeps, BridgeStepKeeps, CrashKeeps DEF KernelNext
<1> QED
  BY <1>1, <1>2, PTL DEF KernelSpec

\* Two tasks never work on one session at a time: the mark in running_sessions
\* is set before the first await of a start and taken back only by the start
\* that fails or by the bridge of the task (session_service.rs:48-61).
THEOREM OneTaskPerSessionTheorem == KernelSpec => []OneTaskPerSession
BY ClaimInvariance, PTL DEF ClaimInv

-----------------------------------------------------------------------------
(* The order of what the kernel hands on.                                   *)

Sent == [kind : Kinds, round : 0 .. MaxRounds, tools : Nat]

EventOf(m) == Ev(m.kind, m.round)

\* The events s may follow event l.
Legal(l, s) ==
  /\ s # <<>> => MayFollow(l, EventOf(s[1]))
  /\ \A i \in 1 .. Len(s) - 1 : MayFollow(EventOf(s[i]), EventOf(s[i + 1]))

Newest(l, s) == IF s = <<>> THEN l ELSE EventOf(s[Len(s)])

\* The newest event that left the channel.
Taken(t) == IF InHand(t) THEN EventOf(bridge[t].event) ELSE Newest(NoEvent, ui[t])

Unstarted == {"idle", "marked", "tools", "turn", "prompted", "assembled"}

StreamShape ==
  /\ chan \in [Tasks -> Seq(Sent)] /\ ui \in [Tasks -> Seq(Sent)]
  /\ last \in [Tasks -> Event] /\ results \in [Tasks -> Nat]

\* What was forwarded, what the bridge holds and what the channel holds is one
\* stream; while the sender lives its end is the task's newest event.
Wire(t) ==
  /\ InHand(t) => MayFollow(Newest(NoEvent, ui[t]), EventOf(bridge[t].event))
  /\ Legal(Taken(t), chan[t])
  /\ t \in open => last[t] = Newest(Taken(t), chan[t])
  /\ step[t] \in Unstarted => last[t] = NoEvent /\ ui[t] = <<>> /\ chan[t] = <<>> /\ t \notin open

WireInv == StreamShape /\ \A t \in Tasks : Wire(t)

-----------------------------------------------------------------------------
(* Streams.                                                                *)

LEMMA LegalTail ==
  ASSUME NEW l, NEW s \in Seq(Sent), s # <<>>, Legal(l, s)
  PROVE  /\ Head(s) \in Sent /\ Tail(s) \in Seq(Sent)
         /\ MayFollow(l, EventOf(Head(s)))
         /\ Legal(EventOf(Head(s)), Tail(s))
         /\ Newest(EventOf(Head(s)), Tail(s)) = Newest(l, s)
<1> DEFINE h == Head(s)  r == Tail(s)
<1>1. /\ h \in Sent /\ r \in Seq(Sent) /\ Len(r) = Len(s) - 1
      /\ \A i \in 1 .. Len(r) : r[i] = s[i + 1]
  BY HeadTailProperties
<1>2. Len(s) \in Nat \ {0} /\ h = s[1]
  BY EmptySeq
<1> HIDE DEF h, r
<1>3. Len(r) \in Nat /\ (r = <<>> <=> Len(r) = 0)
  BY <1>1, EmptySeq
<1>4. Legal(EventOf(h), r)
  <2>1. r # <<>> => MayFollow(EventOf(h), EventOf(r[1]))
    BY <1>1, <1>2, <1>3 DEF Legal
  <2>2. ASSUME NEW i \in 1 .. Len(r) - 1 PROVE MayFollow(EventOf(r[i]), EventOf(r[i + 1]))
    <3>1. i + 1 \in 1 .. Len(s) - 1 /\ r[i] = s[i + 1] /\ r[i + 1] = s[i + 1 + 1]
      BY <1>1, <1>2, <1>3
    <3> QED
      BY <3>1 DEF Legal
  <2> QED
    BY <2>1, <2>2 DEF Legal
<1>5. Newest(EventOf(h), r) = Newest(l, s)
  BY <1>1, <1>2, <1>3 DEF Newest
<1> QED
  BY <1>1, <1>2, <1>4, <1>5 DEF h, r, Legal

LEMMA LegalAppend ==
  ASSUME NEW l, NEW s \in Seq(Sent), Legal(l, s),
         NEW m \in Sent, MayFollow(Newest(l, s), EventOf(m))
  PROVE  /\ Append(s, m) \in Seq(Sent) /\ Legal(l, Append(s, m))
         /\ \A k : Newest(k, Append(s, m)) = EventOf(m)
<1> DEFINE a == Append(s, m)
<1>1. /\ a \in Seq(Sent) /\ a # <<>> /\ Len(a) = Len(s) + 1
      /\ \A i \in 1 .. Len(s) : a[i] = s[i]
      /\ a[Len(a)] = m
  BY AppendProperties
<1>2. Len(s) \in Nat /\ (s = <<>> <=> Len(s) = 0)
  BY EmptySeq
<1> HIDE DEF a
<1>3. MayFollow(l, EventOf(a[1]))
  BY <1>1, <1>2 DEF Legal, Newest
<1>4. ASSUME NEW i \in 1 .. Len(a) - 1 PROVE MayFollow(EventOf(a[i]), EventOf(a[i + 1]))
  <2>1. CASE i < Len(s)
    BY <1>1, <1>2, <2>1 DEF Legal
  <2>2. CASE i = Len(s)
    BY <1>1, <1>2, <2>2 DEF Newest
  <2> QED
    BY <1>1, <1>2, <2>1, <2>2
<1> QED
  BY <1>1, <1>3, <1>4 DEF a, Legal, Newest

LEMMA EmptyLegal == \A l : Legal(l, <<>>) /\ Newest(l, <<>>) = l
BY DEF Legal, Newest

-----------------------------------------------------------------------------
(* The invariant.                                                          *)

\* What a step leaves alone of a task.
Same(t) ==
  /\ chan'[t] = chan[t] /\ ui'[t] = ui[t] /\ last'[t] = last[t] /\ bridge'[t] = bridge[t]
  /\ (t \in open' => t \in open) /\ (step'[t] \in Unstarted => step[t] \in Unstarted)

LEMMA SameKeeps ==
  ASSUME NEW t \in Tasks, Wire(t), Same(t)
  PROVE  Wire(t)'
BY DEF Wire, Same, InHand, Taken, Newest, Legal

\* The bridge takes the next event out of the channel and forwards it.
LEMMA TakeAndForward ==
  ASSUME WireInv, ClaimInv, NEW t \in Tasks, NEW e \in Heard(t),
         Receives(t), Forward(t, e), BridgeOnly,
         bridge' = bridge \/ Move(t, "finishing", NoMessage, 0)
  PROVE  WireInv'
<1> USE DEF WireInv, StreamShape
<1>1. chan[t] # <<>> /\ bridge[t].pc = "receiving" /\ e = Head(chan[t])
  BY DEF Heard
<1>2. /\ e \in Sent /\ Tail(chan[t]) \in Seq(Sent)
      /\ Legal(EventOf(e), Tail(chan[t]))
      /\ Newest(EventOf(e), Tail(chan[t])) = Newest(Taken(t), chan[t])
  BY <1>1, LegalTail DEF Wire
<1>3. /\ chan' = [chan EXCEPT ![t] = Tail(chan[t])]
      /\ ui' = [ui EXCEPT ![t] = Append(ui[t], e)]
      /\ UNCHANGED <<last, results, open, step>>
  BY DEF Receives, Forward, BridgeOnly, agentVars, startVars
<1>4. ui[t] \in Seq(Sent)
  OBVIOUS
<1>5. /\ Append(ui[t], e) \in Seq(Sent) /\ Append(ui[t], e) # <<>>
      /\ Append(ui[t], e)[Len(Append(ui[t], e))] = e
  BY <1>2, <1>4, AppendProperties
<1>6. StreamShape'
  BY <1>2, <1>3, <1>5
<1>7. bridge'[t].pc \in {"receiving", "finishing"} /\ \A u \in Tasks \ {t} : bridge'[u] = bridge[u]
  BY <1>1 DEF Move, At, ClaimInv, Shape
<1>8. step[t] \notin Unstarted
  BY <1>1 DEF ClaimInv, Claims, Unstarted
<1>9. Wire(t)'
  <2>1. Taken(t)' = EventOf(e) /\ ~InHand(t)'
    BY <1>3, <1>5, <1>7 DEF Taken, InHand, Newest
  <2>2. chan'[t] = Tail(chan[t]) /\ last'[t] = last[t] /\ open' = open /\ step'[t] = step[t]
    BY <1>3
  <2>3. Legal(Taken(t), chan[t])'
    BY <1>2, <2>1, <2>2 DEF Legal
  <2>4. t \in open => last[t] = Newest(EventOf(e), Tail(chan[t]))
    BY <1>2 DEF Wire
  <2>5. Newest(Taken(t), chan[t])' = Newest(EventOf(e), Tail(chan[t]))
    BY <2>1, <2>2 DEF Newest
  <2> QED
    BY <1>8, <2>1, <2>2, <2>3, <2>4, <2>5 DEF Wire
<1>10. \A u \in Tasks \ {t} : Wire(u)'
  <2>1. \A u \in Tasks \ {t} : Same(u)
    BY <1>3, <1>7 DEF Same
  <2> QED
    BY <2>1, SameKeeps
<1> QED
  BY <1>6, <1>9, <1>10

\* The bridge takes the end of a round out of the channel and keeps it.
LEMMA TakeRound ==
  ASSUME WireInv, ClaimInv, NEW t \in Tasks, HearRound(t)
  PROVE  WireInv'
<1> USE DEF WireInv, StreamShape
<1>1. PICK e \in Heard(t) :
        /\ Receives(t)
        /\ Move(t, "persisting", e, e.tools + 1) \/ Move(t, "settling", e, 0)
        /\ BridgeOnly /\ UNCHANGED <<rows, pending, logs, ui>>
  BY DEF HearRound
<1>2. chan[t] # <<>> /\ bridge[t].pc = "receiving" /\ e = Head(chan[t])
  BY DEF Heard
<1>3. Taken(t) = Newest(NoEvent, ui[t])
  BY <1>2 DEF Taken, InHand
<1>4. /\ e \in Sent /\ Tail(chan[t]) \in Seq(Sent)
      /\ MayFollow(Taken(t), EventOf(e))
      /\ Legal(EventOf(e), Tail(chan[t]))
      /\ Newest(EventOf(e), Tail(chan[t])) = Newest(Taken(t), chan[t])
  BY <1>2, LegalTail DEF Wire
<1>5. /\ chan' = [chan EXCEPT ![t] = Tail(chan[t])]
      /\ UNCHANGED <<ui, last, results, open, step>>
  BY <1>1 DEF Receives, BridgeOnly, agentVars, startVars
<1>6. StreamShape'
  BY <1>4, <1>5
<1>7. /\ bridge'[t].pc \in {"persisting", "settling"} /\ bridge'[t].event = e
      /\ \A u \in Tasks \ {t} : bridge'[u] = bridge[u]
  BY <1>1 DEF Move, At, ClaimInv, Shape
<1>8. step[t] \notin Unstarted
  BY <1>2 DEF ClaimInv, Claims, Unstarted
<1>9. Wire(t)'
  <2>1. Taken(t)' = EventOf(e) /\ InHand(t)'
    BY <1>7 DEF Taken, InHand
  <2>2. /\ chan'[t] = Tail(chan[t]) /\ ui'[t] = ui[t] /\ last'[t] = last[t]
        /\ open' = open /\ step'[t] = step[t]
    BY <1>5
  <2>3. Legal(Taken(t), chan[t])'
    BY <1>4, <2>1, <2>2 DEF Legal
  <2>4. Newest(NoEvent, ui[t])' = Newest(NoEvent, ui[t])
    BY <2>2 DEF Newest
  <2>5. MayFollow(Newest(NoEvent, ui[t])', EventOf(bridge[t].event)')
    BY <1>3, <1>4, <1>7, <2>4 DEF EventOf
  <2>6. t \in open => last[t] = Newest(EventOf(e), Tail(chan[t]))
    BY <1>4 DEF Wire
  <2>7. Newest(Taken(t), chan[t])' = Newest(EventOf(e), Tail(chan[t]))
    BY <2>1, <2>2 DEF Newest
  <2> QED
    BY <1>8, <2>1, <2>2, <2>3, <2>5, <2>6, <2>7 DEF Wire
<1>10. \A u \in Tasks \ {t} : Wire(u)'
  <2>1. \A u \in Tasks \ {t} : Same(u)
    BY <1>5, <1>7 DEF Same
  <2> QED
    BY <2>1, SameKeeps
<1> QED
  BY <1>6, <1>9, <1>10

\* A row is written while the bridge keeps the event.
LEMMA PersistWire ==
  ASSUME WireInv, ClaimInv, NEW t \in Tasks, PersistRow(t)
  PROVE  WireInv'
<1> USE DEF WireInv, StreamShape
<1>1. UNCHANGED <<chan, ui, last, results, open, step>>
  BY DEF PersistRow, BridgeOnly, agentVars, startVars
<1>2. /\ bridge[t].pc = "persisting"
      /\ bridge'[t].pc \in {"persisting", "settling"} /\ bridge'[t].event = bridge[t].event
      /\ \A u \in Tasks \ {t} : bridge'[u] = bridge[u]
  BY DEF PersistRow, Move, At, ClaimInv, Shape
<1>3. Wire(t)'
  <2>1. InHand(t) /\ InHand(t)' /\ Taken(t)' = Taken(t)
    BY <1>2 DEF InHand, Taken, EventOf
  <2>2. Newest(NoEvent, ui[t])' = Newest(NoEvent, ui[t]) /\ EventOf(bridge[t].event)' = EventOf(bridge[t].event)
    BY <1>1, <1>2 DEF Newest, EventOf
  <2>3. Legal(Taken(t), chan[t])' <=> Legal(Taken(t), chan[t])
    BY <1>1, <2>1 DEF Legal
  <2>4. Newest(Taken(t), chan[t])' = Newest(Taken(t), chan[t])
    BY <1>1, <2>1 DEF Newest
  <2> QED
    BY <1>1, <2>1, <2>2, <2>3, <2>4 DEF Wire
<1>4. \A u \in Tasks \ {t} : Same(u)
  BY <1>1, <1>2 DEF Same
<1> QED
  BY <1>1, <1>3, <1>4, SameKeeps

\* The event that was kept is forwarded.
LEMMA SettleWire ==
  ASSUME WireInv, ClaimInv, NEW t \in Tasks, SettleRound(t)
  PROVE  WireInv'
<1> USE DEF WireInv, StreamShape
<1> DEFINE e == bridge[t].event
<1>1. /\ bridge[t].pc = "settling" /\ ui' = [ui EXCEPT ![t] = Append(ui[t], e)]
      /\ Move(t, "receiving", NoMessage, 0)
      /\ UNCHANGED <<chan, last, results, open, step>>
  BY DEF SettleRound, Forward, BridgeOnly, agentVars, startVars
<1>2. e \in Sent
  BY KernelAssumption DEF ClaimInv, Shape, Message, Sent
<1> HIDE DEF e
<1>3. ui[t] \in Seq(Sent)
  OBVIOUS
<1>4. /\ Append(ui[t], e) \in Seq(Sent) /\ Append(ui[t], e) # <<>>
      /\ Append(ui[t], e)[Len(Append(ui[t], e))] = e
  BY <1>2, <1>3, AppendProperties
<1>5. bridge'[t].pc = "receiving" /\ \A u \in Tasks \ {t} : bridge'[u] = bridge[u]
  BY <1>1 DEF Move, At, ClaimInv, Shape
<1>6. step[t] \notin Unstarted
  BY <1>1 DEF ClaimInv, Claims, Unstarted
<1>7. Wire(t)'
  <2>1. Taken(t) = EventOf(e) /\ Taken(t)' = EventOf(e) /\ ~InHand(t)'
    BY <1>1, <1>4, <1>5 DEF Taken, InHand, Newest, e
  <2>2. Legal(Taken(t), chan[t])' <=> Legal(Taken(t), chan[t])
    BY <1>1, <2>1 DEF Legal
  <2>3. Newest(Taken(t), chan[t])' = Newest(Taken(t), chan[t])
    BY <1>1, <2>1 DEF Newest
  <2> QED
    BY <1>1, <1>6, <2>1, <2>2, <2>3 DEF Wire
<1>8. \A u \in Tasks \ {t} : Same(u)
  BY <1>1, <1>5 DEF Same
<1> QED
  BY <1>1, <1>4, <1>7, <1>8, SameKeeps

\* The bridge ends.
LEMMA EndWire ==
  ASSUME WireInv, ClaimInv, NEW t \in Tasks, HearClosed(t) \/ ReleaseSession(t)
  PROVE  WireInv'
<1> USE DEF WireInv, StreamShape
<1>1. UNCHANGED <<chan, ui, last, results, open, step>>
  BY DEF HearClosed, ReleaseSession, BridgeOnly, agentVars, startVars
<1>2. /\ bridge[t].pc \in {"receiving", "finishing"} /\ bridge'[t].pc \in {"finishing", "done"}
      /\ \A u \in Tasks \ {t} : bridge'[u] = bridge[u]
  BY DEF HearClosed, ReleaseSession, Move, At, ClaimInv, Shape
<1>3. Wire(t)'
  BY <1>1, <1>2 DEF Wire, InHand, Taken, Newest, Legal
<1>4. \A u \in Tasks \ {t} : Same(u)
  BY <1>1, <1>2 DEF Same
<1> QED
  BY <1>1, <1>3, <1>4, SameKeeps

LEMMA BridgeWire ==
  ASSUME WireInv, ClaimInv, NEW t \in Tasks, BridgeStep(t)
  PROVE  WireInv'
<1>1. CASE HearTerminal(t) \/ HearRequest(t) \/ HearRetry(t) \/ HearOther(t)
  BY <1>1, TakeAndForward DEF HearTerminal, HearRequest, HearRetry, HearOther
<1> QED
  BY <1>1, TakeRound, PersistWire, SettleWire, EndWire DEF BridgeStep

-----------------------------------------------------------------------------
\* The task publishes what the grammar allows.
LEMMA PublishWire ==
  ASSUME WireInv, NEW t \in Tasks, NEW e \in Event, PublishEvent(t, e)
  PROVE  WireInv'
<1> USE DEF WireInv, StreamShape
<1> DEFINE m == [kind |-> e.kind, round |-> e.round,
                 tools |-> IF e.kind = "ModelRoundFinished" THEN results[t] ELSE 0]
<1>1. /\ t \in open /\ MayFollow(last[t], e)
      /\ last' = [last EXCEPT ![t] = e]
      /\ results' = [results EXCEPT ![t] = ResultsAfter(t, e)]
      /\ chan' = [chan EXCEPT ![t] = Append(chan[t], m)]
      /\ UNCHANGED <<ui, bridge, open, step>>
  BY DEF PublishEvent, Emit, startVars, bridgeVars
<1>2. m \in Sent /\ EventOf(m) = e
  BY DEF Sent, Event, EventOf, Ev
<1> HIDE DEF m
<1>3. last[t] = Newest(Taken(t), chan[t]) /\ Legal(Taken(t), chan[t])
  BY <1>1 DEF Wire
<1>4. chan[t] \in Seq(Sent)
  OBVIOUS
<1>5. MayFollow(Newest(Taken(t), chan[t]), EventOf(m))
  BY <1>1, <1>2, <1>3
<1>6. /\ Append(chan[t], m) \in Seq(Sent) /\ Legal(Taken(t), Append(chan[t], m))
      /\ \A k : Newest(k, Append(chan[t], m)) = EventOf(m)
  BY <1>2, <1>3, <1>4, <1>5, LegalAppend
<1>7. StreamShape'
  <2>1. ResultsAfter(t, e) \in Nat
    BY DEF ResultsAfter
  <2> QED
    BY <1>1, <1>6, <2>1
<1>8. step[t] \notin Unstarted
  BY <1>1 DEF Wire
<1>9. Wire(t)'
  <2>1. Taken(t)' = Taken(t) /\ (InHand(t)' <=> InHand(t))
    BY <1>1 DEF Taken, InHand, Newest, EventOf
  <2>2. chan'[t] = Append(chan[t], m) /\ last'[t] = e
    BY <1>1
  <2>3. Legal(Taken(t), chan[t])'
    BY <1>6, <2>1, <2>2 DEF Legal
  <2>4. Newest(Taken(t), chan[t])' = Newest(Taken(t), Append(chan[t], m))
    BY <2>1, <2>2 DEF Newest
  <2>5. Newest(Taken(t), chan[t])' = e
    BY <1>2, <1>6, <2>4
  <2>6. InHand(t)' => MayFollow(Newest(NoEvent, ui[t])', EventOf(bridge[t].event)')
    BY <1>1, <2>1 DEF Wire, Newest, EventOf
  <2> QED
    BY <1>1, <1>8, <2>2, <2>3, <2>5, <2>6 DEF Wire
<1>10. \A u \in Tasks \ {t} : Same(u)
  BY <1>1 DEF Same
<1> QED
  BY <1>7, <1>9, <1>10, SameKeeps

\* A task's stream opens when the agent is started.
LEMMA StartAgentWire ==
  ASSUME WireInv, ClaimInv, NEW t \in Tasks, StartAgent(t)
  PROVE  WireInv'
<1> USE DEF WireInv, StreamShape
<1> DEFINE m == [kind |-> "TaskStarted", round |-> 0, tools |-> 0]
           e == Ev("TaskStarted", 0)
<1>1. /\ step[t] = "assembled" /\ step' = [step EXCEPT ![t] = "starting"]
      /\ MayFollow(last[t], e) /\ last' = [last EXCEPT ![t] = e]
      /\ chan' = [chan EXCEPT ![t] = <<m>>] /\ open' = open \cup {t}
      /\ UNCHANGED <<ui, bridge, results>>
  BY DEF StartAgent, Goto, Emit, bridgeVars
<1>2. 0 \in 0 .. MaxRounds
  BY StreamAssumption
<1>3. m \in Sent /\ e \in Event /\ EventOf(m) = e
  BY <1>2 DEF Sent, Event, EventOf, Ev, Kinds
<1> HIDE DEF m, e
<1>4. /\ <<m>> \in Seq(Sent) /\ <<m>> # <<>> /\ Len(<<m>>) = 1 /\ <<m>>[1] = m
  BY <1>3
<1>5. StreamShape'
  BY <1>1, <1>3, <1>4
<1>6. last[t] = NoEvent /\ ui[t] = <<>> /\ bridge[t].pc = "none"
  BY <1>1 DEF Wire, Unstarted, ClaimInv, Claims
<1>7. Wire(t)'
  <2>1. ~InHand(t)' /\ Taken(t)' = NoEvent
    BY <1>1, <1>6 DEF InHand, Taken, Newest
  <2>2. /\ chan'[t] = <<m>> /\ last'[t] = e /\ step'[t] \notin Unstarted
    BY <1>1 DEF Unstarted, ClaimInv, Shape
  <2>3. Legal(Taken(t), chan[t])'
    BY <1>1, <1>3, <1>4, <1>6, <2>1, <2>2 DEF Legal
  <2>4. Newest(Taken(t), chan[t])' = e
    BY <1>3, <1>4, <2>2 DEF Newest
  <2> QED
    BY <2>1, <2>2, <2>3, <2>4 DEF Wire
<1>8. \A u \in Tasks \ {t} : Same(u)
  BY <1>1 DEF Same, ClaimInv, Shape
<1> QED
  BY <1>5, <1>7, <1>8, SameKeeps

\* The other steps move no event.
LEMMA OtherWire ==
  ASSUME WireInv, ClaimInv,
         \/ \E t \in Tasks : \/ BuildTools(t) \/ ReadTurn(t) \/ WritePrompt(t) \/ AssembleContext(t)
                             \/ HangUp(t) \/ CancelTask(t)
         \/ \E t \in Tasks, s \in Sessions : ClaimSession(t, s)
         \/ \E s \in Sessions : DeleteSession(s)
  PROVE  WireInv'
<1>1. UNCHANGED <<chan, ui, last, results, bridge>> /\ (open' \subseteq open)
  BY DEF BuildTools, ReadTurn, WritePrompt, AssembleContext, HangUp, CancelTask, ClaimSession,
     DeleteSession, agentVars, startVars, bridgeVars
<1>2. \A u \in Tasks : step'[u] \in Unstarted => step[u] \in Unstarted
  BY DEF BuildTools, ReadTurn, WritePrompt, AssembleContext, HangUp, CancelTask, ClaimSession,
     DeleteSession, agentVars, startVars, bridgeVars, Goto, Reject, Unstarted, ClaimInv, Shape
<1>3. \A u \in Tasks : Same(u)
  BY <1>1, <1>2 DEF Same
<1> QED
  BY <1>1, <1>3, SameKeeps DEF WireInv, StreamShape

LEMMA SpawnWire ==
  ASSUME WireInv, ClaimInv, NEW t \in Tasks, SpawnBridge(t)
  PROVE  WireInv'
<1> USE DEF WireInv, StreamShape
<1>1. /\ step[t] = "starting" /\ step' = [step EXCEPT ![t] = "returned"]
      /\ Move(t, "receiving", NoMessage, 0)
      /\ UNCHANGED <<chan, ui, last, results, open>>
  BY DEF SpawnBridge, Goto, Move, agentVars
<1>2. /\ bridge[t].pc = "none" /\ bridge'[t].pc = "receiving"
      /\ \A u \in Tasks \ {t} : bridge'[u] = bridge[u]
  BY <1>1 DEF Move, At, ClaimInv, Shape, Claims
<1>3. step[t] \notin Unstarted /\ step'[t] \notin Unstarted
      /\ \A u \in Tasks \ {t} : step'[u] = step[u]
  BY <1>1 DEF Unstarted, ClaimInv, Shape
<1>4. Wire(t)'
  BY <1>1, <1>2, <1>3 DEF Wire, InHand, Taken, Newest, Legal
<1>5. \A u \in Tasks \ {t} : Same(u)
  BY <1>1, <1>2, <1>3 DEF Same
<1> QED
  BY <1>1, <1>4, <1>5, SameKeeps

\* The process dies, and every channel with it.
LEMMA CrashWire ==
  ASSUME WireInv, ClaimInv, Crash
  PROVE  WireInv'
<1> USE DEF WireInv, StreamShape
<1>1. /\ chan' = [t \in Tasks |-> <<>>] /\ open' = {} /\ UNCHANGED <<last, results, ui>>
      /\ bridge' = [t \in Tasks |-> Idle]
      /\ step' = [t \in Tasks |-> IF step[t] = "idle" THEN "idle" ELSE "lost"]
  BY DEF Crash
<1>2. ASSUME NEW t \in Tasks PROVE Wire(t)'
  <2>1. ~InHand(t)'
    BY <1>1 DEF InHand, Idle, At
  <2>2. Legal(Taken(t), chan[t])'
    BY <1>1, EmptyLegal DEF Legal
  <2>3. step'[t] \in Unstarted => step[t] \in Unstarted
    BY <1>1 DEF Unstarted
  <2> QED
    BY <1>1, <2>1, <2>2, <2>3 DEF Wire
<1> QED
  BY <1>1, <1>2

-----------------------------------------------------------------------------
LEMMA WireInvariance == KernelSpec => []WireInv
<1>1. KernelInit => WireInv
  <2> SUFFICES ASSUME KernelInit PROVE WireInv
    OBVIOUS
  <2>1. 0 \in 0 .. MaxRounds
    BY StreamAssumption
  <2>2. StreamShape
    BY <2>1 DEF KernelInit, Init, StreamShape, NoEvent, Event, Kinds
  <2>3. \A t \in Tasks : ~InHand(t)
    BY DEF KernelInit, InHand, Idle, At
  <2>4. \A t \in Tasks : Wire(t)
    BY <2>3, EmptyLegal DEF KernelInit, Init, Wire
  <2> QED
    BY <2>2, <2>4 DEF WireInv
<1>2. WireInv /\ ClaimInv /\ [KernelNext]_vars => WireInv'
  <2> SUFFICES ASSUME WireInv, ClaimInv, [KernelNext]_vars PROVE WireInv'
    OBVIOUS
  <2>1. CASE UNCHANGED vars
    <3>1. StreamShape' /\ \A t \in Tasks : Same(t)
      BY <2>1 DEF vars, agentVars, startVars, bridgeVars, Same, WireInv, StreamShape
    <3> QED
      BY <3>1, SameKeeps DEF WireInv
  <2>2. CASE \E t \in Tasks : StartStep(t)
    BY <2>2, OtherWire, StartAgentWire, SpawnWire DEF StartStep
  <2>3. CASE \E t \in Tasks : AgentStep(t) \/ CancelTask(t)
    BY <2>3, OtherWire, PublishWire DEF AgentStep
  <2> QED
    BY <2>1, <2>2, <2>3, BridgeWire, OtherWire, CrashWire DEF KernelNext
<1> QED
  BY <1>1, <1>2, ClaimInvariance, PTL DEF KernelSpec

-----------------------------------------------------------------------------
(* Every step is a step of the stream the user interface sees, or none.     *)

Terminals(s) == {k \in DOMAIN s : IsTerminal(s[k])}

LEMMA SameGrammar ==
  ASSUME NEW l, NEW e
  PROVE  /\ Ui!MayFollow(l, e) <=> MayFollow(l, e)
         /\ Ui!IsTerminal(e) <=> IsTerminal(e)
BY DEF Ui!MayFollow, Ui!Opens, Ui!Compacts, Ui!Requests, Ui!Streams, Ui!Closes, Ui!NoEvent, Ui!Ev,
   Ui!Terminal, Ui!InRound, Ui!IsTerminal,
   MayFollow, Opens, Compacts, Requests, Streams, Closes, NoEvent, Ev, Terminal, InRound, IsTerminal

LEMMA UiMapping ==
  /\ UiLast = [t \in Tasks |-> Newest(NoEvent, ui[t])]
  /\ UiEnds = [t \in Tasks |-> Cardinality(Terminals(ui[t]))]
BY DEF UiLast, UiEnds, Newest, EventOf, Last, Terminals

\* One more event, and one more end if it is terminal.
LEMMA OneMore ==
  ASSUME NEW s \in Seq(Sent), NEW e \in Sent
  PROVE  /\ Newest(NoEvent, Append(s, e)) = EventOf(e)
         /\ Cardinality(Terminals(Append(s, e)))
              = IF IsTerminal(e) THEN Cardinality(Terminals(s)) + 1 ELSE Cardinality(Terminals(s))
<1> DEFINE a == Append(s, e)  n == Len(s) + 1
<1>1. /\ a \in Seq(Sent) /\ a # <<>> /\ Len(a) = n /\ a[n] = e
      /\ \A i \in 1 .. Len(s) : a[i] = s[i]
  BY AppendProperties
<1>2. Len(s) \in Nat /\ DOMAIN s = 1 .. Len(s) /\ DOMAIN a = 1 .. n
  BY <1>1
<1> HIDE DEF a
<1>3. Terminals(s) \subseteq 1 .. Len(s) /\ n \notin Terminals(s)
  BY <1>2 DEF Terminals
<1>4. IsFiniteSet(Terminals(s))
  <2>1. IsFiniteSet(1 .. Len(s))
    BY <1>2, FS_Interval
  <2> QED
    BY <1>3, <2>1, FS_Subset
<1>5. Terminals(a) = IF IsTerminal(e) THEN Terminals(s) \cup {n} ELSE Terminals(s)
  BY <1>1, <1>2 DEF Terminals
<1>6. Cardinality(Terminals(s) \cup {n}) = Cardinality(Terminals(s)) + 1
  BY <1>3, <1>4, FS_AddElement
<1> QED
  BY <1>1, <1>5, <1>6 DEF a, Newest

\* Forwarding what may follow is a step of the stream.
LEMMA ForwardIsStep ==
  ASSUME WireInv, NEW t \in Tasks, NEW e \in Sent,
         Forward(t, e), MayFollow(Newest(NoEvent, ui[t]), EventOf(e))
  PROVE  Ui!Next
<1> DEFINE v == EventOf(e)
<1>1. ui[t] \in Seq(Sent) /\ ui' = [ui EXCEPT ![t] = Append(ui[t], e)]
  BY DEF WireInv, StreamShape, Forward
<1>2. v \in Event /\ v \in Ui!Event /\ (IsTerminal(v) <=> IsTerminal(e))
  BY DEF Sent, Event, EventOf, Ev, IsTerminal, Kinds, InRound, Compaction, Terminal,
     Ui!Event, Ui!Kinds, Ui!InRound, Ui!Compaction, Ui!Terminal
<1>3. UiLast' = [UiLast EXCEPT ![t] = v]
  <2>1. UiLast' = [u \in Tasks |-> Newest(NoEvent, ui'[u])]
    BY UiMapping DEF UiLast, Newest, EventOf, Last
  <2>2. Newest(NoEvent, ui'[t]) = v /\ \A u \in Tasks \ {t} : ui'[u] = ui[u]
    BY <1>1, OneMore DEF WireInv, StreamShape
  <2> QED
    BY <2>1, <2>2, UiMapping
<1>4. UiEnds' = [UiEnds EXCEPT ![t] = IF IsTerminal(v) THEN @ + 1 ELSE @]
  <2>1. UiEnds' = [u \in Tasks |-> Cardinality(Terminals(ui'[u]))]
    BY DEF UiEnds, Terminals
  <2>2. /\ Cardinality(Terminals(ui'[t]))
             = IF IsTerminal(v) THEN Cardinality(Terminals(ui[t])) + 1 ELSE Cardinality(Terminals(ui[t]))
        /\ \A u \in Tasks \ {t} : ui'[u] = ui[u]
    BY <1>1, <1>2, OneMore DEF WireInv, StreamShape
  <2> QED
    BY <2>1, <2>2, UiMapping
<1>5. Ui!MayFollow(UiLast[t], v)
  BY UiMapping, SameGrammar
<1>6. Ui!Emit(t, v)
  BY <1>3, <1>4, <1>5, SameGrammar DEF Ui!Emit
<1> QED
  BY <1>2, <1>6 DEF Ui!Next

LEMMA QuietIsStutter ==
  ASSUME ui' = ui
  PROVE  UNCHANGED <<UiLast, UiEnds>>
BY DEF UiLast, UiEnds

LEMMA HearIsStep ==
  ASSUME WireInv, ClaimInv, NEW t \in Tasks, NEW e \in Heard(t), Forward(t, e)
  PROVE  Ui!Next
<1>1. chan[t] # <<>> /\ bridge[t].pc = "receiving" /\ e = Head(chan[t])
  BY DEF Heard
<1>2. e \in Sent /\ MayFollow(Taken(t), EventOf(e))
  BY <1>1, LegalTail DEF WireInv, StreamShape, Wire
<1>3. Taken(t) = Newest(NoEvent, ui[t])
  BY <1>1 DEF Taken, InHand
<1> QED
  BY <1>2, <1>3, ForwardIsStep

LEMMA SettleIsStep ==
  ASSUME WireInv, ClaimInv, NEW t \in Tasks, SettleRound(t)
  PROVE  Ui!Next
<1>1. bridge[t].pc = "settling" /\ Forward(t, bridge[t].event)
  BY DEF SettleRound
<1>2. bridge[t].event \in Sent
  BY KernelAssumption DEF ClaimInv, Shape, Message, Sent
<1>3. MayFollow(Newest(NoEvent, ui[t]), EventOf(bridge[t].event))
  BY <1>1 DEF WireInv, Wire, InHand
<1> QED
  BY <1>1, <1>2, <1>3, ForwardIsStep

LEMMA StepIsStep ==
  ASSUME WireInv, ClaimInv, [KernelNext]_vars
  PROVE  Ui!Next \/ UNCHANGED <<UiLast, UiEnds>>
<1>1. CASE ui' = ui
  BY <1>1, QuietIsStutter
<1>2. CASE \E t \in Tasks : BridgeStep(t)
  <2>1. PICK t \in Tasks : BridgeStep(t)
    BY <1>2
  <2>2. CASE HearTerminal(t) \/ HearRequest(t) \/ HearRetry(t) \/ HearOther(t)
    BY <2>2, HearIsStep DEF HearTerminal, HearRequest, HearRetry, HearOther
  <2>3. CASE HearRound(t) \/ PersistRow(t) \/ HearClosed(t) \/ ReleaseSession(t)
    BY <2>3, <1>1 DEF HearRound, PersistRow, HearClosed, ReleaseSession
  <2> QED
    BY <2>1, <2>2, <2>3, SettleIsStep DEF BridgeStep
<1>3. CASE \E t \in Tasks : StartStep(t) \/ AgentStep(t) \/ CancelTask(t)
  BY <1>3, <1>1 DEF StartStep, BuildTools, ReadTurn, WritePrompt, AssembleContext, StartAgent,
     SpawnBridge, AgentStep, HangUp, PublishEvent, CancelTask, bridgeVars
<1>4. CASE \/ \E t \in Tasks, s \in Sessions : ClaimSession(t, s)
           \/ (\E s \in Sessions : DeleteSession(s)) \/ Crash \/ UNCHANGED vars
  BY <1>4, <1>1 DEF ClaimSession, DeleteSession, Crash, bridgeVars, vars
<1> QED
  BY <1>2, <1>3, <1>4 DEF KernelNext

\* What the user interface is sent keeps the runtime's grammar, while rounds are
\* persisted, storage fails, sessions are deleted or the process dies
\* (events.rs:25-205).
THEOREM UiStreamTheorem == KernelSpec => UiStreamSpec
<1>1. KernelInit => Ui!Init
  <2> SUFFICES ASSUME KernelInit PROVE Ui!Init
    OBVIOUS
  <2>1. \A t \in Tasks : ui[t] = <<>>
    BY DEF KernelInit
  <2>2. \A t \in Tasks : Terminals(ui[t]) = {} /\ Newest(NoEvent, ui[t]) = NoEvent
    <3>1. Terminals(<<>>) = {}
      BY DEF Terminals
    <3> QED
      BY <2>1, <3>1 DEF Newest
  <2>3. Cardinality({}) = 0
    BY FS_EmptySet
  <2> QED
    BY <2>2, <2>3, UiMapping DEF Ui!Init, Ui!NoEvent, NoEvent
<1>2. WireInv /\ ClaimInv /\ [KernelNext]_vars => [Ui!Next]_(Ui!streamVars)
  BY StepIsStep DEF Ui!streamVars
<1> QED
  BY <1>1, <1>2, WireInvariance, ClaimInvariance, PTL DEF KernelSpec, UiStreamSpec, Ui!Spec

-----------------------------------------------------------------------------
(* Rows.                                                                    *)

StoredRow == [turn : Nat, round : 0 .. MaxRounds, i : Nat, role : {"user", "assistant", "tool"}]

\* The first round that may be announced behind event e.
Floor(e) ==
  IF e.kind \in InRound \cup {"ModelRequestRetrying"} THEN e.round ELSE e.round + 1

\* The rows of its round the bridge has written.
Written(t) == bridge[t].event.tools + 1 - bridge[t].left

\* Rows are in order, and so are their turns throughout a session.
RowData ==
  /\ rows \in [Sessions -> Seq(StoredRow)] /\ turn \in [Tasks -> Nat]
  /\ \A s \in Sessions : \A j, k \in DOMAIN rows[s] :
       j <= k => rows[s][j].turn <= rows[s][k].turn
  /\ RowsInOrder

\* The newest row of a session, where its task is.
LastOf(s) == rows[s][Len(rows[s])]

IsBehind(row, t, round) ==
  row.turn < turn[t] \/ (row.turn = turn[t] /\ row.round < round)

Precedes(t, row) ==
  /\ step[t] = "turn" => row.turn < turn[t]
  /\ step[t] \in {"prompted", "assembled", "starting", "returned"} =>
       /\ bridge[t].pc = "persisting" /\ Written(t) > 0 =>
            /\ row.turn = turn[t] /\ row.round = bridge[t].event.round
            /\ row.i = Written(t) - 1
       /\ bridge[t].pc = "persisting" /\ Written(t) = 0 => IsBehind(row, t, bridge[t].event.round)
       /\ bridge[t].pc # "persisting" => IsBehind(row, t, Floor(Taken(t)))

\* Whatever a task writes next comes behind the newest row of its session.
Place(t) ==
  /\ Active(t) => owner[t] \in Sessions
  /\ InHand(t) => bridge[t].event.kind = "ModelRoundFinished"
  /\ bridge[t].pc = "persisting" => bridge[t].left >= 1 /\ Written(t) >= 0
  /\ Active(t) /\ rows[owner[t]] # <<>> => Precedes(t, LastOf(owner[t]))

RowInv == RowData /\ \A t \in Tasks : Place(t)

-----------------------------------------------------------------------------
LEMMA FloorRises ==
  ASSUME NEW l, l = NoEvent \/ l \in Event, NEW e \in Event, MayFollow(l, e)
  PROVE  /\ Floor(l) <= Floor(e)
         /\ e.kind = "ModelRoundFinished" => Floor(l) <= e.round
<1>1. CASE Opens(l, e)
  BY <1>1 DEF Opens, NoEvent, Ev, Floor, InRound
<1>2. l \in Event
  BY StreamAssumption DEF NoEvent, Event, Kinds
<1>3. l.round \in Nat /\ e.round \in Nat
  BY <1>2 DEF Event
<1>4. CASE Compacts(l, e)
  BY <1>3, <1>4 DEF Compacts, Floor, InRound
<1>5. CASE Requests(l, e)
  BY <1>3, <1>5 DEF Requests, Floor, InRound
<1>6. CASE Streams(l, e)
  BY <1>3, <1>6 DEF Streams, Floor, InRound
<1>7. CASE Closes(l, e)
  BY <1>3, <1>7 DEF Closes, Floor, InRound
<1> QED
  BY <1>1, <1>4, <1>5, <1>6, <1>7 DEF MayFollow

LEMMA RowOf ==
  ASSUME NEW s \in Seq(StoredRow)
  PROVE  /\ Len(s) \in Nat /\ DOMAIN s = 1 .. Len(s) /\ (s = <<>> <=> Len(s) = 0)
         /\ \A k \in 1 .. Len(s) : s[k] \in StoredRow /\ s[k].turn \in Nat
         /\ s # <<>> => s[Len(s)] \in StoredRow /\ s[Len(s)].turn \in Nat
<1>1. Len(s) \in Nat /\ DOMAIN s = 1 .. Len(s) /\ (s = <<>> <=> Len(s) = 0)
  BY EmptySeq
<1>2. \A k \in 1 .. Len(s) : s[k] \in StoredRow
  OBVIOUS
<1> QED
  BY <1>1, <1>2 DEF StoredRow

\* The next turn is behind every turn of the session.
LEMMA NextTurnIsNew ==
  ASSUME RowData, NEW s \in Sessions
  PROVE  /\ NextTurn(s) \in Nat
         /\ rows[s] # <<>> => LastOf(s).turn < NextTurn(s)
<1> DEFINE T == {rows[s][k].turn : k \in DOMAIN rows[s]}
<1>1. CASE rows[s] = <<>>
  BY <1>1 DEF NextTurn
<1>2. CASE rows[s] # <<>>
  <2>1. /\ rows[s] \in Seq(StoredRow) /\ Len(rows[s]) \in Nat \ {0} /\ DOMAIN rows[s] = 1 .. Len(rows[s])
        /\ \A k \in 1 .. Len(rows[s]) : rows[s][k].turn \in Nat
    BY <1>2, RowOf DEF RowData
  <2>2. LastOf(s).turn \in T /\ T \subseteq Nat
    BY <2>1 DEF LastOf
  <2>3. \A n \in T : n <= LastOf(s).turn
    BY <2>1 DEF RowData, LastOf
  <2>4. Max(T) \in T /\ \A n \in T : Max(T) >= n
    BY <2>2, <2>3 DEF Max
  <2>5. NextTurn(s) = 1 + Max(T)
    BY <1>2 DEF NextTurn
  <2> DEFINE m == Max(T)  l == LastOf(s).turn
  <2>6. m \in Nat /\ l \in Nat /\ l <= m /\ NextTurn(s) = 1 + m
    BY <2>2, <2>4, <2>5
  <2> HIDE DEF m, l
  <2>7. 1 + m \in Nat /\ l < 1 + m
    BY <2>6
  <2> QED
    BY <2>6, <2>7 DEF l
<1> QED
  BY <1>1, <1>2

\* A row behind the newest one keeps the rows in order.
LEMMA InsertKeeps ==
  ASSUME RowData, NEW s \in Sessions, NEW row \in StoredRow, Insert(s, row),
         rows[s] # <<>> =>
           /\ Before(LastOf(s), row)
           /\ row.i > 0 => LastOf(s).turn = row.turn /\ LastOf(s).round = row.round
                             /\ LastOf(s).i = row.i - 1
  PROVE  /\ turn' \in [Tasks -> Nat] => RowData'
         /\ rows'[s] # <<>> /\ LastOf(s)' = row
         /\ \A r \in Sessions \ {s} : rows'[r] = rows[r]
<1> DEFINE old == rows[s]  new == rows'[s]
<1>1. /\ rows' = [rows EXCEPT ![s] = Append(old, row)] /\ old \in Seq(StoredRow)
  BY DEF Insert, RowData
<1>2. /\ new = Append(old, row) /\ new \in Seq(StoredRow) /\ new # <<>>
      /\ Len(new) = Len(old) + 1 /\ new[Len(new)] = row
      /\ \A k \in 1 .. Len(old) : new[k] = old[k]
  BY <1>1, AppendProperties DEF RowData
<1>3. \A r \in Sessions \ {s} : rows'[r] = rows[r]
  BY <1>1
<1>4. rows' \in [Sessions -> Seq(StoredRow)]
  BY <1>1, <1>2 DEF RowData
<1>5. /\ Len(old) \in Nat /\ (old = <<>> <=> Len(old) = 0)
      /\ DOMAIN new = 1 .. Len(old) + 1 /\ DOMAIN old = 1 .. Len(old)
  BY <1>1, <1>2, RowOf
<1>6. old # <<>> => LastOf(s) = old[Len(old)] /\ LastOf(s).turn <= row.turn
  <2>1. row.turn \in Nat /\ (old # <<>> => old[Len(old)].turn \in Nat)
    BY <1>1, RowOf DEF StoredRow
  <2>2. LastOf(s) = old[Len(old)]
    BY DEF LastOf
  <2> QED
    BY <2>1, <2>2 DEF Before
<1> HIDE DEF old, new
<1>7. RowsInOrder'
  <2> SUFFICES ASSUME NEW r \in Sessions, NEW k \in 2 .. Len(rows'[r])
               PROVE  /\ Before(rows'[r][k - 1], rows'[r][k])
                      /\ rows'[r][k].i > 0 =>
                            /\ rows'[r][k - 1].turn = rows'[r][k].turn
                            /\ rows'[r][k - 1].round = rows'[r][k].round
                            /\ rows'[r][k - 1].i = rows'[r][k].i - 1
    BY DEF RowsInOrder, Before
  <2>1. CASE r # s
    BY <1>3, <2>1 DEF RowData, RowsInOrder
  <2>2. CASE r = s /\ k <= Len(old)
    <3>1. new[k] = old[k] /\ new[k - 1] = old[k - 1] /\ k \in 2 .. Len(old)
      BY <1>2, <1>5, <2>2
    <3> QED
      BY <2>2, <3>1 DEF RowData, RowsInOrder, old, new
  <2>3. CASE r = s /\ k = Len(old) + 1
    <3>1. old # <<>> /\ new[k] = row /\ new[k - 1] = LastOf(s)
      <4>1. k - 1 = Len(old) /\ k = Len(new)
        BY <1>2, <1>5, <2>3
      <4>2. old # <<>> /\ k - 1 \in 1 .. Len(old)
        BY <1>2, <1>5, <2>3, <4>1 DEF new
      <4> QED
        BY <1>2, <1>6, <4>1, <4>2
    <3> QED
      BY <2>3, <3>1 DEF new, old
  <2> QED
    BY <1>2, <1>5, <2>1, <2>2, <2>3 DEF new
<1>8. ASSUME NEW r \in Sessions, NEW j \in DOMAIN rows'[r], NEW k \in DOMAIN rows'[r], j <= k
      PROVE  rows'[r][j].turn <= rows'[r][k].turn
  <2>1. CASE r # s
    BY <1>3, <1>8, <2>1 DEF RowData
  <2>2. CASE r = s /\ k <= Len(old)
    <3>1. j \in DOMAIN old /\ k \in DOMAIN old /\ new[j] = old[j] /\ new[k] = old[k]
      BY <1>2, <1>5, <1>8, <2>2 DEF new
    <3> QED
      BY <1>8, <2>2, <3>1 DEF RowData, old, new
  <2>3. CASE r = s /\ k = Len(old) + 1 /\ j <= Len(old)
    <3>1. j \in 1 .. Len(old) /\ old # <<>> /\ new[j] = old[j] /\ new[k] = row
      BY <1>2, <1>5, <1>8, <2>3 DEF new
    <3>2. old[j].turn <= old[Len(old)].turn
      BY <1>5, <3>1 DEF RowData, old
    <3>3. old[j].turn \in Nat /\ old[Len(old)].turn \in Nat /\ row.turn \in Nat
      BY <1>1, <3>1, RowOf DEF StoredRow
    <3> QED
      BY <1>6, <2>3, <3>1, <3>2, <3>3 DEF new
  <2>4. CASE r = s /\ j = Len(old) + 1 /\ k = Len(old) + 1
    BY <1>2, <2>4 DEF StoredRow, new
  <2> QED
    BY <1>5, <1>8, <2>1, <2>2, <2>3, <2>4 DEF new
<1> QED
  BY <1>2, <1>3, <1>4, <1>7, <1>8 DEF new, RowData, LastOf

-----------------------------------------------------------------------------
(* A step that leaves a task alone.                                         *)

Steady(t) ==
  /\ step'[t] = step[t] /\ bridge'[t] = bridge[t] /\ ui'[t] = ui[t]
  /\ owner'[t] = owner[t] /\ turn'[t] = turn[t]
  /\ Active(t) => rows'[owner[t]] = rows[owner[t]]

LEMMA SteadyKeeps ==
  ASSUME NEW t \in Tasks, Place(t), Steady(t)
  PROVE  Place(t)'
<1>1. /\ Active(t)' <=> Active(t)
      /\ InHand(t)' <=> InHand(t)
  BY DEF Steady, Active, InHand
<1>2. Taken(t)' = Taken(t) /\ Written(t)' = Written(t)
  BY <1>1 DEF Steady, Taken, Newest, EventOf, Written
<1>3. Floor(Taken(t))' = Floor(Taken(t))
  BY <1>2 DEF Floor
<1>4. Active(t) => LastOf(owner[t])' = LastOf(owner[t])
  BY DEF Steady, LastOf
<1> QED
  BY <1>1, <1>2, <1>3, <1>4 DEF Place, Steady, Precedes, IsBehind

\* Nobody else works on a task's session.
LEMMA OthersElsewhere ==
  ASSUME ClaimInv, NEW t \in Tasks, Active(t),
         \A s \in Sessions \ {owner[t]} : rows'[s] = rows[s], RowInv
  PROVE  \A u \in Tasks \ {t} : Active(u) => rows'[owner[u]] = rows[owner[u]]
BY DEF ClaimInv, OneTaskPerSession, RowInv, Place

LEMMA SameData ==
  ASSUME RowData, UNCHANGED <<rows, turn>>
  PROVE  RowData'
BY DEF RowData, RowsInOrder

\* A task that is not at work owes nothing.
LEMMA RestsPlace ==
  ASSUME NEW t \in Tasks, ~Active(t)', ~InHand(t)'
  PROVE  Place(t)'
BY DEF Place, InHand

LEMMA TakenIsEvent ==
  ASSUME WireInv, ClaimInv, NEW t \in Tasks
  PROVE  Taken(t) \in Event /\ Taken(t).round \in Nat
<1>1. 0 \in 0 .. MaxRounds
  BY StreamAssumption
<1>2. NoEvent \in Event
  BY <1>1 DEF NoEvent, Event, Kinds
<1>3. \A m \in Sent : EventOf(m) \in Event
  BY DEF Sent, Event, EventOf, Ev
<1>4. bridge[t].event \in Sent
  BY KernelAssumption DEF ClaimInv, Shape, Message, Sent
<1>5. ui[t] # <<>> => ui[t][Len(ui[t])] \in Sent
  <2>1. ui[t] \in Seq(Sent)
    BY DEF WireInv, StreamShape
  <2>2. \A s \in Seq(Sent) : s # <<>> => s[Len(s)] \in Sent
    BY EmptySeq
  <2> QED
    BY <2>1, <2>2
<1>6. Taken(t) \in Event
  BY <1>2, <1>3, <1>4, <1>5 DEF Taken, Newest
<1> QED
  BY <1>6 DEF Event

-----------------------------------------------------------------------------
(* The start of a task.                                                     *)

\* A claim, a refusal, and the steps before the turn is known write no row.
LEMMA ClaimPlace ==
  ASSUME RowInv, ClaimInv, NEW t \in Tasks, NEW s \in Sessions, ClaimSession(t, s)
  PROVE  RowInv'
<1> USE DEF RowInv
<1>1. /\ step[t] = "idle" /\ owner' = [owner EXCEPT ![t] = s]
      /\ step' = [step EXCEPT ![t] = IF s \in running THEN "rejected" ELSE "marked"]
      /\ UNCHANGED <<rows, turn, bridge, ui>>
  BY DEF ClaimSession, Goto, bridgeVars
<1>2. bridge[t].pc = "none"
  BY <1>1 DEF ClaimInv, Claims
<1>3. owner'[t] = s /\ step'[t] \in {"rejected", "marked"}
  BY <1>1 DEF ClaimInv, Shape
<1>4. Place(t)'
  BY <1>1, <1>2, <1>3 DEF Place, InHand, Precedes
<1>5. \A u \in Tasks \ {t} : Steady(u)
  BY <1>1 DEF Steady, ClaimInv, Shape
<1> QED
  BY <1>1, <1>4, <1>5, SteadyKeeps, SameData

\* A failing step lets go of the session, whether it wrote a row or not.
LEMMA RejectPlace ==
  ASSUME RowInv, ClaimInv, NEW t \in Tasks, step[t] \in Starting, Goto(t, "rejected"),
         UNCHANGED <<owner, bridge, ui, turn>>, RowData',
         \A s \in Sessions \ {owner[t]} : rows'[s] = rows[s]
  PROVE  RowInv'
<1> USE DEF RowInv
<1>1. bridge[t].pc = "none" /\ Active(t) /\ step'[t] = "rejected"
  BY DEF ClaimInv, Claims, Shape, Active, Starting, Goto
<1>2. Place(t)'
  BY <1>1, RestsPlace DEF Active, InHand
<1>3. \A u \in Tasks \ {t} : Steady(u)
  BY <1>1, OthersElsewhere DEF Goto, Steady, ClaimInv, Shape
<1> QED
  BY <1>2, <1>3, SteadyKeeps

LEMMA StartPlace ==
  ASSUME RowInv, ClaimInv, WireInv, NEW t \in Tasks, StartStep(t)
  PROVE  RowInv'
<1> USE DEF RowInv
<1>1. bridge[t].pc = "none" /\ Active(t) /\ owner[t] \in Sessions /\ step[t] \in Starting
  <2>1. step[t] \in Starting
    BY DEF StartStep, BuildTools, ReadTurn, WritePrompt, AssembleContext, StartAgent, SpawnBridge,
       Starting
  <2> QED
    BY <2>1 DEF Starting, ClaimInv, Claims, Active, Place
<1>2. UNCHANGED <<owner, ui>>
  BY DEF StartStep, BuildTools, ReadTurn, WritePrompt, AssembleContext, StartAgent, SpawnBridge,
     startVars, bridgeVars
<1>3. CASE UNCHANGED <<rows, turn, bridge>> /\ Goto(t, "rejected")
  BY <1>1, <1>2, <1>3, RejectPlace, SameData
<1>4. CASE BuildTools(t)
  <2>1. UNCHANGED <<rows, turn, bridge>> /\ (Goto(t, "rejected") \/ Goto(t, "tools"))
    BY <1>4 DEF BuildTools, Reject, bridgeVars
  <2>2. CASE Goto(t, "tools")
    <3>1. step'[t] = "tools" /\ \A u \in Tasks \ {t} : step'[u] = step[u]
      BY <2>2 DEF Goto, ClaimInv, Shape
    <3>2. Place(t)'
      BY <1>1, <1>2, <2>1, <3>1 DEF Place, InHand, Precedes
    <3> QED
      BY <1>2, <2>1, <3>1, <3>2, SteadyKeeps, SameData DEF Steady
  <2> QED
    BY <1>3, <2>1, <2>2
<1>5. CASE ReadTurn(t)
  <2>1. CASE Goto(t, "rejected") /\ UNCHANGED <<rows, turn, bridge>>
    BY <1>3, <2>1
  <2>2. CASE /\ turn' = [turn EXCEPT ![t] = NextTurn(owner[t])]
             /\ Goto(t, "turn") /\ UNCHANGED <<rows, bridge>>
    <3>1. /\ step'[t] = "turn" /\ \A u \in Tasks \ {t} : step'[u] = step[u] /\ turn'[u] = turn[u]
          /\ turn'[t] = NextTurn(owner[t])
      BY <2>2 DEF Goto, ClaimInv, Shape, RowData
    <3>2. NextTurn(owner[t]) \in Nat /\ (rows[owner[t]] # <<>> => LastOf(owner[t]).turn < NextTurn(owner[t]))
      BY <1>1, NextTurnIsNew
    <3>3. Place(t)'
      BY <1>1, <1>2, <2>2, <3>1, <3>2 DEF Place, InHand, Precedes, LastOf
    <3>4. RowData'
      BY <2>2, <3>2 DEF RowData, RowsInOrder
    <3> QED
      BY <1>2, <2>2, <3>1, <3>3, <3>4, SteadyKeeps DEF Steady
  <2> QED
    BY <1>5, <2>1, <2>2 DEF ReadTurn, Reject, bridgeVars
<1>6. CASE WritePrompt(t)
  <2> DEFINE prompt == [turn |-> turn[t], round |-> 0, i |-> 0, role |-> "user"]
  <2>1. step[t] = "turn" /\ UNCHANGED <<turn, bridge>>
    BY <1>6 DEF WritePrompt, bridgeVars
  <2>2. prompt \in StoredRow
    BY StreamAssumption DEF StoredRow, RowData
  <2>3. rows[owner[t]] # <<>> => LastOf(owner[t]).turn < prompt.turn
    BY <1>1, <2>1 DEF Place, Precedes
  <2>4. prompt.i = 0 /\ prompt.round = 0 /\ prompt.turn = turn[t]
    OBVIOUS
  <2> HIDE DEF prompt
  <2>5. rows[owner[t]] # <<>> =>
          /\ Before(LastOf(owner[t]), prompt)
          /\ prompt.i > 0 => LastOf(owner[t]).turn = prompt.turn /\ LastOf(owner[t]).round = prompt.round
                              /\ LastOf(owner[t]).i = prompt.i - 1
    BY <2>3, <2>4 DEF Before
  <2>6. ASSUME Insert(owner[t], prompt)
        PROVE  /\ RowData' /\ rows'[owner[t]] # <<>> /\ LastOf(owner[t])' = prompt
               /\ \A s \in Sessions \ {owner[t]} : rows'[s] = rows[s]
    <3>1. turn' \in [Tasks -> Nat]
      BY <2>1 DEF RowData
    <3> QED
      BY <1>1, <1>2, <2>2, <2>5, <2>6, <3>1, InsertKeeps DEF LastOf
  <2>7. CASE Insert(owner[t], prompt) /\ Goto(t, "prompted")
    <3>1. step'[t] = "prompted" /\ \A u \in Tasks \ {t} : step'[u] = step[u]
      BY <2>7 DEF Goto, ClaimInv, Shape
    <3>2. Taken(t)' = NoEvent /\ Floor(NoEvent) = 1 /\ Floor(Taken(t))' = 1
      BY <1>1, <1>2, <2>1 DEF Taken, InHand, Newest, WireInv, Wire, Unstarted, Floor, NoEvent, InRound
    <3>3. Place(t)'
      <4>1. Precedes(t, LastOf(owner[t]))'
        BY <1>1, <2>1, <2>4, <2>6, <2>7, <3>1, <3>2 DEF Precedes, IsBehind
      <4> QED
        BY <1>1, <1>2, <2>1, <2>6, <2>7, <4>1 DEF Place, InHand
    <3>4. \A u \in Tasks \ {t} : Steady(u)
      BY <1>1, <1>2, <2>1, <2>6, <2>7, <3>1, OthersElsewhere DEF Steady
    <3> QED
      BY <2>6, <2>7, <3>3, <3>4, SteadyKeeps
  <2>8. CASE (UNCHANGED rows \/ Insert(owner[t], prompt)) /\ Goto(t, "rejected")
    <3>1. RowData' /\ \A s \in Sessions \ {owner[t]} : rows'[s] = rows[s]
      BY <2>1, <2>6, <2>8, SameData
    <3> QED
      BY <1>1, <1>2, <2>1, <2>8, <3>1, RejectPlace
  <2> QED
    BY <1>6, <2>7, <2>8 DEF WritePrompt, AppendSucceeds, AppendFails, Reject, prompt
<1>7. CASE AssembleContext(t) \/ StartAgent(t) \/ SpawnBridge(t)
  <2>1. CASE Goto(t, "rejected") /\ UNCHANGED <<rows, turn, bridge>>
    BY <1>3, <2>1
  <2>2. CASE /\ step[t] \in {"prompted", "assembled", "starting"}
             /\ \E p \in {"assembled", "starting", "returned"} : Goto(t, p)
             /\ bridge' = bridge \/ Move(t, "receiving", NoMessage, 0)
             /\ UNCHANGED <<rows, turn>>
    <3>1. /\ step'[t] \in {"assembled", "starting", "returned"}
          /\ bridge'[t].pc \in {"none", "receiving"}
          /\ \A u \in Tasks \ {t} : step'[u] = step[u] /\ bridge'[u] = bridge[u]
      BY <1>1, <2>2 DEF Goto, Move, At, ClaimInv, Shape
    <3>2. ~InHand(t) /\ ~InHand(t)' /\ Taken(t)' = Taken(t)
      BY <1>1, <1>2, <3>1 DEF InHand, Taken, Newest
    <3>3. Floor(Taken(t))' = Floor(Taken(t))
      BY <3>2 DEF Floor
    <3>4. Place(t)'
      BY <1>1, <1>2, <2>2, <3>1, <3>2, <3>3 DEF Place, Precedes, IsBehind, LastOf
    <3> QED
      BY <1>2, <2>2, <3>1, <3>4, SteadyKeeps, SameData DEF Steady
  <2> QED
    BY <1>7, <2>1, <2>2 DEF AssembleContext, StartAgent, SpawnBridge, Reject, Move, bridgeVars, startVars
<1> QED
  BY <1>4, <1>5, <1>6, <1>7 DEF StartStep

-----------------------------------------------------------------------------
(* The bridge.                                                              *)

LEMMA BridgeShape ==
  ASSUME RowInv, ClaimInv, NEW t \in Tasks, bridge[t].pc \in {"receiving", "persisting", "settling"}
  PROVE  /\ Active(t) /\ owner[t] \in Sessions /\ step[t] = "returned"
         /\ bridge[t].event.tools \in Nat /\ bridge[t].event.round \in Nat
         /\ bridge[t].event.round \in 0 .. MaxRounds /\ bridge[t].left \in Int
         /\ turn[t] \in Nat
<1>1. step[t] = "returned" /\ Active(t)
  BY DEF ClaimInv, Claims, Active
<1>2. bridge[t].event \in Message
  BY DEF ClaimInv, Shape
<1> QED
  BY <1>1, <1>2, StreamAssumption, KernelAssumption DEF ClaimInv, Shape, RowInv, RowData, Place, Message

\* What behaves alike for every bridge that writes no row.
LEMMA BridgeQuiet ==
  ASSUME RowInv, ClaimInv, NEW t \in Tasks, UNCHANGED <<rows, turn, owner, step>>, Place(t)',
         \A u \in Tasks \ {t} : bridge'[u] = bridge[u] /\ ui'[u] = ui[u]
  PROVE  RowInv'
<1>1. \A u \in Tasks \ {t} : Steady(u)
  BY DEF Steady
<1> QED
  BY <1>1, SteadyKeeps, SameData DEF RowInv

\* The next event raises the round that may be announced.
LEMMA HeardRaises ==
  ASSUME WireInv, ClaimInv, NEW t \in Tasks, NEW e \in Heard(t)
  PROVE  /\ e \in Sent /\ e.round \in Nat /\ Floor(Taken(t)) \in Nat
         /\ Floor(Taken(t)) <= Floor(EventOf(e)) /\ Floor(EventOf(e)) \in Nat
         /\ e.kind = "ModelRoundFinished" => Floor(Taken(t)) <= e.round
<1>1. chan[t] # <<>> /\ e = Head(chan[t])
  BY DEF Heard
<1>2. e \in Sent /\ MayFollow(Taken(t), EventOf(e))
  BY <1>1, LegalTail DEF WireInv, StreamShape, Wire
<1>3. EventOf(e) \in Event /\ EventOf(e).kind = e.kind /\ EventOf(e).round = e.round /\ e.round \in Nat
  BY <1>2 DEF Sent, Event, EventOf, Ev
<1>4. Taken(t) \in Event /\ Taken(t).round \in Nat
  BY TakenIsEvent
<1>5. Floor(Taken(t)) \in Nat /\ Floor(EventOf(e)) \in Nat
  BY <1>3, <1>4 DEF Floor
<1> QED
  BY <1>2, <1>3, <1>4, <1>5, FloorRises

LEMMA IsBehindMore ==
  ASSUME NEW t \in Tasks, NEW row \in StoredRow, NEW m \in Nat, NEW n \in Nat, m <= n,
         IsBehind(row, t, m)
  PROVE  IsBehind(row, t, n)
BY DEF IsBehind, StoredRow

\* The newest row is behind the next round while the bridge waits for an event.
LEMMA ReceivingBehind ==
  ASSUME RowInv, ClaimInv, NEW t \in Tasks, bridge[t].pc = "receiving", rows[owner[t]] # <<>>
  PROVE  LastOf(owner[t]) \in StoredRow /\ IsBehind(LastOf(owner[t]), t, Floor(Taken(t)))
<1>1. Active(t) /\ owner[t] \in Sessions /\ step[t] = "returned"
  BY BridgeShape
<1>2. rows[owner[t]] \in Seq(StoredRow)
  BY <1>1 DEF RowInv, RowData
<1> QED
  BY <1>1, <1>2, RowOf DEF RowInv, Place, Precedes, LastOf

LEMMA ForwardPlace ==
  ASSUME RowInv, WireInv, ClaimInv, NEW t \in Tasks, NEW e \in Heard(t),
         Forward(t, e), BridgeOnly, UNCHANGED rows,
         bridge' = bridge \/ Move(t, "finishing", NoMessage, 0)
  PROVE  RowInv'
<1>1. bridge[t].pc = "receiving"
  BY DEF Heard
<1>2. /\ Active(t) /\ owner[t] \in Sessions /\ step[t] = "returned"
  BY <1>1, BridgeShape
<1>3. /\ bridge'[t].pc \in {"receiving", "finishing"}
      /\ \A u \in Tasks \ {t} : bridge'[u] = bridge[u]
  BY <1>1 DEF Move, At, ClaimInv, Shape
<1>4. ui' = [ui EXCEPT ![t] = Append(ui[t], e)] /\ UNCHANGED <<rows, turn, owner, step>>
  BY DEF Forward, BridgeOnly, startVars
<1>5. Taken(t)' = EventOf(e)
  <2>1. e \in Sent /\ ui[t] \in Seq(Sent)
    BY HeardRaises DEF WireInv, StreamShape
  <2>2. Append(ui[t], e) # <<>> /\ Append(ui[t], e)[Len(Append(ui[t], e))] = e
    BY <2>1, AppendProperties
  <2>3. ui'[t] = Append(ui[t], e)
    BY <1>4 DEF WireInv, StreamShape
  <2> QED
    BY <1>3, <2>2, <2>3 DEF Taken, InHand, Newest
<1>6. rows[owner[t]] # <<>> => IsBehind(LastOf(owner[t]), t, Floor(EventOf(e)))
  BY <1>1, ReceivingBehind, HeardRaises, IsBehindMore
<1>7. Floor(Taken(t))' = Floor(EventOf(e))
  BY <1>5 DEF Floor
<1>8. Place(t)'
  BY <1>2, <1>3, <1>4, <1>6, <1>7 DEF Place, InHand, Precedes, IsBehind, LastOf
<1>9. \A u \in Tasks \ {t} : ui'[u] = ui[u]
  BY <1>4 DEF WireInv, StreamShape
<1> QED
  BY <1>3, <1>4, <1>8, <1>9, BridgeQuiet

LEMMA RoundPlace ==
  ASSUME RowInv, WireInv, ClaimInv, NEW t \in Tasks, HearRound(t)
  PROVE  RowInv'
<1>1. PICK e \in Heard(t) :
        /\ e.kind = "ModelRoundFinished"
        /\ Move(t, "persisting", e, e.tools + 1) \/ Move(t, "settling", e, 0)
        /\ BridgeOnly /\ UNCHANGED <<rows, ui>>
  BY DEF HearRound
<1>2. bridge[t].pc = "receiving" /\ UNCHANGED <<rows, turn, owner, step, ui>>
  BY <1>1 DEF Heard, BridgeOnly, startVars
<1>3. /\ Active(t) /\ owner[t] \in Sessions /\ step[t] = "returned"
  BY <1>2, BridgeShape
<1>4. /\ \A u \in Tasks \ {t} : bridge'[u] = bridge[u]
      /\ bridge'[t].event = e
      /\ \/ bridge'[t].pc = "persisting" /\ bridge'[t].left = e.tools + 1
         \/ bridge'[t].pc = "settling"
  BY <1>1 DEF Move, At, ClaimInv, Shape
<1>5. e.tools \in Nat /\ e.round \in Nat /\ e \in Sent
  BY HeardRaises DEF Sent
<1>6. rows[owner[t]] # <<>> =>
        IsBehind(LastOf(owner[t]), t, e.round) /\ IsBehind(LastOf(owner[t]), t, e.round + 1)
  <2>1. e.round + 1 \in Nat /\ e.round <= e.round + 1
    BY <1>5
  <2>2. rows[owner[t]] # <<>> => IsBehind(LastOf(owner[t]), t, e.round)
    BY <1>1, <1>2, ReceivingBehind, HeardRaises, IsBehindMore
  <2> QED
    BY <1>2, <1>5, <2>1, <2>2, ReceivingBehind, IsBehindMore
<1>7. bridge'[t].pc = "persisting" => Written(t)' = 0
  BY <1>4, <1>5 DEF Written
<1>8. bridge'[t].pc = "settling" => Floor(Taken(t))' = e.round + 1
  BY <1>1, <1>4 DEF Taken, InHand, EventOf, Ev, Floor, InRound
<1>9. Place(t)'
  <2>1. CASE bridge'[t].pc = "persisting"
    BY <1>1, <1>2, <1>3, <1>4, <1>5, <1>6, <1>7, <2>1 DEF Place, InHand, Precedes, IsBehind, LastOf
  <2>2. CASE bridge'[t].pc = "settling"
    BY <1>1, <1>2, <1>3, <1>4, <1>5, <1>6, <1>8, <2>2 DEF Place, InHand, Precedes, IsBehind, LastOf
  <2> QED
    BY <1>4, <2>1, <2>2
<1> QED
  BY <1>2, <1>4, <1>9, BridgeQuiet

LEMMA PersistPlace ==
  ASSUME RowInv, WireInv, ClaimInv, NEW t \in Tasks, PersistRow(t)
  PROVE  RowInv'
<1> DEFINE b == bridge[t]  s == owner[t]
           row == [turn |-> turn[t], round |-> b.event.round, i |-> Written(t),
                   role |-> IF Written(t) = 0 THEN "assistant" ELSE "tool"]
<1>1. /\ b.pc = "persisting" /\ UNCHANGED <<turn, owner, step, ui>>
      /\ \/ /\ Insert(s, row)
            /\ Move(t, IF b.left > 1 THEN "persisting" ELSE "settling", b.event, b.left - 1)
         \/ (UNCHANGED rows \/ Insert(s, row)) /\ Move(t, "settling", b.event, 0)
  BY DEF PersistRow, AppendSucceeds, AppendFails, BridgeOnly, startVars, Written
<1>2. /\ Active(t) /\ s \in Sessions /\ step[t] = "returned" /\ b.event.tools \in Nat
      /\ b.event.round \in Nat /\ b.event.round \in 0 .. MaxRounds /\ b.left \in Int /\ turn[t] \in Nat
  BY <1>1, BridgeShape
<1>3. /\ b.event.kind = "ModelRoundFinished" /\ b.left >= 1 /\ Written(t) >= 0
      /\ rows[s] # <<>> => Precedes(t, LastOf(s))
  BY <1>1, <1>2 DEF RowInv, Place, InHand
<1>4. Written(t) \in Nat
  BY <1>2, <1>3 DEF Written
<1>5. row \in StoredRow
  BY <1>2, <1>4 DEF StoredRow
<1>6. /\ row.turn = turn[t] /\ row.round = b.event.round /\ row.i = Written(t)
  OBVIOUS
<1> HIDE DEF row
<1>7. rows[s] # <<>> =>
        /\ Before(LastOf(s), row)
        /\ row.i > 0 => LastOf(s).turn = row.turn /\ LastOf(s).round = row.round
                         /\ LastOf(s).i = row.i - 1
  <2> SUFFICES ASSUME rows[s] # <<>>
               PROVE  /\ Before(LastOf(s), row)
                      /\ row.i > 0 => LastOf(s).turn = row.turn /\ LastOf(s).round = row.round
                                       /\ LastOf(s).i = row.i - 1
    OBVIOUS
  <2>1. CASE Written(t) = 0
    BY <1>1, <1>2, <1>3, <1>6, <2>1 DEF Precedes, IsBehind, Before
  <2>2. CASE Written(t) > 0
    BY <1>1, <1>2, <1>3, <1>4, <1>6, <2>2 DEF Precedes, Before
  <2> QED
    BY <1>4, <2>1, <2>2
<1>8. ASSUME Insert(s, row)
      PROVE  /\ RowData' /\ rows'[s] # <<>> /\ LastOf(s)' = row
             /\ \A r \in Sessions \ {s} : rows'[r] = rows[r]
  <2>1. RowData /\ turn' \in [Tasks -> Nat]
    BY <1>1 DEF RowInv, RowData
  <2> QED
    BY <1>1, <1>2, <1>5, <1>7, <1>8, <2>1, InsertKeeps DEF LastOf
<1>9. \A u \in Tasks \ {t} : bridge'[u] = bridge[u]
  BY <1>1 DEF Move, ClaimInv, Shape
<1>10. RowData' /\ \A r \in Sessions \ {s} : rows'[r] = rows[r]
  BY <1>1, <1>8, SameData DEF RowInv
<1>11. \A u \in Tasks \ {t} : Steady(u)
  BY <1>1, <1>2, <1>9, <1>10, OthersElsewhere DEF Steady
<1>12. Place(t)'
  <2>1. bridge'[t].event = b.event
    BY <1>1 DEF Move, At, ClaimInv, Shape
  <2>2. CASE bridge'[t].pc = "persisting"
    <3>1. Insert(s, row) /\ bridge'[t].left = b.left - 1 /\ b.left > 1
      BY <1>1, <2>2 DEF Move, At, ClaimInv, Shape
    <3>2. Written(t)' = Written(t) + 1
      BY <1>2, <2>1, <3>1 DEF Written
    <3>3. LastOf(owner[t])' = row /\ rows'[s] # <<>>
      BY <1>1, <1>8, <3>1 DEF LastOf
    <3>4. Precedes(t, LastOf(owner[t]))'
      BY <1>1, <1>2, <1>4, <1>6, <2>1, <2>2, <3>2, <3>3 DEF Precedes
    <3> QED
      BY <1>1, <1>2, <1>3, <1>4, <2>1, <2>2, <3>1, <3>2, <3>4 DEF Place, InHand
  <2>3. CASE bridge'[t].pc = "settling"
    <3>1. Floor(Taken(t))' = b.event.round + 1
      BY <1>3, <2>1, <2>3 DEF Taken, InHand, EventOf, Ev, Floor, InRound
    <3>2. rows'[s] # <<>> => LastOf(s)'.turn < turn[t] \/ (LastOf(s)'.turn = turn[t] /\ LastOf(s)'.round < b.event.round + 1)
      <4>1. CASE Insert(s, row)
        BY <1>2, <1>6, <1>8, <4>1
      <4>2. CASE UNCHANGED rows
        <5>1. LastOf(s)' = LastOf(s)
          BY <1>1, <4>2 DEF LastOf
        <5> SUFFICES ASSUME rows[s] # <<>>
                     PROVE  LastOf(s).turn < turn[t] \/ (LastOf(s).turn = turn[t] /\ LastOf(s).round < b.event.round + 1)
          BY <4>2, <5>1
        <5>2. LastOf(s) \in StoredRow
          BY <1>2, RowOf DEF RowInv, RowData, LastOf
        <5>3. LastOf(s).round \in Nat
          BY <5>2 DEF StoredRow
        <5> QED
          BY <1>1, <1>2, <1>3, <1>4, <5>3 DEF Precedes, IsBehind
      <4> QED
        BY <1>1, <4>1, <4>2
    <3>3. rows'[owner'[t]] # <<>> => Precedes(t, LastOf(owner[t]))'
      BY <1>1, <1>2, <2>3, <3>1, <3>2 DEF Precedes, IsBehind, LastOf
    <3> QED
      BY <1>1, <1>2, <1>3, <2>1, <2>3, <3>3 DEF Place, InHand
  <2> QED
    BY <1>1, <2>2, <2>3 DEF Move, At, ClaimInv, Shape
<1> QED
  BY <1>10, <1>11, <1>12, SteadyKeeps DEF RowInv

LEMMA SettlePlace ==
  ASSUME RowInv, WireInv, ClaimInv, NEW t \in Tasks, SettleRound(t)
  PROVE  RowInv'
<1> DEFINE e == bridge[t].event
<1>1. /\ bridge[t].pc = "settling" /\ ui' = [ui EXCEPT ![t] = Append(ui[t], e)]
      /\ UNCHANGED <<rows, turn, owner, step>> /\ Move(t, "receiving", NoMessage, 0)
  BY DEF SettleRound, Forward, BridgeOnly, startVars
<1>2. /\ Active(t) /\ owner[t] \in Sessions /\ step[t] = "returned"
  BY <1>1, BridgeShape
<1>3. /\ bridge'[t].pc = "receiving" /\ \A u \in Tasks \ {t} : bridge'[u] = bridge[u]
  BY <1>1 DEF Move, At, ClaimInv, Shape
<1>4. \A u \in Tasks \ {t} : ui'[u] = ui[u]
  BY <1>1 DEF WireInv, StreamShape
<1>5. Taken(t)' = Taken(t)
  <2>1. e \in Sent /\ ui[t] \in Seq(Sent)
    <3>1. e \in Message
      BY DEF ClaimInv, Shape
    <3>2. Message \subseteq Sent
      BY KernelAssumption DEF Message, Sent
    <3> QED
      BY <3>1, <3>2 DEF WireInv, StreamShape
  <2>2. Append(ui[t], e) # <<>> /\ Append(ui[t], e)[Len(Append(ui[t], e))] = e
    BY <2>1, AppendProperties
  <2>3. ui'[t] = Append(ui[t], e)
    BY <1>1 DEF WireInv, StreamShape
  <2>4. Taken(t) = EventOf(e)
    BY <1>1 DEF Taken, InHand
  <2> QED
    BY <1>3, <2>2, <2>3, <2>4 DEF Taken, InHand, Newest
<1>6. Floor(Taken(t))' = Floor(Taken(t))
  BY <1>5 DEF Floor
<1>7. Place(t)'
  <2>1. rows[owner[t]] # <<>> => IsBehind(LastOf(owner[t]), t, Floor(Taken(t)))
    BY <1>1, <1>2 DEF RowInv, Place, Precedes
  <2> QED
    BY <1>1, <1>2, <1>3, <1>6, <2>1 DEF Place, InHand, Precedes, IsBehind, LastOf
<1> QED
  BY <1>1, <1>3, <1>4, <1>7, BridgeQuiet

LEMMA EndPlace ==
  ASSUME RowInv, WireInv, ClaimInv, NEW t \in Tasks, HearClosed(t) \/ ReleaseSession(t)
  PROVE  RowInv'
<1>1. UNCHANGED <<rows, turn, owner, step, ui>>
  BY DEF HearClosed, ReleaseSession, BridgeOnly, startVars
<1>2. /\ bridge[t].pc \in {"receiving", "finishing"} /\ bridge'[t].pc \in {"finishing", "done"}
      /\ \A u \in Tasks \ {t} : bridge'[u] = bridge[u]
  BY DEF HearClosed, ReleaseSession, Move, At, ClaimInv, Shape
<1>3. ~InHand(t) /\ ~InHand(t)' /\ Taken(t)' = Taken(t)
  BY <1>1, <1>2 DEF InHand, Taken, Newest
<1>4. Floor(Taken(t))' = Floor(Taken(t)) /\ (Active(t)' => Active(t))
  BY <1>1, <1>2, <1>3 DEF Floor, Active
<1>5. Place(t)'
  BY <1>1, <1>2, <1>3, <1>4 DEF RowInv, Place, Precedes, IsBehind, LastOf
<1> QED
  BY <1>1, <1>2, <1>5, BridgeQuiet

LEMMA BridgePlace ==
  ASSUME RowInv, WireInv, ClaimInv, NEW t \in Tasks, BridgeStep(t)
  PROVE  RowInv'
<1>1. CASE HearTerminal(t) \/ HearRequest(t) \/ HearRetry(t) \/ HearOther(t)
  BY <1>1, ForwardPlace DEF HearTerminal, HearRequest, HearRetry, HearOther
<1> QED
  BY <1>1, RoundPlace, PersistPlace, SettlePlace, EndPlace DEF BridgeStep

\* The rows of a deleted session go with it.
LEMMA DeletePlace ==
  ASSUME RowInv, NEW s \in Sessions, DeleteSession(s)
  PROVE  RowInv'
<1> USE DEF RowInv
<1>1. /\ rows' = [rows EXCEPT ![s] = <<>>]
      /\ UNCHANGED <<step, owner, turn, bridge, ui>>
  BY DEF DeleteSession, startVars, bridgeVars
<1>2. RowData'
  <2>1. /\ rows' \in [Sessions -> Seq(StoredRow)] /\ rows'[s] = <<>>
        /\ \A r \in Sessions \ {s} : rows'[r] = rows[r]
    BY <1>1, EmptySeq DEF RowData
  <2>2. Len(<<>>) = 0 /\ DOMAIN <<>> = {}
    OBVIOUS
  <2> QED
    BY <1>1, <2>1, <2>2 DEF RowData, RowsInOrder
<1>3. ASSUME NEW t \in Tasks PROVE Place(t)'
  <2>1. CASE Active(t) /\ owner[t] = s
    <3>1. Place(t) /\ rows'[owner'[t]] = <<>> /\ (Active(t)' <=> Active(t)) /\ owner' = owner
      BY <1>1, <2>1 DEF Place, RowData, Active
    <3> QED
      BY <1>1, <2>1, <3>1 DEF Place, InHand, Written
  <2>2. CASE ~(Active(t) /\ owner[t] = s)
    <3>1. Steady(t)
      BY <1>1, <2>2 DEF Steady, Place, RowData
    <3> QED
      BY <3>1, SteadyKeeps
  <2> QED
    BY <2>1, <2>2
<1> QED
  BY <1>2, <1>3

LEMMA CrashPlace ==
  ASSUME RowInv, Crash
  PROVE  RowInv'
<1>1. /\ UNCHANGED <<rows, turn>> /\ bridge' = [t \in Tasks |-> Idle]
      /\ step' = [t \in Tasks |-> IF step[t] = "idle" THEN "idle" ELSE "lost"]
  BY DEF Crash
<1>2. \A t \in Tasks : ~Active(t)' /\ ~InHand(t)'
  BY <1>1 DEF Active, InHand, Idle, At
<1> QED
  BY <1>1, <1>2, RestsPlace, SameData DEF RowInv

LEMMA RowInvariance == KernelSpec => []RowInv
<1>1. KernelInit => RowInv
  <2> SUFFICES ASSUME KernelInit PROVE RowInv
    OBVIOUS
  <2>1. \A s \in Sessions : rows[s] = <<>>
    BY DEF KernelInit
  <2>2. RowData
    BY <2>1 DEF KernelInit, RowData, RowsInOrder
  <2>3. \A t \in Tasks : ~Active(t) /\ ~InHand(t)
    BY DEF KernelInit, Active, InHand, Idle, At
  <2> QED
    BY <2>2, <2>3 DEF RowInv, Place, InHand
<1>2. RowInv /\ WireInv /\ ClaimInv /\ [KernelNext]_vars => RowInv'
  <2> SUFFICES ASSUME RowInv, WireInv, ClaimInv, [KernelNext]_vars PROVE RowInv'
    OBVIOUS
  <2>1. CASE UNCHANGED <<rows, turn, step, owner, bridge, ui>>
    <3>1. \A t \in Tasks : Steady(t)
      BY <2>1 DEF Steady
    <3> QED
      BY <2>1, <3>1, SteadyKeeps, SameData DEF RowInv
  <2>2. CASE \E t \in Tasks : AgentStep(t) \/ CancelTask(t)
    BY <2>1, <2>2 DEF AgentStep, HangUp, PublishEvent, CancelTask, startVars, bridgeVars
  <2>3. CASE UNCHANGED vars
    BY <2>1, <2>3 DEF vars, startVars, bridgeVars
  <2> QED
    BY <2>2, <2>3, StartPlace, ClaimPlace, BridgePlace, DeletePlace, CrashPlace DEF KernelNext
<1> QED
  BY <1>1, <1>2, WireInvariance, ClaimInvariance, PTL DEF KernelSpec

\* The rows of a session are stored in the order of what happened, across its
\* tasks: a turn of its own for each prompt, rounds in order, and no tool row
\* without its assistant row; whatever storage refuses, whatever is deleted and
\* wherever the process dies (session_service.rs:71-163).
THEOREM RowsInOrderTheorem == KernelSpec => []RowsInOrder
BY RowInvariance, PTL DEF RowInv, RowData

-----------------------------------------------------------------------------
(* Model calls.                                                            *)

LogEntry == [round : Nat, ok : BOOLEAN]

\* The request of a stream that has no outcome yet.
Unanswered(s) ==
  {i \in Requested(s) : \A k \in i + 1 .. Len(s) : s[k].kind \notin CallOutcome}

\* A stream finishes with a call whose outcome was not announced.
EndsCall(s) ==
  /\ s # <<>> /\ Last(s).kind = "Finished"
  /\ \E i \in Requested(s) : \A k \in i + 1 .. Len(s) - 1 : s[k].kind \notin CallOutcome

Successes(l) == {k \in DOMAIN l : l[k].ok}

OneIf(b) == IF b THEN 1 ELSE 0

\* The bridge's open call is the request without an outcome, and while a round
\* is streamed it is that of the round.
Accounted(t) ==
  /\ Len(logs[t]) + OneIf(pending[t] # 0)
       = Cardinality(Requested(ui[t])) - Cardinality(Unannounced(ui[t]))
  /\ Cardinality(Successes(logs[t])) = Cardinality(RoundsFinished(ui[t])) + OneIf(EndsCall(ui[t]))
  /\ pending[t] # 0 <=> Unanswered(ui[t]) # {}
  /\ LET n == Newest(NoEvent, ui[t])
     IN /\ n.kind \in InRound => pending[t] = n.round
        /\ n.kind \in InRound \cup {"ModelRequestRetrying"} => n.round > 0

CallInv ==
  /\ logs \in [Tasks -> Seq(LogEntry)] /\ pending \in [Tasks -> Nat]
  /\ \A t \in Tasks : Accounted(t)

-----------------------------------------------------------------------------
(* Counting.                                                               *)

LEMMA CountUpTo ==
  ASSUME NEW n \in Nat, NEW S \in SUBSET (1 .. n)
  PROVE  /\ IsFiniteSet(S) /\ Cardinality(S) \in Nat
         /\ Cardinality(S \cup {n + 1}) = Cardinality(S) + 1
<1>1. IsFiniteSet(1 .. n)
  BY FS_Interval
<1>2. IsFiniteSet(S)
  BY <1>1, FS_Subset
<1>3. n + 1 \notin S
  OBVIOUS
<1> QED
  BY <1>2, <1>3, FS_CardinalityType, FS_AddElement

LEMMA AppendFacts ==
  ASSUME NEW S, NEW s \in Seq(S), NEW e \in S
  PROVE  /\ Append(s, e) \in Seq(S) /\ Append(s, e) # <<>>
         /\ Len(s) \in Nat /\ Len(Append(s, e)) = Len(s) + 1
         /\ DOMAIN s = 1 .. Len(s) /\ DOMAIN Append(s, e) = 1 .. Len(s) + 1
         /\ \A i \in 1 .. Len(s) : Append(s, e)[i] = s[i]
         /\ Append(s, e)[Len(s) + 1] = e /\ Last(Append(s, e)) = e
BY AppendProperties DEF Last

\* What one more event does to the calls of a stream.
LEMMA CallsAfter ==
  ASSUME NEW s \in Seq(Sent), NEW e \in Sent
  PROVE  LET a == Append(s, e)  n == Len(s) + 1
             opens == e.kind = "ModelRequestStarted"
         IN /\ Requested(a) = IF opens THEN Requested(s) \cup {n} ELSE Requested(s)
            /\ RoundsFinished(a) = IF e.kind = "ModelRoundFinished"
                                     THEN RoundsFinished(s) \cup {n} ELSE RoundsFinished(s)
            /\ Unanswered(a) = IF opens THEN {n}
                               ELSE IF e.kind \in CallOutcome THEN {} ELSE Unanswered(s)
            /\ Unannounced(a) = IF opens THEN Unannounced(s) \cup Unanswered(s) ELSE Unannounced(s)
            /\ EndsCall(a) <=> e.kind = "Finished" /\ Unanswered(s) # {}
<1> DEFINE a == Append(s, e)  n == Len(s) + 1
<1>1. /\ Len(s) \in Nat /\ Len(a) = n /\ DOMAIN s = 1 .. Len(s) /\ DOMAIN a = 1 .. n
      /\ a # <<>> /\ a[n] = e /\ Last(a) = e
      /\ \A i \in 1 .. Len(s) : a[i] = s[i]
  BY AppendFacts
<1> HIDE DEF a
<1>2. Requested(a) = IF e.kind = "ModelRequestStarted" THEN Requested(s) \cup {n} ELSE Requested(s)
  BY <1>1 DEF Requested
<1>3. RoundsFinished(a) = IF e.kind = "ModelRoundFinished"
                            THEN RoundsFinished(s) \cup {n} ELSE RoundsFinished(s)
  BY <1>1 DEF RoundsFinished
<1>4. Requested(s) \subseteq 1 .. Len(s)
  BY <1>1 DEF Requested
<1>5. \A i \in Requested(s) :
        /\ \A k \in i + 1 .. n - 1 : a[k] = s[k]
        /\ (\A k \in i + 1 .. n : a[k].kind \notin CallOutcome)
             <=> e.kind \notin CallOutcome /\ i \in Unanswered(s)
  BY <1>1, <1>4 DEF Unanswered
<1>6. Unanswered(a) = IF e.kind = "ModelRequestStarted" THEN {n}
                      ELSE IF e.kind \in CallOutcome THEN {} ELSE Unanswered(s)
  <2>1. \A k \in n + 1 .. n : FALSE
    BY <1>1
  <2>2. CASE e.kind = "ModelRequestStarted"
    BY <1>1, <1>2, <1>5, <2>1, <2>2 DEF Unanswered, CallOutcome
  <2>3. CASE e.kind # "ModelRequestStarted"
    BY <1>1, <1>2, <1>5, <2>3 DEF Unanswered
  <2> QED
    BY <2>2, <2>3
<1>7. Unannounced(a) = IF e.kind = "ModelRequestStarted"
                         THEN Unannounced(s) \cup Unanswered(s) ELSE Unannounced(s)
  <2> DEFINE Passes(q, i, j) == /\ q[j].kind = "ModelRequestStarted"
                              /\ \A k \in i + 1 .. j - 1 : q[k].kind \notin CallOutcome
  <2>1. \A i \in Requested(s) : \A j \in i + 1 .. n - 1 : Passes(a, i, j) <=> Passes(s, i, j)
    BY <1>1, <1>4
  <2>2. \A i \in Requested(s) :
          Passes(a, i, n) <=> e.kind = "ModelRequestStarted" /\ i \in Unanswered(s)
    BY <1>1, <1>4, <1>5 DEF Unanswered
  <2>3. Unannounced(a) = {i \in Requested(a) : \E j \in i + 1 .. n : Passes(a, i, j)}
    BY <1>1 DEF Unannounced, Requested
  <2>4. Unannounced(s) = {i \in Requested(s) : \E j \in i + 1 .. n - 1 : Passes(s, i, j)}
    BY <1>1 DEF Unannounced, Requested
  <2>5. \A i \in Requested(s) : i + 1 .. n = (i + 1 .. n - 1) \cup {n}
    BY <1>1, <1>4
  <2>6. \A j \in n + 1 .. n : FALSE
    BY <1>1
  <2> HIDE DEF Passes
  <2>7. \A i \in Requested(s) : (\E j \in i + 1 .. n : Passes(a, i, j))
           <=> (\E j \in i + 1 .. n - 1 : Passes(s, i, j))
                 \/ (e.kind = "ModelRequestStarted" /\ i \in Unanswered(s))
    BY <2>1, <2>2, <2>5
  <2>8. Unanswered(s) \subseteq Requested(s)
    BY DEF Unanswered
  <2> QED
    BY <1>2, <2>3, <2>4, <2>6, <2>7, <2>8
<1>8. EndsCall(a) <=> e.kind = "Finished" /\ Unanswered(s) # {}
  <2>1. CASE e.kind = "Finished"
    <3>1. Requested(a) = Requested(s)
      BY <1>2, <2>1
    <3>2. \A i \in Requested(s) :
            (\A k \in i + 1 .. n - 1 : a[k].kind \notin CallOutcome) <=> i \in Unanswered(s)
      BY <1>1, <1>5 DEF Unanswered
    <3>3. EndsCall(a) <=> \E i \in Requested(s) : \A k \in i + 1 .. n - 1 : a[k].kind \notin CallOutcome
      BY <1>1, <2>1, <3>1 DEF EndsCall
    <3>4. Unanswered(s) \subseteq Requested(s)
      BY DEF Unanswered
    <3> QED
      BY <2>1, <3>2, <3>3, <3>4
  <2>2. CASE e.kind # "Finished"
    BY <1>1, <2>2 DEF EndsCall
  <2> QED
    BY <2>1, <2>2
<1> QED
  BY <1>2, <1>3, <1>6, <1>7, <1>8 DEF a

\* At most one request is without an outcome, and it was not passed over.
LEMMA OneUnanswered ==
  ASSUME NEW s \in Seq(Sent)
  PROVE  /\ Unannounced(s) \cap Unanswered(s) = {}
         /\ Unanswered(s) = {} \/ \E i \in 1 .. Len(s) : Unanswered(s) = {i}
<1>1. Len(s) \in Nat /\ Requested(s) \subseteq 1 .. Len(s)
  BY LenProperties DEF Requested
<1>2. \A i, j \in Unanswered(s) : i = j
  <2>1. ASSUME NEW i \in Unanswered(s), NEW j \in Unanswered(s), i < j PROVE FALSE
    BY <1>1, <2>1 DEF Unanswered, Requested, CallOutcome
  <2>2. Unanswered(s) \subseteq Nat
    BY <1>1 DEF Unanswered
  <2> QED
    BY <2>1, <2>2
<1>3. Unannounced(s) \cap Unanswered(s) = {}
  BY DEF Unannounced, Unanswered, CallOutcome
<1>4. Unanswered(s) \subseteq 1 .. Len(s)
  BY <1>1 DEF Unanswered
<1> QED
  BY <1>2, <1>3, <1>4

LEMMA CountCalls ==
  ASSUME NEW s \in Seq(Sent), NEW e \in Sent
  PROVE  LET a == Append(s, e)  opens == e.kind = "ModelRequestStarted"
         IN /\ Cardinality(Requested(s)) \in Nat /\ Cardinality(Unannounced(s)) \in Nat
            /\ Cardinality(RoundsFinished(s)) \in Nat
            /\ Cardinality(Requested(a)) = Cardinality(Requested(s)) + OneIf(opens)
            /\ Cardinality(RoundsFinished(a))
                 = Cardinality(RoundsFinished(s)) + OneIf(e.kind = "ModelRoundFinished")
            /\ Cardinality(Unannounced(a))
                 = Cardinality(Unannounced(s)) + OneIf(opens /\ Unanswered(s) # {})
<1> DEFINE a == Append(s, e)  n == Len(s) + 1  opens == e.kind = "ModelRequestStarted"
<1>1. Len(s) \in Nat /\ DOMAIN s = 1 .. Len(s)
  BY LenProperties
<1>2. /\ Requested(s) \in SUBSET (1 .. Len(s)) /\ RoundsFinished(s) \in SUBSET (1 .. Len(s))
      /\ Unannounced(s) \in SUBSET (1 .. Len(s))
  BY <1>1 DEF Requested, RoundsFinished, Unannounced
<1>3. /\ Requested(a) = IF opens THEN Requested(s) \cup {n} ELSE Requested(s)
      /\ RoundsFinished(a) = IF e.kind = "ModelRoundFinished"
                               THEN RoundsFinished(s) \cup {n} ELSE RoundsFinished(s)
      /\ Unannounced(a) = IF opens THEN Unannounced(s) \cup Unanswered(s) ELSE Unannounced(s)
  BY CallsAfter
<1> HIDE DEF a, n, opens
<1>4. /\ Cardinality(Requested(s)) \in Nat /\ Cardinality(Unannounced(s)) \in Nat
      /\ Cardinality(RoundsFinished(s)) \in Nat /\ IsFiniteSet(Unannounced(s))
      /\ Cardinality(Requested(s) \cup {n}) = Cardinality(Requested(s)) + 1
      /\ Cardinality(RoundsFinished(s) \cup {n}) = Cardinality(RoundsFinished(s)) + 1
  BY <1>1, <1>2, CountUpTo DEF n
<1>5. Cardinality(Unannounced(s) \cup Unanswered(s))
        = Cardinality(Unannounced(s)) + OneIf(Unanswered(s) # {})
  <2>1. CASE Unanswered(s) = {}
    BY <1>4, <2>1 DEF OneIf
  <2>2. CASE Unanswered(s) # {}
    <3>1. PICK i \in 1 .. Len(s) : Unanswered(s) = {i} /\ i \notin Unannounced(s)
      BY <2>2, OneUnanswered
    <3>2. Cardinality(Unannounced(s) \cup {i}) = Cardinality(Unannounced(s)) + 1
      BY <1>4, <3>1, FS_AddElement
    <3> QED
      BY <2>2, <3>1, <3>2 DEF OneIf
  <2> QED
    BY <2>1, <2>2
<1>6. Cardinality(Requested(a)) = Cardinality(Requested(s)) + OneIf(opens)
  BY <1>3, <1>4 DEF OneIf
<1>7. Cardinality(RoundsFinished(a))
        = Cardinality(RoundsFinished(s)) + OneIf(e.kind = "ModelRoundFinished")
  BY <1>3, <1>4 DEF OneIf
<1>8. Cardinality(Unannounced(a)) = Cardinality(Unannounced(s)) + OneIf(opens /\ Unanswered(s) # {})
  BY <1>3, <1>4, <1>5 DEF OneIf
<1> QED
  BY <1>4, <1>6, <1>7, <1>8 DEF a, opens

\* One more entry of the log.
LEMMA CountLog ==
  ASSUME NEW l \in Seq(LogEntry), NEW x \in LogEntry
  PROVE  /\ Append(l, x) \in Seq(LogEntry) /\ Len(l) \in Nat /\ Len(Append(l, x)) = Len(l) + 1
         /\ Cardinality(Successes(l)) \in Nat
         /\ Cardinality(Successes(Append(l, x))) = Cardinality(Successes(l)) + OneIf(x.ok)
<1> DEFINE a == Append(l, x)
<1>1. /\ a \in Seq(LogEntry) /\ Len(l) \in Nat /\ Len(a) = Len(l) + 1
      /\ DOMAIN l = 1 .. Len(l) /\ DOMAIN a = 1 .. Len(l) + 1
      /\ a[Len(l) + 1] = x /\ \A i \in 1 .. Len(l) : a[i] = l[i]
  BY AppendFacts
<1> HIDE DEF a
<1>2. Successes(l) \in SUBSET (1 .. Len(l))
  BY <1>1 DEF Successes
<1>3. Successes(a) = IF x.ok THEN Successes(l) \cup {Len(l) + 1} ELSE Successes(l)
  BY <1>1 DEF Successes
<1>4. /\ Cardinality(Successes(l)) \in Nat
      /\ Cardinality(Successes(l) \cup {Len(l) + 1}) = Cardinality(Successes(l)) + 1
  BY <1>1, <1>2, CountUpTo
<1> QED
  BY <1>1, <1>3, <1>4 DEF a, OneIf

-----------------------------------------------------------------------------
(* The calls of a task are accounted for.                                  *)

\* What the bridge puts down when it forwards event e.
Books(t, e) ==
  /\ e.kind \in Terminal =>
       /\ IF pending[t] # 0 THEN Log(t, e.kind = "Finished") ELSE UNCHANGED logs
       /\ pending' = [pending EXCEPT ![t] = 0]
  /\ e.kind = "ModelRequestStarted" =>
       pending' = [pending EXCEPT ![t] = e.round] /\ UNCHANGED logs
  /\ e.kind \in {"ModelRequestRetrying", "ModelRoundFinished"} =>
       IF pending[t] = e.round
         THEN Log(t, e.kind = "ModelRoundFinished") /\ pending' = [pending EXCEPT ![t] = 0]
         ELSE UNCHANGED <<logs, pending>>
  /\ e.kind \notin CallOutcome => UNCHANGED <<logs, pending>>

\* Where a call stands when the stream goes on with e.
LEMMA CallStands ==
  ASSUME CallInv, WireInv, NEW t \in Tasks, NEW e \in Sent,
         MayFollow(Newest(NoEvent, ui[t]), EventOf(e))
  PROVE  /\ ~EndsCall(ui[t]) /\ e.round \in Nat
         /\ e.kind \in InRound \cup {"ModelRequestRetrying", "ModelRoundFinished"} => e.round > 0
         /\ e.kind \in (InRound \ {"ModelRequestStarted"}) \cup {"ModelRequestRetrying", "ModelRoundFinished"}
              => pending[t] = e.round
<1> DEFINE n == Newest(NoEvent, ui[t])  v == EventOf(e)
<1>1. v.kind = e.kind /\ v.round = e.round /\ e.round \in Nat
  BY DEF EventOf, Ev, Sent
<1>2. n.round \in Nat
  <2>1. ui[t] \in Seq(Sent)
    BY DEF WireInv, StreamShape
  <2>2. ui[t] # <<>> => ui[t][Len(ui[t])] \in Sent
    BY <2>1, EmptySeq
  <2>3. ui[t] # <<>> => ui[t][Len(ui[t])].round \in Nat
    BY <2>2 DEF Sent
  <2> QED
    BY <2>3 DEF Newest, NoEvent, EventOf, Ev
<1>3. /\ n.kind \in InRound => pending[t] = n.round
      /\ n.kind \in InRound \cup {"ModelRequestRetrying"} => n.round > 0
  BY DEF CallInv, Accounted
<1>4. EndsCall(ui[t]) => n.kind = "Finished"
  BY DEF EndsCall, Newest, Last, EventOf, Ev
<1> HIDE DEF n, v
<1>5. MayFollow(n, v)
  BY DEF n, v
<1>6. n.kind # "Finished"
  BY <1>5 DEF MayFollow, Opens, Compacts, Requests, Streams, Closes, NoEvent, Terminal, InRound
<1>7. CASE Requests(n, v)
  BY <1>1, <1>2, <1>3, <1>4, <1>6, <1>7 DEF Requests
<1>8. CASE Streams(n, v)
  BY <1>1, <1>2, <1>3, <1>4, <1>6, <1>8 DEF Streams
<1>9. CASE Opens(n, v) \/ Compacts(n, v) \/ Closes(n, v)
  <2>1. e.kind \notin InRound \cup {"ModelRequestRetrying", "ModelRoundFinished"}
    BY <1>1, <1>9 DEF Opens, Compacts, Closes, InRound, Ev
  <2> QED
    BY <1>1, <1>4, <1>6, <2>1
<1> QED
  BY <1>5, <1>7, <1>8, <1>9 DEF MayFollow

LEMMA BooksAccount ==
  ASSUME CallInv, WireInv, NEW t \in Tasks, NEW e \in Sent, Forward(t, e), Books(t, e),
         MayFollow(Newest(NoEvent, ui[t]), EventOf(e))
  PROVE  CallInv'
<1> DEFINE s == ui[t]  a == Append(s, e)  l == logs[t]  p == pending[t]
<1>1. /\ s \in Seq(Sent) /\ ui'[t] = a /\ \A u \in Tasks \ {t} : ui'[u] = ui[u]
  BY DEF WireInv, StreamShape, Forward
<1>2. /\ l \in Seq(LogEntry) /\ p \in Nat /\ logs \in [Tasks -> Seq(LogEntry)]
      /\ pending \in [Tasks -> Nat] /\ Accounted(t)
  BY DEF CallInv
<1>3. /\ ~EndsCall(s) /\ e.round \in Nat
      /\ e.kind \in InRound \cup {"ModelRequestRetrying", "ModelRoundFinished"} => e.round > 0
      /\ e.kind \in (InRound \ {"ModelRequestStarted"}) \cup {"ModelRequestRetrying", "ModelRoundFinished"}
              => p = e.round
  BY CallStands
<1>4. Newest(NoEvent, a).kind = e.kind /\ Newest(NoEvent, a).round = e.round
  BY <1>1, OneMore DEF EventOf, Ev
<1> HIDE DEF a
<1>5. LET opens == e.kind = "ModelRequestStarted"
      IN /\ Cardinality(Requested(s)) \in Nat /\ Cardinality(Unannounced(s)) \in Nat
         /\ Cardinality(RoundsFinished(s)) \in Nat
         /\ Cardinality(Requested(a)) = Cardinality(Requested(s)) + OneIf(opens)
         /\ Cardinality(RoundsFinished(a))
              = Cardinality(RoundsFinished(s)) + OneIf(e.kind = "ModelRoundFinished")
         /\ Cardinality(Unannounced(a))
              = Cardinality(Unannounced(s)) + OneIf(opens /\ Unanswered(s) # {})
  BY <1>1, CountCalls DEF a
<1>6. /\ EndsCall(a) <=> e.kind = "Finished" /\ Unanswered(s) # {}
      /\ Unanswered(a) = IF e.kind = "ModelRequestStarted" THEN {Len(s) + 1}
                         ELSE IF e.kind \in CallOutcome THEN {} ELSE Unanswered(s)
  BY <1>1, CallsAfter DEF a
<1>7. \A ok \in BOOLEAN :
        LET x == [round |-> p, ok |-> ok]
        IN /\ Append(l, x) \in Seq(LogEntry) /\ Len(l) \in Nat /\ Len(Append(l, x)) = Len(l) + 1
           /\ Cardinality(Successes(l)) \in Nat
           /\ Cardinality(Successes(Append(l, x))) = Cardinality(Successes(l)) + OneIf(ok)
  <2> TAKE ok \in BOOLEAN
  <2> DEFINE x == [round |-> p, ok |-> ok]
  <2>1. x \in LogEntry /\ x.ok = ok
    BY <1>2 DEF LogEntry
  <2> HIDE DEF x
  <2>2. /\ Append(l, x) \in Seq(LogEntry) /\ Len(l) \in Nat /\ Len(Append(l, x)) = Len(l) + 1
        /\ Cardinality(Successes(l)) \in Nat
        /\ Cardinality(Successes(Append(l, x))) = Cardinality(Successes(l)) + OneIf(ok)
    BY <1>2, <2>1, CountLog
  <2> QED
    BY <2>2 DEF x
<1>8. /\ Len(l) + OneIf(p # 0) = Cardinality(Requested(s)) - Cardinality(Unannounced(s))
      /\ Cardinality(Successes(l)) = Cardinality(RoundsFinished(s))
      /\ p # 0 <=> Unanswered(s) # {}
  BY <1>2, <1>3, <1>5 DEF Accounted, OneIf
<1>9. Len(l) \in Nat /\ Cardinality(Successes(l)) \in Nat
  BY <1>7
<1>10. ASSUME NEW m, NEW q, logs' = [logs EXCEPT ![t] = m], pending' = [pending EXCEPT ![t] = q],
              m \in Seq(LogEntry), q \in Nat,
              Len(m) + OneIf(q # 0) = Cardinality(Requested(a)) - Cardinality(Unannounced(a)),
              Cardinality(Successes(m)) = Cardinality(RoundsFinished(a)) + OneIf(EndsCall(a)),
              q # 0 <=> Unanswered(a) # {},
              e.kind \in InRound => q = e.round
       PROVE  CallInv'
  <2>1. logs' \in [Tasks -> Seq(LogEntry)] /\ pending' \in [Tasks -> Nat]
    BY <1>2, <1>10
  <2>2. logs'[t] = m /\ pending'[t] = q
    BY <1>2, <1>10
  <2>3. Accounted(t)'
    BY <1>1, <1>3, <1>4, <1>10, <2>2 DEF Accounted, OneIf
  <2>4. \A u \in Tasks \ {t} : logs'[u] = logs[u] /\ pending'[u] = pending[u] /\ ui'[u] = ui[u]
    BY <1>1, <1>2, <1>10
  <2>5. \A u \in Tasks \ {t} : Accounted(u)'
    BY <2>4 DEF CallInv, Accounted, OneIf
  <2> QED
    BY <2>1, <2>3, <2>5 DEF CallInv
<1>11. /\ UNCHANGED logs => logs' = [logs EXCEPT ![t] = l]
       /\ UNCHANGED pending => pending' = [pending EXCEPT ![t] = p]
       /\ \A ok \in BOOLEAN : Log(t, ok) => logs' = [logs EXCEPT ![t] = Append(l, [round |-> p, ok |-> ok])]
  BY <1>2 DEF Log
<1>12. CASE e.kind \in Terminal
  <2>1. /\ e.kind # "ModelRequestStarted" /\ e.kind # "ModelRoundFinished" /\ e.kind \in CallOutcome
        /\ e.kind \notin InRound
    BY <1>12 DEF Terminal, CallOutcome, InRound
  <2>2. CASE p # 0
    <3> DEFINE m == Append(l, [round |-> p, ok |-> e.kind = "Finished"])
    <3>1. logs' = [logs EXCEPT ![t] = m] /\ pending' = [pending EXCEPT ![t] = 0]
      BY <1>11, <1>12, <2>2 DEF Books
    <3>2. m \in Seq(LogEntry) /\ Len(m) = Len(l) + 1
          /\ Cardinality(Successes(m)) = Cardinality(Successes(l)) + OneIf(e.kind = "Finished")
      BY <1>7
    <3> HIDE DEF m
    <3>3. Len(m) + OneIf(0 # 0) = Cardinality(Requested(a)) - Cardinality(Unannounced(a))
      BY <1>5, <1>8, <1>9, <2>1, <2>2, <3>2 DEF OneIf
    <3>4. Cardinality(Successes(m)) = Cardinality(RoundsFinished(a)) + OneIf(EndsCall(a))
      BY <1>5, <1>6, <1>8, <1>9, <2>1, <2>2, <3>2 DEF OneIf
    <3> QED
      BY <1>6, <1>10, <2>1, <3>1, <3>2, <3>3, <3>4
  <2>3. CASE p = 0
    <3>1. logs' = [logs EXCEPT ![t] = l] /\ pending' = [pending EXCEPT ![t] = 0]
      BY <1>11, <1>12, <2>3 DEF Books
    <3>2. Len(l) + OneIf(0 # 0) = Cardinality(Requested(a)) - Cardinality(Unannounced(a))
      BY <1>5, <1>8, <1>9, <2>1, <2>3 DEF OneIf
    <3>3. Cardinality(Successes(l)) = Cardinality(RoundsFinished(a)) + OneIf(EndsCall(a))
      BY <1>5, <1>6, <1>8, <1>9, <2>1, <2>3 DEF OneIf
    <3> QED
      BY <1>2, <1>6, <1>10, <2>1, <3>1, <3>2, <3>3
  <2> QED
    BY <2>2, <2>3
<1>13. CASE e.kind = "ModelRequestStarted"
  <2>1. logs' = [logs EXCEPT ![t] = l] /\ pending' = [pending EXCEPT ![t] = e.round]
    BY <1>11, <1>13 DEF Books
  <2>2. e.round # 0 /\ e.kind \in InRound
    BY <1>3, <1>13 DEF InRound
  <2>3. Len(l) + OneIf(e.round # 0) = Cardinality(Requested(a)) - Cardinality(Unannounced(a))
    <3>1. /\ Cardinality(Requested(a)) = Cardinality(Requested(s)) + 1
          /\ Cardinality(Unannounced(a)) = Cardinality(Unannounced(s)) + OneIf(Unanswered(s) # {})
      BY <1>5, <1>13 DEF OneIf
    <3>2. OneIf(Unanswered(s) # {}) = OneIf(p # 0) /\ OneIf(p # 0) \in Nat /\ OneIf(e.round # 0) = 1
      BY <1>8, <2>2 DEF OneIf
    <3> QED
      BY <1>5, <1>8, <1>9, <3>1, <3>2
  <2>4. Cardinality(Successes(l)) = Cardinality(RoundsFinished(a)) + OneIf(EndsCall(a))
    BY <1>5, <1>6, <1>8, <1>9, <1>13 DEF OneIf
  <2> QED
    BY <1>2, <1>3, <1>6, <1>10, <1>13, <2>1, <2>2, <2>3, <2>4
<1>14. CASE e.kind \in {"ModelRequestRetrying", "ModelRoundFinished"}
  <2> DEFINE ok == e.kind = "ModelRoundFinished"  m == Append(l, [round |-> p, ok |-> ok])
  <2>1. /\ e.kind # "ModelRequestStarted" /\ e.kind # "Finished" /\ e.kind \in CallOutcome
        /\ e.kind \notin InRound /\ p = e.round /\ p # 0
    BY <1>3, <1>14 DEF CallOutcome, InRound
  <2>2. logs' = [logs EXCEPT ![t] = m] /\ pending' = [pending EXCEPT ![t] = 0]
    BY <1>11, <1>14, <2>1 DEF Books
  <2>3. m \in Seq(LogEntry) /\ Len(m) = Len(l) + 1
        /\ Cardinality(Successes(m)) = Cardinality(Successes(l)) + OneIf(ok)
    BY <1>7
  <2> HIDE DEF m
  <2>4. Len(m) + OneIf(0 # 0) = Cardinality(Requested(a)) - Cardinality(Unannounced(a))
    BY <1>5, <1>8, <1>9, <2>1, <2>3 DEF OneIf
  <2>5. Cardinality(Successes(m)) = Cardinality(RoundsFinished(a)) + OneIf(EndsCall(a))
    BY <1>5, <1>6, <1>8, <1>9, <2>1, <2>3 DEF OneIf
  <2> QED
    BY <1>6, <1>10, <2>1, <2>2, <2>3, <2>4, <2>5
<1>15. CASE e.kind \notin CallOutcome
  <2>1. logs' = [logs EXCEPT ![t] = l] /\ pending' = [pending EXCEPT ![t] = p]
    BY <1>11, <1>15 DEF Books
  <2>2. e.kind # "ModelRequestStarted" /\ e.kind # "ModelRoundFinished" /\ e.kind # "Finished"
    BY <1>15 DEF CallOutcome, Terminal
  <2>3. Len(l) + OneIf(p # 0) = Cardinality(Requested(a)) - Cardinality(Unannounced(a))
    <3>1. /\ Cardinality(Requested(a)) = Cardinality(Requested(s))
          /\ Cardinality(Unannounced(a)) = Cardinality(Unannounced(s))
      BY <1>5, <2>2 DEF OneIf
    <3> QED
      BY <1>8, <3>1
  <2>4. Cardinality(Successes(l)) = Cardinality(RoundsFinished(a)) + OneIf(EndsCall(a))
    BY <1>5, <1>6, <1>8, <1>9, <2>2 DEF OneIf
  <2> QED
    BY <1>2, <1>3, <1>6, <1>8, <1>10, <1>15, <2>1, <2>2, <2>3, <2>4
<1> QED
  BY <1>12, <1>13, <1>14, <1>15 DEF CallOutcome

\* Every other step leaves the calls alone.
LEMMA SameCalls ==
  ASSUME CallInv, UNCHANGED <<ui, logs, pending>>
  PROVE  CallInv'
BY DEF CallInv, Accounted, OneIf

LEMMA HearAccounts ==
  ASSUME CallInv, WireInv, ClaimInv, NEW t \in Tasks,
         HearTerminal(t) \/ HearRequest(t) \/ HearRetry(t) \/ HearOther(t)
  PROVE  CallInv'
<1>1. PICK e \in Heard(t) : Forward(t, e) /\ Books(t, e)
  <2>1. CASE HearTerminal(t)
    BY <2>1 DEF HearTerminal, Books, IsTerminal, CallOutcome, Terminal
  <2>2. CASE HearRequest(t)
    BY <2>2 DEF HearRequest, Books, CallOutcome, Terminal
  <2>3. CASE HearRetry(t)
    BY <2>3 DEF HearRetry, Books, CallOutcome, Terminal
  <2>4. CASE HearOther(t)
    BY <2>4 DEF HearOther, Books, CallOutcome
  <2> QED
    BY <2>1, <2>2, <2>3, <2>4
<1>2. bridge[t].pc = "receiving" /\ chan[t] # <<>> /\ e = Head(chan[t])
  BY DEF Heard
<1>3. chan[t] \in Seq(Sent) /\ Legal(Newest(NoEvent, ui[t]), chan[t])
  BY <1>2 DEF WireInv, StreamShape, Wire, Taken, InHand
<1> QED
  BY <1>1, <1>2, <1>3, LegalTail, BooksAccount

LEMMA SettleAccounts ==
  ASSUME CallInv, WireInv, ClaimInv, RowInv, NEW t \in Tasks, SettleRound(t)
  PROVE  CallInv'
<1> DEFINE e == bridge[t].event
<1>1. InHand(t) /\ e.kind = "ModelRoundFinished"
  BY DEF SettleRound, InHand, RowInv, Place
<1>2. e \in Sent /\ MayFollow(Newest(NoEvent, ui[t]), EventOf(e))
  BY <1>1, KernelAssumption DEF WireInv, Wire, ClaimInv, Shape, Message, Sent
<1>3. Forward(t, e) /\ Books(t, e)
  BY <1>1 DEF SettleRound, Books, CallOutcome, Terminal
<1> QED
  BY <1>2, <1>3, BooksAccount

LEMMA CallInvariance == KernelSpec => []CallInv
<1>1. KernelInit => CallInv
  <2> SUFFICES ASSUME KernelInit PROVE CallInv
    OBVIOUS
  <2>1. ASSUME NEW t \in Tasks PROVE Accounted(t)
    <3>1. ui[t] = <<>> /\ logs[t] = <<>> /\ pending[t] = 0 /\ Cardinality({}) = 0
      BY FS_EmptySet DEF KernelInit
    <3>2. Len(<<>>) = 0 /\ DOMAIN <<>> = {}
      OBVIOUS
    <3>3. /\ Requested(ui[t]) = {} /\ Unannounced(ui[t]) = {} /\ Unanswered(ui[t]) = {}
          /\ RoundsFinished(ui[t]) = {} /\ Successes(logs[t]) = {} /\ ~EndsCall(ui[t])
      BY <3>1, <3>2 DEF Requested, Unannounced, Unanswered, RoundsFinished, Successes, EndsCall
    <3>4. Newest(NoEvent, ui[t]).kind = "None"
      BY <3>1 DEF Newest, NoEvent
    <3>5. "None" \notin InRound \cup {"ModelRequestRetrying"}
      BY DEF InRound
    <3>6. OneIf(pending[t] # 0) = 0 /\ OneIf(EndsCall(ui[t])) = 0
      BY <3>1, <3>3 DEF OneIf
    <3>7. Len(logs[t]) = 0 /\ Cardinality(Requested(ui[t])) = 0 /\ Cardinality(Unannounced(ui[t])) = 0
          /\ Cardinality(Successes(logs[t])) = 0 /\ Cardinality(RoundsFinished(ui[t])) = 0
      BY <3>1, <3>2, <3>3
    <3> QED
      BY <3>1, <3>3, <3>4, <3>5, <3>6, <3>7 DEF Accounted
  <2>2. logs \in [Tasks -> Seq(LogEntry)] /\ pending \in [Tasks -> Nat]
    BY DEF KernelInit
  <2> QED
    BY <2>1, <2>2 DEF CallInv
<1>2. CallInv /\ WireInv /\ ClaimInv /\ RowInv /\ [KernelNext]_vars => CallInv'
  <2> SUFFICES ASSUME CallInv, WireInv, ClaimInv, RowInv, [KernelNext]_vars PROVE CallInv'
    OBVIOUS
  <2>1. CASE \E t \in Tasks : StartStep(t) \/ AgentStep(t) \/ CancelTask(t)
    BY <2>1, SameCalls DEF StartStep, BuildTools, ReadTurn, WritePrompt, AssembleContext, StartAgent,
       SpawnBridge, AgentStep, HangUp, PublishEvent, CancelTask, bridgeVars
  <2>2. CASE \E t \in Tasks : HearRound(t) \/ PersistRow(t) \/ HearClosed(t) \/ ReleaseSession(t)
    BY <2>2, SameCalls DEF HearRound, PersistRow, HearClosed, ReleaseSession
  <2>3. CASE \E t \in Tasks : BridgeStep(t)
    BY <2>2, <2>3, HearAccounts, SettleAccounts DEF BridgeStep
  <2>4. CASE \E t \in Tasks, s \in Sessions : ClaimSession(t, s) \/ DeleteSession(s)
    BY <2>4, SameCalls DEF ClaimSession, DeleteSession, bridgeVars
  <2>5. CASE Crash \/ UNCHANGED vars
    BY <2>5, SameCalls DEF Crash, vars, bridgeVars
  <2>6. CASE \E s \in Sessions : DeleteSession(s)
    BY <2>6, SameCalls DEF DeleteSession, bridgeVars
  <2> QED
    BY <2>1, <2>3, <2>4, <2>5, <2>6 DEF KernelNext
<1> QED
  BY <1>1, <1>2, WireInvariance, ClaimInvariance, RowInvariance, PTL DEF KernelSpec

\* Every model request the bridge has heard of is logged exactly once when its
\* outcome is known, and never before, and announced rounds as successes: for
\* every number of tasks and retries, with failing storage and crashes
\* (events.rs:72-82, 125-136, 163-177).
THEOREM CallsAccountedTheorem == KernelSpec => []CallsAccounted
<1>1. CallInv => CallsAccounted
  BY DEF CallInv, Accounted, CallsAccounted, Successes, EndsCall, OneIf
<1> QED
  BY <1>1, CallInvariance, PTL

-----------------------------------------------------------------------------
(* Rounds.                                                                 *)

\* Tool results of round r among the first n events of s that no retry of the
\* round discarded there.
KeptBy(s, n, r) ==
  {i \in 1 .. n :
     /\ s[i].kind = "ToolCallFinished" /\ s[i].round = r
     /\ \A j \in i + 1 .. n : ~(s[j].kind = "ModelRequestRetrying" /\ s[j].round = r)}

\* Every round a stream announces names the results that were kept of it, and
\* no later event adds one or takes one away.
Told(s) ==
  \A i \in RoundsFinished(s) :
    /\ s[i].tools = Cardinality(KeptBy(s, i, s[i].round))
    /\ \A j \in i + 1 .. Len(s) :
         s[j].round = s[i].round => s[j].kind \notin {"ToolCallFinished", "ModelRequestRetrying"}

Behind == Compaction \cup Terminal \cup {"ModelRoundFinished"}

\* The newest event l of stream s is in its newest round, which is announced
\* or has n results kept.
Counts(s, l, n) ==
  /\ \A i \in DOMAIN s : s[i].round <= l.round
  /\ \A i \in RoundsFinished(s) : s[i].round = l.round => l.kind \in Behind
  /\ l.kind \in InRound => n = Cardinality(KeptBy(s, Len(s), l.round))
  /\ l.kind = "ModelRequestRetrying" => KeptBy(s, Len(s), l.round) = {}

TellInv ==
  \A t \in Tasks : Told(Story(t)) /\ (t \in open => Counts(Story(t), last[t], results[t]))

-----------------------------------------------------------------------------
(* What is announced of a round is what was kept of it.                    *)

LEMMA KeptAgrees ==
  ASSUME NEW s \in Seq(Sent), NEW a \in Seq(Sent), NEW n \in Nat,
         \A i \in 1 .. n : a[i] = s[i]
  PROVE  \A r : KeptBy(a, n, r) = KeptBy(s, n, r)
BY DEF KeptBy

LEMMA KeptIsFinite ==
  ASSUME NEW s \in Seq(Sent), NEW n \in Nat, NEW r
  PROVE  IsFiniteSet(KeptBy(s, n, r)) /\ Cardinality(KeptBy(s, n, r)) \in Nat
<1>1. KeptBy(s, n, r) \in SUBSET (1 .. n)
  BY DEF KeptBy
<1> QED
  BY <1>1, CountUpTo

\* One more event keeps a result, discards those of its round or does neither.
LEMMA KeptAfter ==
  ASSUME NEW s \in Seq(Sent), NEW e \in Sent, NEW r
  PROVE  LET a == Append(s, e)  n == Len(s) + 1
         IN /\ e.kind = "ToolCallFinished" /\ e.round = r =>
                 Cardinality(KeptBy(a, n, r)) = Cardinality(KeptBy(s, Len(s), r)) + 1
            /\ e.kind = "ModelRequestRetrying" /\ e.round = r => KeptBy(a, n, r) = {}
            /\ e.kind \notin {"ToolCallFinished", "ModelRequestRetrying"} \/ e.round # r =>
                 KeptBy(a, n, r) = KeptBy(s, Len(s), r)
<1> DEFINE a == Append(s, e)  n == Len(s) + 1  K == KeptBy(s, Len(s), r)
<1>1. /\ Len(s) \in Nat /\ a[n] = e /\ \A i \in 1 .. Len(s) : a[i] = s[i]
  BY AppendFacts
<1> HIDE DEF a
<1>2. \A i \in 1 .. Len(s) :
        (\A j \in i + 1 .. n : ~(a[j].kind = "ModelRequestRetrying" /\ a[j].round = r))
          <=> /\ \A j \in i + 1 .. Len(s) : ~(s[j].kind = "ModelRequestRetrying" /\ s[j].round = r)
              /\ ~(e.kind = "ModelRequestRetrying" /\ e.round = r)
  BY <1>1
<1>3. \A j \in n + 1 .. n : FALSE
  BY <1>1
<1>4. KeptBy(a, n, r) =
        {i \in K : ~(e.kind = "ModelRequestRetrying" /\ e.round = r)}
          \cup {i \in {n} : e.kind = "ToolCallFinished" /\ e.round = r}
  BY <1>1, <1>2, <1>3 DEF KeptBy
<1>5. Cardinality(K \cup {n}) = Cardinality(K) + 1
  <2>1. K \in SUBSET (1 .. Len(s))
    BY DEF KeptBy
  <2> QED
    BY <1>1, <2>1, CountUpTo
<1>6. CASE e.kind = "ToolCallFinished" /\ e.round = r
  <2>1. KeptBy(a, n, r) = K \cup {n}
    BY <1>4, <1>6
  <2> QED
    BY <1>5, <1>6, <2>1 DEF a
<1>7. CASE e.kind = "ModelRequestRetrying" /\ e.round = r
  BY <1>4, <1>7 DEF a
<1>8. CASE e.kind \notin {"ToolCallFinished", "ModelRequestRetrying"} \/ e.round # r
  <2>1. KeptBy(a, n, r) = K
    BY <1>4, <1>8
  <2> QED
    BY <1>8, <2>1 DEF a
<1> QED
  BY <1>6, <1>7, <1>8

\* The beginning of a told stream is told.
LEMMA ToldBefore ==
  ASSUME NEW s \in Seq(Sent), NEW w \in Seq(Sent), Told(s \o w)
  PROVE  Told(s)
<1> DEFINE a == s \o w
<1>1. /\ a \in Seq(Sent) /\ Len(a) = Len(s) + Len(w) /\ Len(s) \in Nat /\ Len(w) \in Nat
      /\ \A i \in 1 .. Len(s) : a[i] = s[i]
      /\ DOMAIN s = 1 .. Len(s) /\ DOMAIN a = 1 .. Len(a)
  BY ConcatProperties, LenProperties
<1> HIDE DEF a
<1>2. ASSUME NEW i \in RoundsFinished(s)
      PROVE  /\ i \in 1 .. Len(s) /\ i \in RoundsFinished(a) /\ a[i] = s[i]
             /\ \A r : KeptBy(a, i, r) = KeptBy(s, i, r)
  <2>1. i \in 1 .. Len(s) /\ i \in RoundsFinished(a) /\ a[i] = s[i]
    BY <1>1 DEF RoundsFinished
  <2>2. i \in Nat /\ \A j \in 1 .. i : a[j] = s[j]
    BY <1>1, <2>1
  <2> QED
    BY <1>1, <2>1, <2>2, KeptAgrees
<1>3. Told(a)
  BY DEF a
<1> QED
  BY <1>1, <1>2, <1>3 DEF Told

\* A told stream keeps of an announced round what it announced.
LEMMA ToldIsKept ==
  ASSUME NEW s \in Seq(Sent), Told(s), NEW i \in RoundsFinished(s)
  PROVE  s[i].tools = Cardinality(Kept(s, s[i].round))
<1> DEFINE r == s[i].round
<1>1. Len(s) \in Nat /\ DOMAIN s = 1 .. Len(s) /\ i \in 1 .. Len(s)
  BY LenProperties DEF RoundsFinished
<1>2. \A j \in i + 1 .. Len(s) :
        s[j].round = r => s[j].kind # "ToolCallFinished" /\ s[j].kind # "ModelRequestRetrying"
  BY DEF Told
<1> HIDE DEF r
<1>3. Kept(s, r) = KeptBy(s, i, r)
  <2>1. \A k \in 1 .. Len(s) : s[k].kind = "ToolCallFinished" /\ s[k].round = r => k \in 1 .. i
    BY <1>1, <1>2
  <2>2. \A k \in 1 .. i : (\A j \in k + 1 .. Len(s) : ~(s[j].kind = "ModelRequestRetrying" /\ s[j].round = r))
                            <=> (\A j \in k + 1 .. i : ~(s[j].kind = "ModelRequestRetrying" /\ s[j].round = r))
    BY <1>1, <1>2
  <2> QED
    BY <1>1, <2>1, <2>2 DEF Kept, KeptBy
<1> QED
  BY <1>3 DEF Told, r

\* The next event of a task goes on with what is counted.
LEMMA CountsOn ==
  ASSUME NEW s \in Seq(Sent), NEW l \in Event, NEW n \in Nat, Told(s), Counts(s, l, n),
         NEW e \in Event, MayFollow(l, e), NEW m \in Nat,
         m = IF e.kind = "ModelRequestStarted" THEN 0
             ELSE IF e.kind = "ToolCallFinished" THEN n + 1 ELSE n,
         NEW x \in Sent, x.kind = e.kind, x.round = e.round,
         x.kind = "ModelRoundFinished" => x.tools = n
  PROVE  Told(Append(s, x)) /\ Counts(Append(s, x), e, m)
<1> DEFINE a == Append(s, x)  k == Len(s) + 1
<1>1. /\ a \in Seq(Sent) /\ Len(s) \in Nat /\ Len(a) = k
      /\ DOMAIN s = 1 .. Len(s) /\ DOMAIN a = 1 .. k
      /\ \A i \in 1 .. Len(s) : a[i] = s[i]
      /\ a[k] = x
  BY AppendFacts
<1>2. l.round \in Nat /\ e.round \in Nat /\ \A i \in 1 .. Len(s) : s[i].round \in Nat
  <2>1. \A i \in 1 .. Len(s) : s[i] \in Sent
    BY ElementOfSeq
  <2> QED
    BY <2>1 DEF Event, Sent
<1>3. /\ \A i \in 1 .. Len(s) : s[i].round <= l.round
      /\ \A i \in RoundsFinished(s) : s[i].round = l.round => l.kind \in Behind
      /\ l.kind \in InRound => n = Cardinality(KeptBy(s, Len(s), l.round))
      /\ l.kind = "ModelRequestRetrying" => KeptBy(s, Len(s), l.round) = {}
  BY <1>1 DEF Counts
<1>4. \A r : /\ x.kind = "ToolCallFinished" /\ x.round = r =>
                 Cardinality(KeptBy(a, k, r)) = Cardinality(KeptBy(s, Len(s), r)) + 1
             /\ x.kind = "ModelRequestRetrying" /\ x.round = r => KeptBy(a, k, r) = {}
             /\ x.kind \notin {"ToolCallFinished", "ModelRequestRetrying"} \/ x.round # r =>
                 KeptBy(a, k, r) = KeptBy(s, Len(s), r)
  BY KeptAfter
<1> HIDE DEF a
<1>5. l.round <= e.round
  BY <1>2 DEF MayFollow, Opens, Compacts, Requests, Streams, Closes, NoEvent, Ev
<1>6. l.kind \in Behind /\ e.round = l.round => e.kind \in Compaction \cup Terminal
  BY <1>2 DEF MayFollow, Opens, Compacts, Requests, Streams, Closes, NoEvent, Ev, Behind,
     Compaction, Terminal, InRound
<1>7. e.kind \in (InRound \ {"ModelRequestStarted"}) \cup {"ModelRequestRetrying", "ModelRoundFinished"}
        => l.kind \in InRound /\ e.round = l.round
  BY DEF MayFollow, Opens, Compacts, Requests, Streams, Closes, NoEvent, Ev, Compaction, Terminal, InRound
<1>8. RoundsFinished(s) \subseteq 1 .. Len(s)
  BY <1>1 DEF RoundsFinished
<1>9. RoundsFinished(a) = RoundsFinished(s) \cup {i \in {k} : e.kind = "ModelRoundFinished"}
  BY <1>1 DEF RoundsFinished
<1>10. \A i \in 1 .. Len(s) : \A r : KeptBy(a, i, r) = KeptBy(s, i, r)
  <2> SUFFICES ASSUME NEW i \in 1 .. Len(s) PROVE \A r : KeptBy(a, i, r) = KeptBy(s, i, r)
    OBVIOUS
  <2>1. i \in Nat /\ \A j \in 1 .. i : a[j] = s[j]
    BY <1>1
  <2> QED
    BY <1>1, <2>1, KeptAgrees
<1>11. Told(a)
  <2>1. ASSUME NEW i \in RoundsFinished(s)
        PROVE  /\ a[i].tools = Cardinality(KeptBy(a, i, a[i].round))
               /\ \A j \in i + 1 .. k : a[j].round = a[i].round
                    => a[j].kind \notin {"ToolCallFinished", "ModelRequestRetrying"}
    <3>1. i \in 1 .. Len(s) /\ a[i] = s[i]
      BY <1>1, <1>8
    <3>2. a[i].tools = Cardinality(KeptBy(a, i, a[i].round))
      BY <1>10, <3>1 DEF Told
    <3>3. \A j \in i + 1 .. Len(s) : a[j].round = a[i].round
                    => a[j].kind \notin {"ToolCallFinished", "ModelRequestRetrying"}
      BY <1>1, <3>1 DEF Told
    <3>4. x.round = s[i].round => x.kind \notin {"ToolCallFinished", "ModelRequestRetrying"}
      <4> SUFFICES ASSUME e.round = s[i].round PROVE e.kind \in Compaction \cup Terminal
        BY DEF Compaction, Terminal
      <4>1. s[i].round = l.round /\ e.round = l.round
        BY <1>2, <1>3, <1>5, <3>1
      <4> QED
        BY <1>3, <1>6, <4>1
    <3> QED
      BY <1>1, <3>1, <3>2, <3>3, <3>4
  <2>2. CASE e.kind = "ModelRoundFinished"
    <3>1. l.kind \in InRound /\ e.round = l.round /\ x.tools = n
      BY <1>7, <2>2
    <3>2. KeptBy(a, k, x.round) = KeptBy(s, Len(s), x.round)
      BY <1>4, <2>2
    <3>3. x.tools = Cardinality(KeptBy(a, k, x.round))
      BY <1>3, <3>1, <3>2
    <3>4. \A j \in k + 1 .. k : FALSE
      BY <1>1
    <3> QED
      BY <1>1, <1>9, <2>1, <3>3, <3>4 DEF Told
  <2>3. CASE e.kind # "ModelRoundFinished"
    BY <1>1, <1>9, <2>1, <2>3 DEF Told
  <2> QED
    BY <2>2, <2>3
<1>12. \A i \in DOMAIN a : a[i].round <= e.round
  BY <1>1, <1>2, <1>3, <1>5
<1>13. ASSUME NEW i \in RoundsFinished(a), a[i].round = e.round PROVE e.kind \in Behind
  <2>1. CASE i \in RoundsFinished(s)
    <3>1. i \in 1 .. Len(s) /\ a[i] = s[i]
      BY <1>1, <1>8, <2>1
    <3>2. s[i].round = l.round /\ e.round = l.round
      BY <1>2, <1>3, <1>5, <1>13, <3>1
    <3> QED
      BY <1>3, <1>6, <2>1, <3>2 DEF Behind
  <2>2. CASE i \notin RoundsFinished(s)
    BY <1>9, <2>2 DEF Behind
  <2> QED
    BY <2>1, <2>2
<1>14. e.kind \in InRound => m = Cardinality(KeptBy(a, k, e.round))
  <2>1. CASE e.kind = "ModelRequestStarted"
    <3>1. KeptBy(a, k, e.round) = KeptBy(s, Len(s), e.round)
      BY <1>4, <2>1
    <3>2. KeptBy(s, Len(s), e.round) = {}
      <4>1. \/ l.kind = "ModelRequestRetrying" /\ e.round = l.round
            \/ e.round = l.round + 1
        BY <2>1 DEF MayFollow, Opens, Compacts, Requests, Streams, Closes, NoEvent, Ev, Terminal
      <4>2. e.round = l.round + 1 => \A i \in 1 .. Len(s) : s[i].round # e.round
        BY <1>2, <1>3
      <4> QED
        BY <1>3, <4>1, <4>2 DEF KeptBy
    <3> QED
      BY <2>1, <3>1, <3>2, FS_EmptySet
  <2>2. CASE e.kind \in InRound \ {"ModelRequestStarted"}
    <3>1. e.round = l.round /\ n = Cardinality(KeptBy(s, Len(s), e.round))
      BY <1>3, <1>7, <2>2
    <3> QED
      BY <1>4, <2>2, <3>1 DEF InRound
  <2> QED
    BY <2>1, <2>2
<1>15. e.kind = "ModelRequestRetrying" => KeptBy(a, k, e.round) = {}
  BY <1>4
<1> QED
  BY <1>1, <1>11, <1>12, <1>13, <1>14, <1>15 DEF Counts, a

-----------------------------------------------------------------------------
(* The stream of a task goes on, and the bridge moves it along.             *)

LEMMA StoryShape ==
  ASSUME WireInv, ClaimInv, NEW t \in Tasks
  PROVE  /\ ui[t] \in Seq(Sent) /\ Hand(t) \in Seq(Sent) /\ chan[t] \in Seq(Sent)
         /\ Story(t) \in Seq(Sent)
<1>1. ui[t] \in Seq(Sent) /\ chan[t] \in Seq(Sent)
  BY DEF WireInv, StreamShape
<1>2. Hand(t) \in Seq(Sent)
  <2>1. bridge[t].event \in Sent
    BY KernelAssumption DEF ClaimInv, Shape, Message, Sent
  <2> QED
    BY <2>1 DEF Hand
<1>3. Story(t) \in Seq(Sent)
  BY <1>1, <1>2, ConcatProperties DEF Story
<1> QED
  BY <1>1, <1>2, <1>3

LEMMA StorySteady ==
  ASSUME NEW t, ui'[t] = ui[t], bridge'[t] = bridge[t], chan'[t] = chan[t]
  PROVE  Story(t)' = Story(t)
BY DEF Story, Hand, InHand

LEMMA ConcatMoves ==
  ASSUME NEW s \in Seq(Sent), NEW e \in Sent, NEW c \in Seq(Sent)
  PROVE  Append(s, e) \o (<<>> \o c) = s \o (<<e>> \o c)
<1>1. <<e>> \in Seq(Sent)
  OBVIOUS
<1>2. Append(s, e) = s \o <<e>>
  BY AppendIsConcat
<1>3. <<>> \o c = c
  BY ConcatEmptySeq
<1> QED
  BY <1>1, <1>2, <1>3, ConcatAssociative

LEMMA ConcatLast ==
  ASSUME NEW s \in Seq(Sent), NEW h \in Seq(Sent), NEW c \in Seq(Sent), NEW e \in Sent
  PROVE  s \o (h \o Append(c, e)) = Append(s \o (h \o c), e)
<1>1. /\ <<e>> \in Seq(Sent) /\ h \o c \in Seq(Sent) /\ s \o (h \o c) \in Seq(Sent)
  BY ConcatProperties
<1>2. Append(c, e) = c \o <<e>> /\ Append(s \o (h \o c), e) = (s \o (h \o c)) \o <<e>>
  BY <1>1, AppendIsConcat
<1>3. h \o (c \o <<e>>) = (h \o c) \o <<e>>
  BY <1>1, ConcatAssociative
<1>4. (s \o (h \o c)) \o <<e>> = s \o ((h \o c) \o <<e>>)
  BY <1>1, ConcatAssociative
<1> QED
  BY <1>2, <1>3, <1>4

LEMMA ConcatHead ==
  ASSUME NEW c \in Seq(Sent), c # <<>>
  PROVE  Head(c) \in Sent /\ Tail(c) \in Seq(Sent) /\ c = <<Head(c)>> \o Tail(c)
<1>1. Head(c) \in Sent /\ Tail(c) \in Seq(Sent)
  BY HeadTailProperties
<1>2. Len(c) \in Nat \ {0} /\ Head(c) = c[1]
  BY EmptySeq
<1>3. Tail(c) = SubSeq(c, 2, Len(c)) /\ c = SubSeq(c, 1, Len(c))
  BY TailIsSubSeq, SubSeqFull
<1>4. SubSeq(c, 1, Len(c)) = <<c[1]>> \o SubSeq(c, 2, Len(c))
  <2>1. 1 \in 1 .. Len(c) /\ Len(c) \in 1 .. Len(c)
    BY <1>2
  <2>2. SubSeq(c, 1, Len(c)) = <<c[1]>> \o SubSeq(c, 1 + 1, Len(c))
    BY <2>1, SubSeqRecursiveFirst
  <2> QED
    BY <2>2
<1> QED
  BY <1>1, <1>2, <1>3, <1>4

\* A step of the bridge moves the stream of its task along.
LEMMA BridgeTells ==
  ASSUME WireInv, ClaimInv, NEW t \in Tasks, BridgeStep(t)
  PROVE  Story(t)' = Story(t)
<1>1. /\ ui \in [Tasks -> Seq(Sent)] /\ chan \in [Tasks -> Seq(Sent)]
      /\ bridge \in [Tasks -> [pc : BridgeStates, event : Message, left : Int]]
      /\ ui[t] \in Seq(Sent) /\ chan[t] \in Seq(Sent) /\ bridge[t].event \in Sent
  <2>1. /\ ui \in [Tasks -> Seq(Sent)] /\ chan \in [Tasks -> Seq(Sent)]
        /\ bridge \in [Tasks -> [pc : BridgeStates, event : Message, left : Int]]
    BY DEF WireInv, StreamShape, ClaimInv, Shape
  <2>2. Message \subseteq Sent
    BY KernelAssumption DEF Message, Sent
  <2> QED
    BY <2>1, <2>2
<1>2. ASSUME NEW e \in Heard(t), Receives(t)
      PROVE  /\ e \in Sent /\ Tail(chan[t]) \in Seq(Sent) /\ chan[t] = <<e>> \o Tail(chan[t])
             /\ chan'[t] = Tail(chan[t]) /\ Hand(t) = <<>>
             /\ Story(t) = ui[t] \o (<<e>> \o Tail(chan[t]))
  <2>1. chan[t] # <<>> /\ e = Head(chan[t]) /\ bridge[t].pc = "receiving"
    BY <1>2 DEF Heard
  <2>2. e \in Sent /\ Tail(chan[t]) \in Seq(Sent) /\ chan[t] = <<e>> \o Tail(chan[t])
    BY <1>1, <2>1, ConcatHead
  <2>3. Hand(t) = <<>> /\ <<>> \o chan[t] = chan[t]
    BY <1>1, <2>1, ConcatEmptySeq DEF Hand, InHand
  <2>4. chan'[t] = Tail(chan[t])
    BY <1>1, <1>2 DEF Receives
  <2>5. Story(t) = ui[t] \o (<<e>> \o Tail(chan[t]))
    BY <2>2, <2>3 DEF Story
  <2> QED
    BY <2>2, <2>3, <2>4, <2>5
<1>3. CASE HearTerminal(t) \/ HearRequest(t) \/ HearRetry(t) \/ HearOther(t)
  <2>1. PICK e \in Heard(t) :
          /\ Receives(t) /\ Forward(t, e)
          /\ bridge' = bridge \/ Move(t, "finishing", NoMessage, 0)
    BY <1>3 DEF HearTerminal, HearRequest, HearRetry, HearOther
  <2>2. bridge'[t].pc \in {"receiving", "finishing"}
    BY <1>1, <2>1 DEF Move, At, Heard
  <2>3. Hand(t)' = <<>> /\ ui'[t] = Append(ui[t], e)
    BY <1>1, <2>1, <2>2 DEF Hand, InHand, Forward
  <2>4. Story(t)' = Append(ui[t], e) \o (<<>> \o Tail(chan[t]))
    BY <1>2, <2>1, <2>3 DEF Story
  <2> QED
    BY <1>1, <1>2, <2>1, <2>4, ConcatMoves
<1>4. CASE HearRound(t)
  <2>1. PICK e \in Heard(t) :
          /\ Receives(t) /\ UNCHANGED ui
          /\ Move(t, "persisting", e, e.tools + 1) \/ Move(t, "settling", e, 0)
    BY <1>4 DEF HearRound
  <2>2. Hand(t)' = <<e>> /\ ui'[t] = ui[t]
    BY <1>1, <2>1 DEF Move, At, Hand, InHand
  <2> QED
    BY <1>2, <2>1, <2>2 DEF Story
<1>5. CASE PersistRow(t)
  <2>1. /\ UNCHANGED <<ui, chan>> /\ InHand(t) /\ InHand(t)' /\ bridge'[t].event = bridge[t].event
    BY <1>1, <1>5 DEF PersistRow, Move, At, InHand
  <2> QED
    BY <2>1 DEF Story, Hand
<1>6. CASE SettleRound(t)
  <2> DEFINE e == bridge[t].event
  <2>1. /\ ui'[t] = Append(ui[t], e) /\ chan'[t] = chan[t]
        /\ InHand(t) /\ ~InHand(t)'
    BY <1>1, <1>6 DEF SettleRound, Forward, Move, At, InHand
  <2>2. Story(t) = ui[t] \o (<<e>> \o chan[t]) /\ Story(t)' = Append(ui[t], e) \o (<<>> \o chan[t])
    BY <2>1 DEF Story, Hand
  <2> QED
    BY <1>1, <2>2, ConcatMoves
<1>7. CASE HearClosed(t) \/ ReleaseSession(t)
  <2>1. UNCHANGED <<ui, chan>> /\ ~InHand(t) /\ ~InHand(t)'
    BY <1>1, <1>7 DEF HearClosed, ReleaseSession, Move, At, InHand
  <2> QED
    BY <2>1 DEF Story, Hand
<1> QED
  BY <1>3, <1>4, <1>5, <1>6, <1>7 DEF BridgeStep

LEMMA TellsAt ==
  ASSUME NEW t, Told(Story(t)'), t \in open' => Counts(Story(t)', last'[t], results'[t])
  PROVE  Told(Story(t))' /\ (t \in open' => Counts(Story(t), last[t], results[t])')
BY DEF Told, Counts, RoundsFinished, KeptBy

LEMMA SameTells ==
  ASSUME TellInv, UNCHANGED <<last, results>>, open' \subseteq open,
         \A t \in Tasks : Story(t)' = Story(t)
  PROVE  TellInv'
<1> SUFFICES ASSUME NEW t \in Tasks
             PROVE  Told(Story(t))' /\ (t \in open' => Counts(Story(t), last[t], results[t])')
  BY DEF TellInv
<1>1. Told(Story(t)') /\ (t \in open' => Counts(Story(t)', last[t], results[t]))
  BY DEF TellInv
<1> QED
  BY <1>1, TellsAt

LEMMA BridgeKeepsTelling ==
  ASSUME TellInv, WireInv, ClaimInv, NEW t \in Tasks, BridgeStep(t)
  PROVE  TellInv'
<1>1. UNCHANGED <<last, results, open>>
  BY DEF BridgeStep, HearTerminal, HearRequest, HearRetry, HearRound, HearOther, PersistRow,
     SettleRound, HearClosed, ReleaseSession, BridgeOnly, agentVars
<1>2. \A u \in Tasks \ {t} : ui'[u] = ui[u] /\ chan'[u] = chan[u] /\ bridge'[u] = bridge[u]
  <2> USE DEF WireInv, StreamShape, ClaimInv, Shape
  <2>1. CASE HearTerminal(t) \/ HearRequest(t) \/ HearRetry(t) \/ HearOther(t) \/ HearRound(t)
    BY <2>1 DEF HearTerminal, HearRequest, HearRetry, HearOther, HearRound, Receives, Forward, Move
  <2>2. CASE PersistRow(t) \/ SettleRound(t) \/ HearClosed(t) \/ ReleaseSession(t)
    BY <2>2 DEF PersistRow, SettleRound, HearClosed, ReleaseSession, Forward, Move
  <2> QED
    BY <2>1, <2>2 DEF BridgeStep
<1>3. \A u \in Tasks : Story(u)' = Story(u)
  BY <1>2, BridgeTells, StorySteady
<1> QED
  BY <1>1, <1>3, SameTells

LEMMA PublishTells ==
  ASSUME TellInv, WireInv, ClaimInv, NEW t \in Tasks, NEW e \in Event, PublishEvent(t, e)
  PROVE  TellInv'
<1> DEFINE x == [kind |-> e.kind, round |-> e.round,
                 tools |-> IF e.kind = "ModelRoundFinished" THEN results[t] ELSE 0]
           m == ResultsAfter(t, e)
<1>1. /\ t \in open /\ MayFollow(last[t], e)
      /\ last' = [last EXCEPT ![t] = e] /\ results' = [results EXCEPT ![t] = m]
      /\ chan' = [chan EXCEPT ![t] = Append(chan[t], x)]
      /\ UNCHANGED <<ui, bridge, open>>
  BY DEF PublishEvent, Emit, startVars, bridgeVars
<1>2. /\ last \in [Tasks -> Event] /\ results \in [Tasks -> Nat] /\ chan \in [Tasks -> Seq(Sent)]
      /\ last[t] \in Event /\ results[t] \in Nat
  BY DEF WireInv, StreamShape
<1>3. /\ x \in Sent /\ x.kind = e.kind /\ x.round = e.round
      /\ x.kind = "ModelRoundFinished" => x.tools = results[t]
  BY <1>2 DEF Sent, Event
<1>4. m \in Nat /\ m = IF e.kind = "ModelRequestStarted" THEN 0
                       ELSE IF e.kind = "ToolCallFinished" THEN results[t] + 1 ELSE results[t]
  BY <1>2 DEF ResultsAfter
<1> HIDE DEF x, m
<1>5. Story(t)' = Append(Story(t), x)
  <2>1. ui[t] \in Seq(Sent) /\ Hand(t) \in Seq(Sent) /\ chan[t] \in Seq(Sent)
    BY StoryShape
  <2>2. Story(t)' = ui[t] \o (Hand(t) \o Append(chan[t], x))
    BY <1>1, <1>2 DEF Story, Hand, InHand
  <2> QED
    BY <1>3, <2>1, <2>2, ConcatLast DEF Story
<1>6. Told(Append(Story(t), x)) /\ Counts(Append(Story(t), x), e, m)
  <2>1. Story(t) \in Seq(Sent)
    BY StoryShape
  <2>2. Told(Story(t)) /\ Counts(Story(t), last[t], results[t])
    BY <1>1 DEF TellInv
  <2> QED
    BY <1>1, <1>2, <1>3, <1>4, <2>1, <2>2, CountsOn
<1>7. last'[t] = e /\ results'[t] = m
  BY <1>1, <1>2
<1>8. Told(Story(t))' /\ (t \in open' => Counts(Story(t), last[t], results[t])')
  <2>1. Told(Story(t)') /\ Counts(Story(t)', last'[t], results'[t])
    BY <1>5, <1>6, <1>7
  <2> QED
    BY <2>1, TellsAt
<1>9. ASSUME NEW u \in Tasks \ {t}
      PROVE  Told(Story(u))' /\ (u \in open' => Counts(Story(u), last[u], results[u])')
  <2>1. Story(u)' = Story(u) /\ last'[u] = last[u] /\ results'[u] = results[u]
    BY <1>1, <1>2, StorySteady
  <2>2. Told(Story(u)) /\ (u \in open' => Counts(Story(u), last[u], results[u]))
    BY <1>1 DEF TellInv
  <2>3. Told(Story(u)') /\ (u \in open' => Counts(Story(u)', last'[u], results'[u]))
    BY <2>1, <2>2
  <2> QED
    BY <2>3, TellsAt
<1> QED
  BY <1>8, <1>9 DEF TellInv

LEMMA StartTells ==
  ASSUME TellInv, WireInv, ClaimInv, NEW t \in Tasks, StartAgent(t)
  PROVE  TellInv'
<1> DEFINE x == [kind |-> "TaskStarted", round |-> 0, tools |-> 0]  e == Ev("TaskStarted", 0)
<1>1. /\ step[t] = "assembled" /\ last' = [last EXCEPT ![t] = e]
      /\ chan' = [chan EXCEPT ![t] = <<x>>]
      /\ open' = open \cup {t} /\ UNCHANGED <<ui, bridge, results>>
  BY DEF StartAgent, Emit, bridgeVars
<1>2. /\ last \in [Tasks -> Event] /\ chan \in [Tasks -> Seq(Sent)]
  BY DEF WireInv, StreamShape
<1>3. ui[t] = <<>> /\ bridge[t].pc = "none"
  BY <1>1 DEF WireInv, Wire, Unstarted, ClaimInv, Claims
<1>4. x \in Sent /\ x.kind = "TaskStarted" /\ x.round = 0
  BY StreamAssumption DEF Sent, Kinds
<1>5. last'[t] = e /\ e.kind = "TaskStarted" /\ e.round = 0
  BY <1>1, <1>2 DEF Ev
<1> HIDE DEF x, e
<1>6. Story(t)' = <<x>>
  <2>1. <<x>> \in Seq(Sent)
    BY <1>4
  <2>2. <<>> \o <<x>> = <<x>>
    BY <2>1, ConcatEmptySeq
  <2>3. ui'[t] = <<>> /\ chan'[t] = <<x>> /\ ~InHand(t)'
    BY <1>1, <1>2, <1>3 DEF InHand
  <2> QED
    BY <2>2, <2>3 DEF Story, Hand
<1>7. /\ DOMAIN <<x>> = {1} /\ <<x>>[1] = x
  OBVIOUS
<1>8. RoundsFinished(<<x>>) = {}
  BY <1>4, <1>7 DEF RoundsFinished
<1>9. Told(<<x>>) /\ Counts(<<x>>, e, results'[t])
  BY <1>4, <1>5, <1>7, <1>8 DEF Told, Counts, InRound
<1>10. Told(Story(t))' /\ (t \in open' => Counts(Story(t), last[t], results[t])')
  <2>1. Told(Story(t)') /\ Counts(Story(t)', last'[t], results'[t])
    BY <1>5, <1>6, <1>9
  <2> QED
    BY <2>1, TellsAt
<1>11. ASSUME NEW u \in Tasks \ {t}
      PROVE  Told(Story(u))' /\ (u \in open' => Counts(Story(u), last[u], results[u])')
  <2>1. Story(u)' = Story(u) /\ last'[u] = last[u] /\ results'[u] = results[u]
    BY <1>1, <1>2, StorySteady
  <2>2. Told(Story(u)) /\ (u \in open' => Counts(Story(u), last[u], results[u]))
    BY <1>1 DEF TellInv
  <2>3. Told(Story(u)') /\ (u \in open' => Counts(Story(u)', last'[u], results'[u]))
    BY <2>1, <2>2
  <2> QED
    BY <2>3, TellsAt
<1> QED
  BY <1>10, <1>11 DEF TellInv

\* The process dies: what was forwarded is the beginning of the stream.
LEMMA CrashTells ==
  ASSUME TellInv, WireInv, ClaimInv, Crash
  PROVE  TellInv'
<1>1. /\ UNCHANGED ui /\ open' = {} /\ chan' = [t \in Tasks |-> <<>>] /\ bridge' = [t \in Tasks |-> Idle]
  BY DEF Crash
<1>2. ASSUME NEW t \in Tasks PROVE Told(Story(t))'
  <2>1. ui[t] \in Seq(Sent) /\ Hand(t) \o chan[t] \in Seq(Sent)
    BY StoryShape, ConcatProperties
  <2>2. Told(ui[t])
    BY <2>1, ToldBefore DEF TellInv, Story
  <2>3. Story(t)' = ui[t]
    <3>1. Hand(t)' = <<>> /\ chan'[t] = <<>> /\ <<>> \in Seq(Sent)
      BY <1>1, EmptySeq DEF Hand, InHand, Idle, At
    <3> QED
      BY <1>1, <2>1, <3>1, ConcatEmptySeq DEF Story
  <2> QED
    BY <2>2, <2>3 DEF Told, RoundsFinished, KeptBy
<1> QED
  BY <1>1, <1>2 DEF TellInv

LEMMA TellInvariance == KernelSpec => []TellInv
<1>1. KernelInit => TellInv
  <2> SUFFICES ASSUME KernelInit, NEW t \in Tasks PROVE Told(Story(t)) /\ t \notin open
    BY DEF TellInv
  <2>1. Story(t) = <<>>
    <3>1. ui[t] = <<>> /\ Hand(t) = <<>> /\ chan[t] = <<>> /\ <<>> \in Seq(Sent)
      BY EmptySeq DEF KernelInit, Hand, InHand, Idle, At
    <3> QED
      BY <3>1, ConcatEmptySeq DEF Story
  <2>2. RoundsFinished(<<>>) = {}
    BY DEF RoundsFinished
  <2> QED
    BY <2>1, <2>2 DEF KernelInit, Told
<1>2. TellInv /\ WireInv /\ ClaimInv /\ [KernelNext]_vars => TellInv'
  <2> SUFFICES ASSUME TellInv, WireInv, ClaimInv, [KernelNext]_vars PROVE TellInv'
    OBVIOUS
  <2>1. CASE UNCHANGED <<last, results, ui, chan>> /\ open' \subseteq open
             /\ \A u \in Tasks : Hand(u)' = Hand(u)
    <3>1. \A u \in Tasks : Story(u)' = Story(u)
      BY <2>1 DEF Story
    <3> QED
      BY <2>1, <3>1, SameTells
  <2>2. CASE \E t \in Tasks : \/ BuildTools(t) \/ ReadTurn(t) \/ WritePrompt(t) \/ AssembleContext(t)
                              \/ HangUp(t) \/ CancelTask(t)
    <3>1. UNCHANGED <<last, results, ui, chan, bridge>> /\ open' \subseteq open
      BY <2>2 DEF BuildTools, ReadTurn, WritePrompt, AssembleContext, HangUp, CancelTask,
         agentVars, bridgeVars
    <3> QED
      BY <2>1, <3>1 DEF Hand, InHand
  <2>3. CASE \E t \in Tasks : SpawnBridge(t)
    <3>1. PICK t \in Tasks : SpawnBridge(t)
      BY <2>3
    <3>2. UNCHANGED <<last, results, ui, chan, open>>
      BY <3>1 DEF SpawnBridge, agentVars
    <3>3. bridge[t].pc = "none" /\ bridge'[t].pc = "receiving" /\ \A u \in Tasks \ {t} : bridge'[u] = bridge[u]
      BY <3>1 DEF SpawnBridge, At, ClaimInv, Shape, Claims
    <3> QED
      BY <2>1, <3>2, <3>3 DEF Hand, InHand
  <2>4. CASE \/ \E t \in Tasks, s \in Sessions : ClaimSession(t, s)
             \/ \E s \in Sessions : DeleteSession(s)
             \/ UNCHANGED vars
    <3>1. UNCHANGED <<last, results, ui, chan, bridge, open>>
      BY <2>4 DEF ClaimSession, DeleteSession, vars, agentVars, bridgeVars
    <3> QED
      BY <2>1, <3>1 DEF Hand, InHand
  <2> QED
    BY <2>2, <2>3, <2>4, BridgeKeepsTelling, PublishTells, StartTells, CrashTells
       DEF KernelNext, StartStep, AgentStep
<1> QED
  BY <1>1, <1>2, WireInvariance, ClaimInvariance, PTL DEF KernelSpec

-----------------------------------------------------------------------------
(* What is forwarded.                                                       *)

\* What a step may do to the story of a task.
Tells(t) ==
  /\ \/ Story(t)' = Story(t)
     \/ /\ ui'[t] = ui[t] /\ Hand(t)' = Hand(t)
        /\ chan'[t] # <<>> /\ chan'[t] = Append(chan[t], Last(chan'[t]))
  /\ bridge[t].pc # "finishing" /\ bridge'[t].pc = "finishing" => ui'[t] = Story(t)'

LEMMA SteadyTells ==
  ASSUME NEW t, ui'[t] = ui[t], bridge'[t] = bridge[t], chan'[t] = chan[t]
  PROVE  Tells(t)
BY StorySteady DEF Tells

\* The task publishes an event.
LEMMA MoreTells ==
  ASSUME NEW t, ui'[t] = ui[t], bridge'[t] = bridge[t], NEW e,
         chan[t] \in Seq(Sent), e \in Sent, chan'[t] = Append(chan[t], e)
  PROVE  Tells(t)
<1>1. Append(chan[t], e) # <<>> /\ Last(Append(chan[t], e)) = e
  <2>1. Len(Append(chan[t], e)) = Len(chan[t]) + 1 /\ Append(chan[t], e)[Len(chan[t]) + 1] = e
    BY AppendProperties
  <2>2. Append(chan[t], e) # <<>>
    BY AppendProperties
  <2> QED
    BY <2>1, <2>2 DEF Last
<1>2. Hand(t)' = Hand(t)
  BY DEF Hand, InHand
<1> QED
  BY <1>1, <1>2 DEF Tells

\* Nothing follows a terminal event.
LEMMA NothingFollows ==
  ASSUME NEW l, NEW s \in Seq(Sent), s # <<>>, Legal(l, s), IsTerminal(Head(s))
  PROVE  Tail(s) = <<>>
<1>1. /\ Head(s) \in Sent /\ Tail(s) \in Seq(Sent) /\ Legal(EventOf(Head(s)), Tail(s))
  BY LegalTail
<1>2. \A e : ~ MayFollow(EventOf(Head(s)), e)
  BY DEF IsTerminal, EventOf, Ev, MayFollow, Opens, Compacts, Requests, Streams, Closes,
     Terminal, InRound, NoEvent
<1> QED
  BY <1>1, <1>2 DEF Legal

LEMMA BridgeStops ==
  ASSUME WireInv, ClaimInv, NEW t \in Tasks, BridgeStep(t),
         bridge[t].pc # "finishing", bridge'[t].pc = "finishing"
  PROVE  ui'[t] = Story(t)'
<1>1. /\ ui \in [Tasks -> Seq(Sent)] /\ chan \in [Tasks -> Seq(Sent)]
      /\ bridge \in [Tasks -> [pc : BridgeStates, event : Message, left : Int]]
      /\ ui[t] \in Seq(Sent) /\ chan[t] \in Seq(Sent) /\ Legal(Taken(t), chan[t])
  BY DEF WireInv, StreamShape, Wire, ClaimInv, Shape
<1>2. ui'[t] \in Seq(Sent)
  BY BridgeWire DEF WireInv, StreamShape
<1>3. SUFFICES chan'[t] = <<>>
  <2>1. Hand(t)' = <<>> /\ <<>> \in Seq(Sent)
    BY EmptySeq DEF Hand, InHand
  <2>2. <<>> \o <<>> = <<>> /\ ui'[t] \o <<>> = ui'[t]
    BY <1>2, <2>1, ConcatEmptySeq
  <2> QED
    BY <1>3, <2>1, <2>2 DEF Story
<1>4. CASE HearTerminal(t)
  <2>1. chan[t] # <<>> /\ IsTerminal(Head(chan[t])) /\ chan'[t] = Tail(chan[t])
    BY <1>1, <1>4 DEF HearTerminal, Heard, Receives
  <2> QED
    BY <1>1, <2>1, NothingFollows
<1>5. CASE HearClosed(t)
  BY <1>5 DEF HearClosed, BridgeOnly
<1>6. CASE HearRequest(t) \/ HearRetry(t) \/ HearOther(t)
  <2>1. bridge' = bridge
    BY <1>6 DEF HearRequest, HearRetry, HearOther
  <2> QED
    BY <2>1
<1>7. CASE HearRound(t)
  <2>1. bridge'[t].pc \in {"persisting", "settling"}
    BY <1>1, <1>7 DEF HearRound, Move, At
  <2> QED
    BY <2>1
<1>8. CASE PersistRow(t)
  <2>1. bridge'[t].pc \in {"persisting", "settling"}
    BY <1>1, <1>8 DEF PersistRow, Move, At
  <2> QED
    BY <2>1
<1>9. CASE SettleRound(t)
  <2>1. bridge'[t].pc = "receiving"
    BY <1>1, <1>9 DEF SettleRound, Move, At
  <2> QED
    BY <2>1
<1>10. CASE ReleaseSession(t)
  <2>1. bridge'[t].pc = "done"
    BY <1>1, <1>10 DEF ReleaseSession, Move, At
  <2> QED
    BY <2>1
<1> QED
  BY <1>4, <1>5, <1>6, <1>7, <1>8, <1>9, <1>10 DEF BridgeStep

LEMMA StepTells ==
  ASSUME WireInv, ClaimInv, [KernelNext]_vars, crashed' = crashed, NEW t \in Tasks
  PROVE  Tells(t)
<1>0. /\ ui \in [Tasks -> Seq(Sent)] /\ chan \in [Tasks -> Seq(Sent)] /\ chan[t] \in Seq(Sent)
      /\ last \in [Tasks -> Event] /\ results \in [Tasks -> Nat]
      /\ bridge \in [Tasks -> [pc : BridgeStates, event : Message, left : Int]]
  BY DEF WireInv, StreamShape, ClaimInv, Shape
<1>1. CASE UNCHANGED <<ui, chan, bridge>>
  BY <1>1, SteadyTells
<1>2. ASSUME NEW u \in Tasks, BridgeStep(u) PROVE Tells(t)
  <2>1. CASE u = t
    BY <1>2, <2>1, BridgeTells, BridgeStops DEF Tells
  <2>2. CASE u # t
    <3> USE DEF WireInv, StreamShape, ClaimInv, Shape
    <3>1. CASE HearTerminal(u) \/ HearRequest(u) \/ HearRetry(u) \/ HearOther(u) \/ HearRound(u)
      <4>1. ui'[t] = ui[t] /\ chan'[t] = chan[t] /\ bridge'[t] = bridge[t]
        BY <2>2, <3>1 DEF HearTerminal, HearRequest, HearRetry, HearOther, HearRound, Receives, Forward, Move
      <4> QED
        BY <4>1, SteadyTells
    <3>2. CASE PersistRow(u) \/ SettleRound(u) \/ HearClosed(u) \/ ReleaseSession(u)
      <4>1. ui'[t] = ui[t] /\ chan'[t] = chan[t] /\ bridge'[t] = bridge[t]
        BY <2>2, <3>2 DEF PersistRow, SettleRound, HearClosed, ReleaseSession, Forward, Move
      <4> QED
        BY <4>1, SteadyTells
    <3> QED
      BY <1>2, <3>1, <3>2 DEF BridgeStep
  <2> QED
    BY <2>1, <2>2
<1>3. ASSUME NEW u \in Tasks, NEW e \in Event, PublishEvent(u, e) PROVE Tells(t)
  <2> PICK x : x = [kind |-> e.kind, round |-> e.round,
                    tools |-> IF e.kind = "ModelRoundFinished" THEN results[u] ELSE 0]
    OBVIOUS
  <2>1. UNCHANGED <<ui, bridge>> /\ chan' = [chan EXCEPT ![u] = Append(chan[u], x)]
    BY <1>3 DEF PublishEvent, startVars, bridgeVars
  <2>2. x \in Sent
    BY <1>0 DEF Sent, Event
  <2>3. CASE u = t
    <3>1. chan'[t] = Append(chan[t], x)
      BY <1>0, <2>1, <2>3
    <3> QED
      BY <1>0, <2>1, <2>2, <3>1, MoreTells
  <2>4. CASE u # t
    BY <1>0, <2>1, <2>4, SteadyTells
  <2> QED
    BY <2>3, <2>4
<1>4. ASSUME NEW u \in Tasks, StartAgent(u) PROVE Tells(t)
  <2> PICK x : x = [kind |-> "TaskStarted", round |-> 0, tools |-> 0]
    OBVIOUS
  <2>1. UNCHANGED <<ui, bridge>> /\ chan' = [chan EXCEPT ![u] = <<x>>]
    BY <1>4 DEF StartAgent, bridgeVars
  <2>2. x \in Sent
    BY StreamAssumption DEF Sent, Kinds
  <2>3. CASE u = t
    <3>1. chan[t] = <<>>
      BY <1>4, <2>3 DEF StartAgent, WireInv, Wire, Unstarted
    <3>2. chan'[t] = Append(chan[t], x)
      BY <1>0, <2>1, <2>3, <3>1
    <3> QED
      BY <1>0, <2>1, <2>2, <3>2, MoreTells
  <2>4. CASE u # t
    BY <1>0, <2>1, <2>4, SteadyTells
  <2> QED
    BY <2>3, <2>4
<1>5. ASSUME NEW u \in Tasks, SpawnBridge(u) PROVE Tells(t)
  <2>1. UNCHANGED <<ui, chan>> /\ \A v \in Tasks \ {u} : bridge'[v] = bridge[v]
    BY <1>0, <1>5 DEF SpawnBridge, agentVars
  <2>2. bridge[u].pc = "none" /\ bridge'[u].pc = "receiving"
    BY <1>5 DEF SpawnBridge, At, ClaimInv, Shape, Claims
  <2>3. Hand(t)' = Hand(t)
    BY <2>1, <2>2 DEF Hand, InHand
  <2> QED
    BY <2>1, <2>2, <2>3 DEF Tells, Story
<1>6. CASE \E u \in Tasks : \/ BuildTools(u) \/ ReadTurn(u) \/ WritePrompt(u) \/ AssembleContext(u)
                            \/ HangUp(u) \/ CancelTask(u)
  <2>1. UNCHANGED <<ui, chan, bridge>>
    BY <1>6 DEF BuildTools, ReadTurn, WritePrompt, AssembleContext, HangUp, CancelTask, bridgeVars
  <2> QED
    BY <1>1, <2>1
<1>7. CASE \/ \E u \in Tasks, s \in Sessions : ClaimSession(u, s)
           \/ \E s \in Sessions : DeleteSession(s)
           \/ UNCHANGED vars
  <2>1. UNCHANGED <<ui, chan, bridge>>
    BY <1>7 DEF ClaimSession, DeleteSession, vars, bridgeVars
  <2> QED
    BY <1>1, <2>1
<1>8. ~ Crash
  BY DEF Crash
<1> QED
  BY <1>2, <1>3, <1>4, <1>5, <1>6, <1>7, <1>8 DEF KernelNext, StartStep, AgentStep

\* Every event of a task is forwarded, once and in the order it was published
\* in, and the bridge stops when all of them have been: for every number of
\* tasks and rounds, whatever storage does meanwhile (events.rs:25-205).
THEOREM ForwardedAsPublishedTheorem == KernelSpec => ForwardedAsPublished
<1>1. WireInv /\ ClaimInv /\ [KernelNext]_vars =>
        [\A t \in Tasks : crashed' = crashed => Tells(t)]_vars
  BY StepTells
<1> QED
  BY <1>1, WireInvariance, ClaimInvariance, PTL DEF KernelSpec, ForwardedAsPublished, Tells

-----------------------------------------------------------------------------
(* What is announced of a round is in storage, while storage works.         *)

\* The task has a turn of its own, and a prompt of that turn.
HasTurn(t) ==
  ui[t] # <<>> \/ step[t] \in {"turn", "prompted", "assembled", "starting", "returned"}

HasPrompt(t) ==
  ui[t] # <<>> \/ step[t] \in {"prompted", "assembled", "starting", "returned"}

Recorded(t) == \E k \in DOMAIN rows[owner[t]] : rows[owner[t]][k].turn = turn[t]

\* The rounds from here on have no rows yet.
Ahead(t) == IF InHand(t) THEN bridge[t].event.round + 1 ELSE Floor(Newest(NoEvent, ui[t]))

\* The tool rows there are of the round in hand.
InProgress(t) ==
  IF bridge[t].pc = "settling" THEN bridge[t].event.tools
  ELSE IF Written(t) = 0 THEN 0 ELSE Written(t) - 1

StoredRounds(t) ==
  /\ HasTurn(t) =>
       /\ owner[t] \in Sessions
       /\ \A i \in RoundsFinished(ui[t]) :
            /\ Cardinality(ToolRows(t, ui[t][i].round)) = ui[t][i].tools
            /\ ui[t][i].round < Floor(Newest(NoEvent, ui[t]))
       /\ InHand(t) => Cardinality(ToolRows(t, bridge[t].event.round)) = InProgress(t)
       /\ Active(t) => \A r \in Nat : r >= Ahead(t) => ToolRows(t, r) = {}
  /\ HasPrompt(t) => Recorded(t)

\* No other task of the session, gone or not, has the turn of the one at work.
TurnsDiffer ==
  \A t \in Tasks, u \in Tasks :
    t # u /\ HasTurn(t) /\ HasTurn(u) /\ Active(u) /\ owner[t] = owner[u] => turn[t] # turn[u]

StoreInv == stored = Sessions /\ TurnsDiffer /\ \A t \in Tasks : StoredRounds(t)

-----------------------------------------------------------------------------
\* A task whose rows and events stay, and that takes no new step.
Stays(t) ==
  /\ HasTurn(t)' => HasTurn(t) /\ (\A r : ToolRows(t, r)' = ToolRows(t, r))
  /\ HasPrompt(t)' => Recorded(t)'
  /\ ui'[t] = ui[t] /\ owner'[t] = owner[t]
  /\ InHand(t)' => InHand(t) /\ bridge'[t] = bridge[t]
  /\ Active(t)' => Active(t) /\ (InHand(t)' <=> InHand(t))

LEMMA StaysStored ==
  ASSUME NEW t \in Tasks, StoredRounds(t), Stays(t)
  PROVE  StoredRounds(t)'
<1>1. Newest(NoEvent, ui[t])' = Newest(NoEvent, ui[t]) /\ RoundsFinished(ui[t])' = RoundsFinished(ui[t])
  BY DEF Stays, Newest, EventOf, RoundsFinished
<1>2. Floor(Newest(NoEvent, ui[t]))' = Floor(Newest(NoEvent, ui[t]))
  BY <1>1 DEF Floor
<1>3. InHand(t)' => InProgress(t)' = InProgress(t)
  BY DEF Stays, InProgress, Written
<1>4. Active(t)' => Ahead(t)' = Ahead(t)
  BY <1>2 DEF Stays, Ahead
<1> QED
  BY <1>1, <1>2, <1>3, <1>4 DEF StoredRounds, Stays

\* Nothing that was read or written changes.
LEMMA StillStays ==
  ASSUME NEW t \in Tasks, StoredRounds(t), UNCHANGED <<rows, turn>>,
         HasTurn(t)' => HasTurn(t), HasPrompt(t)' => HasPrompt(t),
         ui'[t] = ui[t], owner'[t] = owner[t],
         InHand(t)' => InHand(t) /\ bridge'[t] = bridge[t],
         Active(t)' => Active(t) /\ (InHand(t)' <=> InHand(t))
  PROVE  Stays(t)
BY DEF Stays, StoredRounds, Recorded, ToolRows

LEMMA DifferStill ==
  ASSUME TurnsDiffer, UNCHANGED <<turn, owner>>,
         \A t \in Tasks : (HasTurn(t)' => HasTurn(t)) /\ (Active(t)' => Active(t))
  PROVE  TurnsDiffer'
BY DEF TurnsDiffer

\* One more row of a session.
LEMMA RowsAfter ==
  ASSUME NEW s \in Sessions, NEW row \in StoredRow, Insert(s, row), RowInv,
         NEW u \in Tasks, owner'[u] = owner[u], turn'[u] = turn[u], owner[u] \in Sessions
  PROVE  /\ owner[u] # s => \A r : ToolRows(u, r)' = ToolRows(u, r)
         /\ owner[u] = s => \A r :
              /\ row.turn = turn[u] /\ row.round = r /\ row.role = "tool" =>
                   Cardinality(ToolRows(u, r)') = Cardinality(ToolRows(u, r)) + 1
              /\ ~(row.turn = turn[u] /\ row.round = r /\ row.role = "tool") =>
                   ToolRows(u, r)' = ToolRows(u, r)
         /\ Recorded(u) => Recorded(u)'
         /\ owner[u] = s /\ row.turn = turn[u] => Recorded(u)'
<1> DEFINE q == rows[s]  a == Append(q, row)  n == Len(q) + 1
<1>1. q \in Seq(StoredRow) /\ rows' = [rows EXCEPT ![s] = a] /\ rows \in [Sessions -> Seq(StoredRow)]
  BY DEF RowInv, RowData, Insert
<1>2. /\ a \in Seq(StoredRow) /\ Len(q) \in Nat /\ DOMAIN q = 1 .. Len(q) /\ DOMAIN a = 1 .. n
      /\ \A i \in 1 .. Len(q) : a[i] = q[i]
      /\ a[n] = row
  BY <1>1, AppendFacts
<1>3. rows'[s] = a /\ \A r \in Sessions \ {s} : rows'[r] = rows[r]
  BY <1>1
<1> HIDE DEF a
<1>4. CASE owner[u] # s
  <2>1. rows'[owner'[u]] = rows[owner[u]]
    BY <1>3, <1>4
  <2> QED
    BY <1>4, <2>1 DEF ToolRows, Recorded
<1>5. CASE owner[u] = s
  <2>1. rows'[owner'[u]] = a /\ rows[owner[u]] = q
    BY <1>3, <1>5
  <2>2. ASSUME NEW r
        PROVE  ToolRows(u, r)' = IF row.turn = turn[u] /\ row.round = r /\ row.role = "tool"
                                   THEN ToolRows(u, r) \cup {n} ELSE ToolRows(u, r)
    BY <1>2, <2>1 DEF ToolRows
  <2>3. ASSUME NEW r PROVE Cardinality(ToolRows(u, r) \cup {n}) = Cardinality(ToolRows(u, r)) + 1
    <3>1. ToolRows(u, r) \in SUBSET (1 .. Len(q))
      BY <1>2, <2>1 DEF ToolRows
    <3> QED
      BY <1>2, <3>1, CountUpTo
  <2>4. Recorded(u) => Recorded(u)'
    BY <1>2, <2>1 DEF Recorded
  <2>5. row.turn = turn[u] => Recorded(u)'
    <3>1. n \in DOMAIN a
      BY <1>2
    <3> QED
      BY <1>2, <2>1, <3>1 DEF Recorded
  <2> QED
    BY <1>5, <2>2, <2>3, <2>4, <2>5
<1> QED
  BY <1>4, <1>5

\* Every storage call on a session succeeds.
LEMMA NothingFails ==
  ASSUME StoreInv, MayFail = FALSE, NEW s \in Sessions
  PROVE  ~Fails(s) /\ \A row : ~AppendFails(s, row)
BY DEF StoreInv, Fails, AppendFails

\* Who works on a session may write a row of its turn: the others' stay.
LEMMA OthersStay ==
  ASSUME StoreInv, RowInv, NEW t \in Tasks, HasTurn(t), Active(t), owner[t] \in Sessions,
         NEW row \in StoredRow, row.turn = turn[t], Insert(owner[t], row),
         UNCHANGED <<owner, turn, ui>>, NEW u \in Tasks \ {t},
         step'[u] = step[u], bridge'[u] = bridge[u]
  PROVE  StoredRounds(u)'
<1>1. /\ HasTurn(u)' <=> HasTurn(u)
      /\ HasPrompt(u)' <=> HasPrompt(u)
      /\ InHand(u)' <=> InHand(u)
      /\ Active(u)' <=> Active(u)
  BY DEF HasTurn, HasPrompt, InHand, Active
<1>2. StoredRounds(u)
  BY DEF StoreInv
<1>3. CASE HasTurn(u)
  <2>1. owner[u] \in Sessions /\ (owner[u] = owner[t] => turn[u] # turn[t])
    BY <1>2, <1>3 DEF StoreInv, StoredRounds, TurnsDiffer
  <2>2. (\A r : ToolRows(u, r)' = ToolRows(u, r)) /\ (Recorded(u) => Recorded(u)')
    BY <2>1, RowsAfter
  <2>3. Stays(u)
    BY <1>1, <1>2, <2>2 DEF Stays, StoredRounds
  <2> QED
    BY <1>2, <2>3, StaysStored
<1>4. CASE ~HasTurn(u)
  BY <1>1, <1>4 DEF StoredRounds, HasPrompt, HasTurn
<1> QED
  BY <1>3, <1>4

-----------------------------------------------------------------------------
(* The steps.                                                              *)

\* The turn a task reads is nobody's in its session.
LEMMA ReadTurnStores ==
  ASSUME StoreInv, RowInv, WireInv, ClaimInv, MayFail = FALSE, NEW t \in Tasks, ReadTurn(t)
  PROVE  StoreInv'
<1>1. /\ step[t] = "tools" /\ turn' = [turn EXCEPT ![t] = NextTurn(owner[t])]
      /\ step' = [step EXCEPT ![t] = "turn"]
      /\ UNCHANGED <<stored, rows, owner, bridge, ui>>
  BY DEF ReadTurn, Goto, bridgeVars
<1>2. /\ bridge[t].pc = "none" /\ ui[t] = <<>> /\ Active(t) /\ owner[t] \in Sessions
  BY <1>1 DEF ClaimInv, Claims, WireInv, Wire, Unstarted, Active, RowInv, Place
<1>3. /\ step'[t] = "turn" /\ turn'[t] = NextTurn(owner[t])
      /\ \A u \in Tasks \ {t} : step'[u] = step[u] /\ turn'[u] = turn[u]
  BY <1>1 DEF ClaimInv, Shape, RowInv, RowData
<1>4. \A k \in DOMAIN rows[owner[t]] : rows[owner[t]][k].turn # turn'[t]
  <2> SUFFICES ASSUME NEW k \in DOMAIN rows[owner[t]]
               PROVE  rows[owner[t]][k].turn # NextTurn(owner[t])
    BY <1>3
  <2>1. /\ rows[owner[t]] \in Seq(StoredRow) /\ RowData
    BY <1>2 DEF RowInv, RowData
  <2>2. /\ rows[owner[t]] # <<>> /\ Len(rows[owner[t]]) \in DOMAIN rows[owner[t]]
        /\ k <= Len(rows[owner[t]])
        /\ rows[owner[t]][k].turn \in Nat /\ LastOf(owner[t]).turn \in Nat
    BY <2>1, RowOf DEF LastOf
  <2>3. rows[owner[t]][k].turn <= LastOf(owner[t]).turn
    BY <1>2, <2>1, <2>2 DEF RowData, LastOf
  <2>4. NextTurn(owner[t]) \in Nat /\ LastOf(owner[t]).turn < NextTurn(owner[t])
    BY <1>2, <2>1, <2>2, NextTurnIsNew
  <2> QED
    BY <2>2, <2>3, <2>4
<1>5. StoredRounds(t)'
  <2>1. ~HasPrompt(t)' /\ ~InHand(t)' /\ RoundsFinished(ui[t])' = {}
    BY <1>1, <1>2, <1>3 DEF HasPrompt, InHand, RoundsFinished
  <2>2. \A r : ToolRows(t, r)' = {}
    BY <1>1, <1>4 DEF ToolRows
  <2> QED
    BY <1>1, <1>2, <2>1, <2>2 DEF StoredRounds
<1>6. ASSUME NEW u \in Tasks \ {t} PROVE StoredRounds(u)'
  <2>1. StoredRounds(u)
    BY DEF StoreInv
  <2>2. Stays(u)
    BY <1>1, <1>3, <2>1 DEF Stays, StoredRounds, HasTurn, HasPrompt, InHand, Active, Recorded, ToolRows
  <2> QED
    BY <2>1, <2>2, StaysStored
<1>7. TurnsDiffer'
  <2>1. \A u \in Tasks \ {t} : (HasTurn(u)' <=> HasTurn(u)) /\ (Active(u)' <=> Active(u))
    BY <1>1, <1>3 DEF HasTurn, Active
  <2>2. ASSUME NEW u \in Tasks \ {t}, HasTurn(u), owner[u] = owner[t] PROVE turn'[u] # turn'[t]
    <3>1. CASE HasPrompt(u)
      <4>1. Recorded(u)
        BY <3>1 DEF StoreInv, StoredRounds
      <4> QED
        BY <1>3, <1>4, <2>2, <4>1 DEF Recorded
    <3>2. CASE ~HasPrompt(u)
      <4>1. step[u] = "turn"
        BY <2>2, <3>2 DEF HasTurn, HasPrompt
      <4>2. Active(u)
        BY <4>1 DEF Active, ClaimInv, Claims
      <4> QED
        BY <1>2, <2>2, <4>2 DEF ClaimInv, OneTaskPerSession
    <3> QED
      BY <3>1, <3>2
  <2> SUFFICES ASSUME NEW v \in Tasks, NEW u \in Tasks, v # u, HasTurn(v)', HasTurn(u)', Active(u)',
                      owner[v] = owner[u]
               PROVE  turn'[v] # turn'[u]
    BY <1>1 DEF TurnsDiffer
  <2>3. CASE v = t \/ u = t
    BY <2>1, <2>2, <2>3
  <2>4. CASE v # t /\ u # t
    BY <1>3, <2>1, <2>4 DEF StoreInv, TurnsDiffer
  <2> QED
    BY <2>3, <2>4
<1> QED
  BY <1>1, <1>5, <1>6, <1>7 DEF StoreInv

LEMMA WritePromptStores ==
  ASSUME StoreInv, RowInv, WireInv, ClaimInv, MayFail = FALSE, NEW t \in Tasks, WritePrompt(t)
  PROVE  StoreInv'
<1> DEFINE s == owner[t]  prompt == [turn |-> turn[t], round |-> 0, i |-> 0, role |-> "user"]
<1>1. step[t] = "turn" /\ UNCHANGED <<stored, owner, turn, bridge, ui>>
  BY DEF WritePrompt, bridgeVars
<1>2. /\ bridge[t].pc = "none" /\ ui[t] = <<>> /\ Active(t) /\ s \in Sessions /\ HasTurn(t)
  BY <1>1 DEF ClaimInv, Claims, WireInv, Wire, Unstarted, Active, RowInv, Place, HasTurn
<1>3. Insert(s, prompt) /\ step' = [step EXCEPT ![t] = "prompted"]
  <2>1. ~AppendFails(s, prompt)
    BY <1>2, NothingFails
  <2> QED
    BY <2>1 DEF WritePrompt, AppendSucceeds, Goto
<1>4. /\ step'[t] = "prompted" /\ \A u \in Tasks \ {t} : step'[u] = step[u]
  BY <1>3 DEF ClaimInv, Shape
<1>5. prompt \in StoredRow /\ prompt.turn = turn[t] /\ prompt.role = "user"
  BY StreamAssumption DEF StoredRow, RowInv, RowData
<1> HIDE DEF prompt
<1>6. (\A r : ToolRows(t, r)' = ToolRows(t, r)) /\ Recorded(t)'
  BY <1>1, <1>2, <1>3, <1>5, RowsAfter
<1>7. StoredRounds(t)'
  <2>1. StoredRounds(t)
    BY DEF StoreInv
  <2>2. Stays(t)
    BY <1>1, <1>2, <1>4, <1>6 DEF Stays, HasTurn, InHand, Active
  <2> QED
    BY <2>1, <2>2, StaysStored
<1>8. \A u \in Tasks \ {t} : StoredRounds(u)'
  BY <1>1, <1>2, <1>3, <1>4, <1>5, OthersStay
<1>9. TurnsDiffer'
  <2>1. \A u \in Tasks : (HasTurn(u)' => HasTurn(u)) /\ (Active(u)' => Active(u))
    BY <1>1, <1>2, <1>4 DEF HasTurn, Active
  <2> QED
    BY <1>1, <2>1, DifferStill DEF StoreInv
<1> QED
  BY <1>1, <1>7, <1>8, <1>9 DEF StoreInv

\* The bridge forwards an event that is not the end of a round.
LEMMA ForwardStores ==
  ASSUME StoreInv, RowInv, WireInv, ClaimInv, NEW t \in Tasks,
         HearTerminal(t) \/ HearRequest(t) \/ HearRetry(t) \/ HearOther(t)
  PROVE  StoreInv'
<1>1. PICK e \in Heard(t) :
        /\ Forward(t, e) /\ e.kind # "ModelRoundFinished"
        /\ UNCHANGED <<stored, rows, owner, turn, step>>
        /\ bridge' = bridge \/ Move(t, "finishing", NoMessage, 0)
  BY DEF HearTerminal, HearRequest, HearRetry, HearOther, BridgeOnly, startVars, IsTerminal, Terminal
<1>2. bridge[t].pc = "receiving" /\ ~InHand(t) /\ ui[t] \in Seq(Sent)
  BY DEF Heard, InHand, WireInv, StreamShape
<1>3. /\ Active(t) /\ owner[t] \in Sessions /\ step[t] = "returned"
  BY <1>2, BridgeShape
<1>4. /\ bridge'[t].pc \in {"receiving", "finishing"} /\ \A u \in Tasks \ {t} : bridge'[u] = bridge[u]
      /\ ui'[t] = Append(ui[t], e) /\ \A u \in Tasks \ {t} : ui'[u] = ui[u]
  BY <1>1, <1>2 DEF Move, At, ClaimInv, Shape, Forward, WireInv, StreamShape
<1>5. /\ e \in Sent /\ Floor(Taken(t)) \in Nat /\ Floor(EventOf(e)) \in Nat
      /\ Floor(Taken(t)) <= Floor(EventOf(e))
  BY HeardRaises
<1>6. Newest(NoEvent, ui'[t]) = EventOf(e) /\ Taken(t) = Newest(NoEvent, ui[t])
  BY <1>2, <1>4, <1>5, OneMore DEF Taken
<1>7. RoundsFinished(ui'[t]) = RoundsFinished(ui[t]) /\ \A i \in RoundsFinished(ui[t]) : ui'[t][i] = ui[t][i] /\ ui[t][i].round \in Nat
  <2>1. RoundsFinished(ui'[t]) = RoundsFinished(ui[t])
    BY <1>1, <1>2, <1>4, <1>5, CallsAfter
  <2>2. \A i \in DOMAIN ui[t] : ui'[t][i] = ui[t][i]
    BY <1>2, <1>4, <1>5, AppendFacts
  <2>3. \A i \in DOMAIN ui[t] : ui[t][i].round \in Nat
    <3>1. \A i \in DOMAIN ui[t] : ui[t][i] \in Sent
      BY <1>2, ElementOfSeq, LenProperties
    <3> QED
      BY <3>1 DEF Sent
  <2> QED
    BY <2>1, <2>2, <2>3 DEF RoundsFinished
<1>8. \A u \in Tasks : \A r : ToolRows(u, r)' = ToolRows(u, r)
  BY <1>1 DEF ToolRows
<1>9. StoredRounds(t)'
  <2>1. StoredRounds(t) /\ HasTurn(t) /\ HasPrompt(t) /\ ~InHand(t)'
    BY <1>3, <1>4 DEF StoreInv, HasTurn, HasPrompt, InHand
  <2>2. Floor(Newest(NoEvent, ui[t]))' = Floor(EventOf(e)) /\ Ahead(t) = Floor(Taken(t)) /\ Ahead(t)' = Floor(EventOf(e))
    BY <1>2, <1>6, <2>1 DEF Ahead, Floor, Newest
  <2>3. Recorded(t)'
    BY <1>1, <2>1 DEF StoredRounds, Recorded
  <2>4. ASSUME NEW i \in RoundsFinished(ui'[t])
        PROVE  /\ Cardinality(ToolRows(t, ui[t][i].round)') = ui'[t][i].tools
               /\ ui'[t][i].round < Floor(EventOf(e)) /\ ui'[t][i] = ui[t][i]
    BY <1>5, <1>6, <1>7, <1>8, <2>1 DEF StoredRounds
  <2>5. \A r \in Nat : r >= Ahead(t)' => ToolRows(t, r)' = {}
    BY <1>3, <1>5, <1>8, <2>1, <2>2 DEF StoredRounds
  <2>6. \A i \in RoundsFinished(ui[t])' : Cardinality(ToolRows(t, ui[t][i].round))' = ui'[t][i].tools
    BY <2>4 DEF ToolRows, RoundsFinished
  <2> QED
    BY <1>1, <1>3, <2>1, <2>2, <2>3, <2>4, <2>5, <2>6 DEF StoredRounds, RoundsFinished
<1>10. ASSUME NEW u \in Tasks \ {t} PROVE StoredRounds(u)'
  <2>1. StoredRounds(u)
    BY DEF StoreInv
  <2>2. Stays(u)
    BY <1>1, <1>4, <2>1, StillStays DEF HasTurn, HasPrompt, InHand, Active
  <2> QED
    BY <2>1, <2>2, StaysStored
<1>11. TurnsDiffer'
  <2>1. \A u \in Tasks : (HasTurn(u)' => HasTurn(u)) /\ (Active(u)' => Active(u))
    BY <1>1, <1>3, <1>4 DEF HasTurn, Active
  <2> QED
    BY <1>1, <2>1, DifferStill DEF StoreInv
<1> QED
  BY <1>1, <1>9, <1>10, <1>11 DEF StoreInv

\* The bridge takes a round: nothing of it is stored yet.
LEMMA RoundStores ==
  ASSUME StoreInv, RowInv, WireInv, ClaimInv, NEW t \in Tasks, HearRound(t)
  PROVE  StoreInv'
<1>1. PICK e \in Heard(t) :
        /\ e.kind = "ModelRoundFinished"
        /\ \/ Move(t, "persisting", e, e.tools + 1)
           \/ e.tools = 0 /\ Move(t, "settling", e, 0)
        /\ UNCHANGED <<stored, rows, owner, turn, step, ui>>
  BY DEF HearRound, BridgeOnly, startVars
<1>2. bridge[t].pc = "receiving" /\ ~InHand(t)
  BY DEF Heard, InHand
<1>3. /\ Active(t) /\ owner[t] \in Sessions /\ step[t] = "returned"
  BY <1>2, BridgeShape
<1>4. /\ e \in Sent /\ e.round \in Nat /\ e.tools \in Nat /\ Floor(Taken(t)) \in Nat
      /\ Floor(Taken(t)) <= e.round
  BY <1>1, HeardRaises DEF Sent
<1>5. /\ \A u \in Tasks \ {t} : bridge'[u] = bridge[u]
      /\ bridge'[t].event = e
      /\ \/ bridge'[t].pc = "persisting" /\ bridge'[t].left = e.tools + 1
         \/ bridge'[t].pc = "settling" /\ e.tools = 0
  BY <1>1 DEF Move, At, ClaimInv, Shape
<1>6. StoredRounds(t)'
  <2>1. StoredRounds(t) /\ HasTurn(t) /\ HasPrompt(t) /\ InHand(t)' /\ Ahead(t) = Floor(Taken(t))
    BY <1>2, <1>3, <1>5 DEF StoreInv, HasTurn, HasPrompt, InHand, Ahead, Taken
  <2>2. \A r : ToolRows(t, r)' = ToolRows(t, r)
    BY <1>1 DEF ToolRows
  <2>3. Ahead(t)' = e.round + 1 /\ \A r \in Nat : r >= e.round => ToolRows(t, r) = {}
    BY <1>3, <1>4, <1>5, <2>1 DEF Ahead, StoredRounds
  <2>4. InProgress(t)' = 0
    BY <1>4, <1>5 DEF InProgress, Written
  <2>5. Cardinality(ToolRows(t, bridge[t].event.round))' = InProgress(t)'
    <3>1. ASSUME NEW r, r = bridge'[t].event.round PROVE Cardinality(ToolRows(t, r)') = InProgress(t)'
      <4>1. ToolRows(t, r) = {}
        BY <1>4, <1>5, <2>3, <3>1
      <4>2. ToolRows(t, r)' = {}
        BY <2>2, <4>1
      <4> QED
        BY <2>4, <4>2, FS_EmptySet
    <3> QED
      BY <3>1 DEF ToolRows
  <2>6. \A r \in Nat : r >= Ahead(t)' => ToolRows(t, r)' = {}
    BY <1>4, <2>2, <2>3
  <2>7. Recorded(t)'
    BY <1>1, <2>1 DEF StoredRounds, Recorded
  <2>8. /\ RoundsFinished(ui[t])' = RoundsFinished(ui[t])
        /\ Floor(Newest(NoEvent, ui[t]))' = Floor(Newest(NoEvent, ui[t]))
    BY <1>1 DEF RoundsFinished, Floor, Newest, EventOf
  <2> QED
    BY <1>1, <1>3, <2>1, <2>2, <2>5, <2>6, <2>7, <2>8 DEF StoredRounds
<1>7. ASSUME NEW u \in Tasks \ {t} PROVE StoredRounds(u)'
  <2>1. StoredRounds(u)
    BY DEF StoreInv
  <2>2. Stays(u)
    BY <1>1, <1>5, <2>1, StillStays DEF HasTurn, HasPrompt, InHand, Active
  <2> QED
    BY <2>1, <2>2, StaysStored
<1>8. TurnsDiffer'
  <2>1. \A u \in Tasks : (HasTurn(u)' => HasTurn(u)) /\ (Active(u)' => Active(u))
    BY <1>1, <1>3, <1>5 DEF HasTurn, Active
  <2> QED
    BY <1>1, <2>1, DifferStill DEF StoreInv
<1> QED
  BY <1>1, <1>6, <1>7, <1>8 DEF StoreInv

\* One more row of the round in hand.
LEMMA PersistStores ==
  ASSUME StoreInv, RowInv, WireInv, ClaimInv, MayFail = FALSE, NEW t \in Tasks, PersistRow(t)
  PROVE  StoreInv'
<1> DEFINE b == bridge[t]  e == bridge[t].event  s == owner[t]  w == Written(t)
           row == [turn |-> turn[t], round |-> e.round, i |-> w,
                   role |-> IF w = 0 THEN "assistant" ELSE "tool"]
<1>1. b.pc = "persisting" /\ UNCHANGED <<stored, owner, turn, step, ui>>
  BY DEF PersistRow, BridgeOnly, startVars
<1>2. /\ Active(t) /\ s \in Sessions /\ step[t] = "returned" /\ e.tools \in Nat
      /\ e.round \in 0 .. MaxRounds /\ e.round \in Nat /\ b.left \in Int /\ turn[t] \in Nat
  BY <1>1, BridgeShape
<1>3. b.left >= 1 /\ w >= 0 /\ w \in Nat /\ w = e.tools + 1 - b.left
  <2>1. b.left >= 1 /\ w >= 0
    BY <1>1 DEF RowInv, Place
  <2> QED
    BY <1>2, <2>1 DEF Written
<1>4. /\ Insert(s, row)
      /\ Move(t, IF b.left > 1 THEN "persisting" ELSE "settling", e, b.left - 1)
  <2>1. \A r : ~AppendFails(s, r)
    BY <1>2, NothingFails
  <2> QED
    BY <2>1 DEF PersistRow, AppendSucceeds, Written
<1>5. row \in StoredRow /\ row.turn = turn[t] /\ row.round = e.round /\ (row.role = "tool" <=> w # 0)
  BY <1>2, <1>3 DEF StoredRow
<1> HIDE DEF row
<1>6. /\ \A u \in Tasks \ {t} : bridge'[u] = bridge[u]
      /\ bridge'[t].event = e /\ bridge'[t].left = b.left - 1
      /\ bridge'[t].pc = IF b.left > 1 THEN "persisting" ELSE "settling"
  BY <1>4 DEF Move, At, ClaimInv, Shape
<1>7. \A r : /\ r = e.round /\ w # 0 => Cardinality(ToolRows(t, r)') = Cardinality(ToolRows(t, r)) + 1
             /\ ~(r = e.round /\ w # 0) => ToolRows(t, r)' = ToolRows(t, r)
  BY <1>1, <1>2, <1>4, <1>5, RowsAfter
<1>8. HasTurn(t) /\ HasPrompt(t) /\ InHand(t) /\ InHand(t)'
  BY <1>1, <1>2, <1>6 DEF HasTurn, HasPrompt, InHand
<1>9. StoredRounds(t)'
  <2>1. StoredRounds(t) /\ Ahead(t) = e.round + 1 /\ Ahead(t)' = e.round + 1
    BY <1>6, <1>8 DEF StoreInv, Ahead
  <2>2. InProgress(t)' = IF w = 0 THEN InProgress(t) ELSE InProgress(t) + 1
    <3>1. InProgress(t) = IF w = 0 THEN 0 ELSE w - 1
      BY <1>1 DEF InProgress
    <3>2. Written(t)' = w + 1
      BY <1>2, <1>3, <1>6 DEF Written
    <3>3. InProgress(t)' = w
      BY <1>2, <1>3, <1>6, <3>2 DEF InProgress
    <3> QED
      BY <1>3, <3>1, <3>3
  <2>3. Cardinality(ToolRows(t, e.round)) = InProgress(t)
    BY <1>8, <2>1 DEF StoredRounds
  <2>4. \A r : r = e.round => Cardinality(ToolRows(t, r)') = InProgress(t)'
    BY <1>7, <2>2, <2>3
  <2>5. Cardinality(ToolRows(t, bridge[t].event.round))' = InProgress(t)'
    <3>1. \A r : r = bridge'[t].event.round => Cardinality(ToolRows(t, r)') = InProgress(t)'
      BY <1>6, <2>4
    <3> QED
      BY <3>1 DEF ToolRows
  <2>6. \A r \in Nat : r >= Ahead(t)' => ToolRows(t, r)' = {}
    BY <1>2, <1>7, <1>8, <2>1 DEF StoredRounds
  <2>7. Recorded(t)'
    BY <1>1, <1>2, <1>4, <1>5, RowsAfter
  <2>8. ASSUME NEW i \in RoundsFinished(ui[t])
        PROVE  /\ \A r : r = ui[t][i].round => Cardinality(ToolRows(t, r)') = ui[t][i].tools
               /\ ui[t][i].round < Floor(Newest(NoEvent, ui[t]))
    <3>1. /\ Cardinality(ToolRows(t, ui[t][i].round)) = ui[t][i].tools
          /\ ui[t][i].round < Floor(Newest(NoEvent, ui[t]))
      BY <1>8, <2>1 DEF StoredRounds
    <3>2. ui[t][i].round # e.round
      <4>1. MayFollow(Newest(NoEvent, ui[t]), EventOf(e)) /\ e.kind = "ModelRoundFinished"
        BY <1>8 DEF WireInv, Wire, RowInv, Place
      <4>2. ui[t] \in Seq(Sent) /\ i \in 1 .. Len(ui[t])
        BY LenProperties DEF WireInv, StreamShape, RoundsFinished
      <4>3. ui[t][i].round \in Nat
        <5>1. ui[t][i] \in Sent
          BY <4>2, ElementOfSeq
        <5> QED
          BY <5>1 DEF Sent
      <4>4. Newest(NoEvent, ui[t]) \in Event
        <5>1. Len(ui[t]) \in 1 .. Len(ui[t]) /\ ui[t] # <<>>
          BY <4>2
        <5>2. ui[t][Len(ui[t])] \in Sent
          BY <4>2, <5>1, ElementOfSeq
        <5> QED
          BY <5>1, <5>2 DEF Newest, EventOf, Ev, Sent, Event
      <4>5. EventOf(e) \in Event /\ EventOf(e).kind = e.kind /\ EventOf(e).round = e.round
        BY <1>2, <4>1 DEF EventOf, Ev, Event, Kinds
      <4>6. Floor(Newest(NoEvent, ui[t])) <= e.round
        BY <4>1, <4>4, <4>5, FloorRises
      <4>7. Floor(Newest(NoEvent, ui[t])) \in Nat
        BY <4>4 DEF Floor, Event
      <4> QED
        BY <1>2, <3>1, <4>3, <4>6, <4>7
    <3> QED
      BY <1>7, <3>1, <3>2
  <2>9. /\ RoundsFinished(ui[t])' = RoundsFinished(ui[t])
        /\ Floor(Newest(NoEvent, ui[t]))' = Floor(Newest(NoEvent, ui[t]))
    BY <1>1 DEF RoundsFinished, Floor, Newest, EventOf
  <2>10. \A i \in RoundsFinished(ui[t])' :
           /\ Cardinality(ToolRows(t, ui[t][i].round))' = ui'[t][i].tools
           /\ ui'[t][i].round < Floor(Newest(NoEvent, ui[t]))'
    <3>1. \A i \in RoundsFinished(ui[t]) : Cardinality(ToolRows(t, ui[t][i].round))' = ui'[t][i].tools
      BY <1>1, <2>8 DEF ToolRows
    <3> QED
      BY <1>1, <2>8, <2>9, <3>1
  <2> QED
    BY <1>1, <1>2, <2>5, <2>6, <2>7, <2>10 DEF StoredRounds
<1>10. \A u \in Tasks \ {t} : StoredRounds(u)'
  BY <1>1, <1>2, <1>4, <1>5, <1>6, <1>8, OthersStay
<1>11. TurnsDiffer'
  <2>1. \A u \in Tasks : (HasTurn(u)' => HasTurn(u)) /\ (Active(u)' => Active(u))
    BY <1>1, <1>2, <1>6 DEF HasTurn, Active
  <2> QED
    BY <1>1, <2>1, DifferStill DEF StoreInv
<1> QED
  BY <1>1, <1>9, <1>10, <1>11 DEF StoreInv

\* The round is announced when its rows are written.
LEMMA SettleStores ==
  ASSUME StoreInv, RowInv, WireInv, ClaimInv, NEW t \in Tasks, SettleRound(t)
  PROVE  StoreInv'
<1> DEFINE e == bridge[t].event
<1>1. /\ bridge[t].pc = "settling" /\ InHand(t) /\ ui' = [ui EXCEPT ![t] = Append(ui[t], e)]
      /\ Move(t, "receiving", NoMessage, 0)
      /\ UNCHANGED <<stored, rows, owner, turn, step>>
  BY DEF SettleRound, InHand, Forward, BridgeOnly, startVars
<1>2. /\ Active(t) /\ owner[t] \in Sessions /\ step[t] = "returned" /\ e.tools \in Nat
      /\ e.round \in Nat
  BY <1>1, BridgeShape
<1>3. /\ e \in Sent /\ ui[t] \in Seq(Sent) /\ e.kind = "ModelRoundFinished"
      /\ MayFollow(Newest(NoEvent, ui[t]), EventOf(e))
  <2>1. e \in Message
    BY DEF ClaimInv, Shape
  <2>2. Message \subseteq Sent
    BY KernelAssumption DEF Message, Sent
  <2> QED
    BY <1>1, <2>1, <2>2 DEF WireInv, StreamShape, Wire, RowInv, Place
<1>4. /\ bridge'[t].pc = "receiving" /\ \A u \in Tasks \ {t} : bridge'[u] = bridge[u]
      /\ ui'[t] = Append(ui[t], e) /\ \A u \in Tasks \ {t} : ui'[u] = ui[u]
  BY <1>1 DEF Move, At, ClaimInv, Shape, WireInv, StreamShape
<1>5. StoredRounds(t) /\ HasTurn(t) /\ ~InHand(t)' /\ HasPrompt(t)
  BY <1>2, <1>4 DEF StoreInv, HasTurn, HasPrompt, InHand
<1>6. \A u \in Tasks : \A r : ToolRows(u, r)' = ToolRows(u, r)
  BY <1>1 DEF ToolRows
<1>7. /\ Newest(NoEvent, ui'[t]) = EventOf(e) /\ Floor(EventOf(e)) = e.round + 1
  BY <1>3, <1>4, OneMore DEF Floor, EventOf, Ev, InRound
<1>8. Floor(Newest(NoEvent, ui[t]))' = e.round + 1 /\ Ahead(t)' = e.round + 1 /\ Ahead(t) = e.round + 1
  BY <1>1, <1>5, <1>7 DEF Floor, Newest, Ahead
<1>9. ASSUME NEW i \in RoundsFinished(ui'[t])
      PROVE  /\ Cardinality(ToolRows(t, ui'[t][i].round)) = ui'[t][i].tools
             /\ ui'[t][i].round < e.round + 1
  <2>1. /\ Len(ui[t]) \in Nat /\ DOMAIN ui[t] = 1 .. Len(ui[t])
        /\ \A k \in 1 .. Len(ui[t]) : ui'[t][k] = ui[t][k]
        /\ ui'[t][Len(ui[t]) + 1] = e
    BY <1>3, <1>4, AppendFacts
  <2>2. RoundsFinished(ui'[t]) = RoundsFinished(ui[t]) \cup {Len(ui[t]) + 1}
    BY <1>3, <1>4, CallsAfter
  <2>3. CASE i = Len(ui[t]) + 1
    <3>1. Cardinality(ToolRows(t, e.round)) = e.tools
      BY <1>1, <1>5 DEF StoredRounds, InProgress
    <3> QED
      BY <1>2, <2>1, <2>3, <3>1
  <2>4. CASE i \in RoundsFinished(ui[t])
    <3>1. i \in 1 .. Len(ui[t]) /\ ui'[t][i] = ui[t][i]
      BY <2>1, <2>4 DEF RoundsFinished
    <3>2. /\ Cardinality(ToolRows(t, ui[t][i].round)) = ui[t][i].tools
          /\ ui[t][i].round < Floor(Newest(NoEvent, ui[t]))
      BY <1>5, <2>4 DEF StoredRounds
    <3>3. ui[t][i].round \in Nat
      <4>1. ui[t][i] \in Sent
        BY <1>3, <3>1, ElementOfSeq
      <4> QED
        BY <4>1 DEF Sent
    <3>4. Newest(NoEvent, ui[t]) \in Event
      <4>1. Len(ui[t]) \in 1 .. Len(ui[t]) /\ ui[t] # <<>>
        BY <2>1, <3>1
      <4>2. ui[t][Len(ui[t])] \in Sent
        BY <1>3, <4>1, ElementOfSeq
      <4> QED
        BY <4>1, <4>2 DEF Newest, EventOf, Ev, Sent, Event
    <3>5. EventOf(e) \in Event /\ EventOf(e).kind = e.kind /\ EventOf(e).round = e.round
      BY <1>3 DEF EventOf, Ev, Event, Sent
    <3>6. Floor(Newest(NoEvent, ui[t])) <= e.round
      BY <1>3, <3>4, <3>5, FloorRises
    <3>7. Floor(Newest(NoEvent, ui[t])) \in Nat
      BY <3>4 DEF Floor, Event
    <3> QED
      BY <1>2, <3>1, <3>2, <3>3, <3>6, <3>7
  <2> QED
    BY <2>2, <2>3, <2>4
<1>10. StoredRounds(t)'
  <2>1. Recorded(t)'
    BY <1>1, <1>5 DEF StoredRounds, Recorded
  <2>2. \A r \in Nat : r >= Ahead(t)' => ToolRows(t, r)' = {}
    BY <1>2, <1>5, <1>6, <1>8 DEF StoredRounds
  <2>3. \A i \in RoundsFinished(ui'[t]) : \A r :
          r = ui'[t][i].round => Cardinality(ToolRows(t, r)') = ui'[t][i].tools
    BY <1>6, <1>9
  <2>4. \A i \in RoundsFinished(ui[t])' :
          /\ Cardinality(ToolRows(t, ui[t][i].round))' = ui'[t][i].tools
          /\ ui'[t][i].round < Floor(Newest(NoEvent, ui[t]))'
    <3>1. RoundsFinished(ui[t])' = RoundsFinished(ui'[t])
      BY DEF RoundsFinished
    <3>2. \A i \in RoundsFinished(ui'[t]) : Cardinality(ToolRows(t, ui[t][i].round))' = ui'[t][i].tools
      BY <2>3 DEF ToolRows
    <3> QED
      BY <1>8, <1>9, <3>1, <3>2
  <2> QED
    BY <1>1, <1>2, <1>5, <2>1, <2>2, <2>4 DEF StoredRounds
<1>11. ASSUME NEW u \in Tasks \ {t} PROVE StoredRounds(u)'
  <2>1. StoredRounds(u)
    BY DEF StoreInv
  <2>2. Stays(u)
    BY <1>1, <1>4, <2>1, StillStays DEF HasTurn, HasPrompt, InHand, Active
  <2> QED
    BY <2>1, <2>2, StaysStored
<1>12. TurnsDiffer'
  <2>1. \A u \in Tasks : (HasTurn(u)' => HasTurn(u)) /\ (Active(u)' => Active(u))
    BY <1>1, <1>2, <1>4 DEF HasTurn, Active
  <2> QED
    BY <1>1, <2>1, DifferStill DEF StoreInv
<1> QED
  BY <1>1, <1>10, <1>11, <1>12 DEF StoreInv

LEMMA BridgeStores ==
  ASSUME StoreInv, RowInv, WireInv, ClaimInv, MayFail = FALSE, NEW t \in Tasks, BridgeStep(t)
  PROVE  StoreInv'
<1>1. CASE HearClosed(t) \/ ReleaseSession(t)
  <2>1. UNCHANGED <<stored, rows, owner, turn, step, ui>>
    BY <1>1 DEF HearClosed, ReleaseSession, BridgeOnly, startVars
  <2>2. /\ bridge[t].pc \in {"receiving", "finishing"} /\ bridge'[t].pc \in {"finishing", "done"}
        /\ \A u \in Tasks \ {t} : bridge'[u] = bridge[u]
    BY <1>1 DEF HearClosed, ReleaseSession, Move, At, ClaimInv, Shape
  <2>3. ASSUME NEW u \in Tasks PROVE StoredRounds(u)'
    <3>1. StoredRounds(u)
      BY DEF StoreInv
    <3>2. Stays(u)
      BY <2>1, <2>2, <3>1, StillStays DEF HasTurn, HasPrompt, InHand, Active
    <3> QED
      BY <3>1, <3>2, StaysStored
  <2>4. TurnsDiffer'
    <3>1. \A u \in Tasks : (HasTurn(u)' => HasTurn(u)) /\ (Active(u)' => Active(u))
      BY <2>1, <2>2 DEF HasTurn, Active
    <3> QED
      BY <2>1, <3>1, DifferStill DEF StoreInv
  <2> QED
    BY <2>1, <2>3, <2>4 DEF StoreInv
<1> QED
  BY <1>1, ForwardStores, RoundStores, PersistStores, SettleStores DEF BridgeStep

\* The steps that neither write a row nor forward an event.
LEMMA QuietStores ==
  ASSUME StoreInv, UNCHANGED <<stored, rows, owner, turn, ui>>,
         \A u \in Tasks :
           /\ HasTurn(u)' => HasTurn(u)
           /\ HasPrompt(u)' => HasPrompt(u)
           /\ InHand(u)' => InHand(u) /\ bridge'[u] = bridge[u]
           /\ Active(u)' => Active(u) /\ (InHand(u)' <=> InHand(u))
  PROVE  StoreInv'
<1>1. ASSUME NEW u \in Tasks PROVE StoredRounds(u)'
  <2>1. StoredRounds(u)
    BY DEF StoreInv
  <2>2. Stays(u)
    BY <2>1, StillStays
  <2> QED
    BY <2>1, <2>2, StaysStored
<1>2. TurnsDiffer'
  BY DifferStill DEF StoreInv
<1> QED
  BY <1>1, <1>2 DEF StoreInv

LEMMA StartStores ==
  ASSUME StoreInv, RowInv, WireInv, ClaimInv, MayFail = FALSE, NEW t \in Tasks, StartStep(t)
  PROVE  StoreInv'
<1>1. CASE BuildTools(t) \/ AssembleContext(t) \/ StartAgent(t) \/ SpawnBridge(t)
  <2>1. /\ UNCHANGED <<stored, rows, owner, turn, ui>>
        /\ bridge' = bridge \/ bridge' = [bridge EXCEPT ![t] = At("receiving", NoMessage, 0)]
    BY <1>1 DEF BuildTools, AssembleContext, StartAgent, SpawnBridge, startVars, bridgeVars
  <2>2. bridge[t].pc = "none" /\ step[t] \in {"marked", "prompted", "assembled", "starting"}
    BY <1>1 DEF BuildTools, AssembleContext, StartAgent, SpawnBridge, ClaimInv, Claims
  <2>3. /\ bridge'[t].pc \in {"none", "receiving"} /\ \A u \in Tasks \ {t} : bridge'[u] = bridge[u]
    BY <2>1, <2>2 DEF At, ClaimInv, Shape
  <2>4. /\ \/ step'[t] \in {"tools", "rejected"}
           \/ step[t] # "marked" /\ step'[t] \in {"assembled", "starting", "returned", "rejected"}
        /\ \A u \in Tasks \ {t} : step'[u] = step[u]
    <3>1. \/ step[t] = "marked" /\ (Goto(t, "tools") \/ Goto(t, "rejected"))
          \/ step[t] # "marked" /\ \E p \in {"assembled", "starting", "returned", "rejected"} : Goto(t, p)
      BY <1>1 DEF BuildTools, AssembleContext, StartAgent, SpawnBridge, Reject
    <3>2. \A p : Goto(t, p) => step'[t] = p /\ \A u \in Tasks \ {t} : step'[u] = step[u]
      BY DEF Goto, ClaimInv, Shape
    <3> QED
      BY <3>1, <3>2
  <2>5. ASSUME NEW u \in Tasks
        PROVE  /\ HasTurn(u)' => HasTurn(u)
               /\ HasPrompt(u)' => HasPrompt(u)
               /\ InHand(u)' => InHand(u) /\ bridge'[u] = bridge[u]
               /\ Active(u)' => Active(u) /\ (InHand(u)' <=> InHand(u))
    BY <2>1, <2>2, <2>3, <2>4 DEF HasTurn, HasPrompt, InHand, Active
  <2> QED
    BY <2>1, <2>5, QuietStores
<1>2. CASE ReadTurn(t)
  BY <1>2, ReadTurnStores
<1>3. CASE WritePrompt(t)
  BY <1>3, WritePromptStores
<1> QED
  BY <1>1, <1>2, <1>3 DEF StartStep

\* A claim, of a task that has no turn yet.
LEMMA ClaimStores ==
  ASSUME StoreInv, WireInv, ClaimInv, NEW t \in Tasks, NEW s \in Sessions, ClaimSession(t, s)
  PROVE  StoreInv'
<1>1. /\ step[t] = "idle" /\ owner' = [owner EXCEPT ![t] = s]
      /\ step' = [step EXCEPT ![t] = IF s \in running THEN "rejected" ELSE "marked"]
      /\ UNCHANGED <<stored, rows, turn, bridge, ui>>
  BY DEF ClaimSession, Goto, bridgeVars
<1>2. /\ step'[t] \in {"rejected", "marked"} /\ ui[t] = <<>> /\ bridge[t].pc = "none"
      /\ \A u \in Tasks \ {t} : step'[u] = step[u] /\ owner'[u] = owner[u]
  BY <1>1 DEF ClaimInv, Shape, Claims, WireInv, Wire, Unstarted
<1>3. ~HasTurn(t)' /\ ~HasPrompt(t)'
  BY <1>1, <1>2 DEF HasTurn, HasPrompt
<1>4. ASSUME NEW u \in Tasks \ {t} PROVE StoredRounds(u)'
  <2>1. StoredRounds(u)
    BY DEF StoreInv
  <2>2. Stays(u)
    BY <1>1, <1>2, <2>1, StillStays DEF HasTurn, HasPrompt, InHand, Active
  <2> QED
    BY <2>1, <2>2, StaysStored
<1>5. TurnsDiffer'
  <2>1. \A u \in Tasks \ {t} : /\ HasTurn(u)' <=> HasTurn(u)
                               /\ Active(u)' <=> Active(u)
    BY <1>1, <1>2 DEF HasTurn, Active
  <2> QED
    BY <1>1, <1>2, <1>3, <2>1 DEF StoreInv, TurnsDiffer
<1> QED
  BY <1>1, <1>3, <1>4, <1>5 DEF StoreInv, StoredRounds

LEMMA CrashStores ==
  ASSUME StoreInv, Crash
  PROVE  StoreInv'
<1>1. /\ UNCHANGED <<stored, rows, owner, turn, ui>> /\ bridge' = [t \in Tasks |-> Idle]
      /\ step' = [t \in Tasks |-> IF step[t] = "idle" THEN "idle" ELSE "lost"]
  BY DEF Crash
<1>2. ASSUME NEW u \in Tasks
      PROVE  /\ HasTurn(u)' => HasTurn(u)
             /\ HasPrompt(u)' => HasPrompt(u)
             /\ ~InHand(u)' /\ ~Active(u)'
  BY <1>1 DEF HasTurn, HasPrompt, InHand, Active, Idle, At
<1> QED
  BY <1>1, <1>2, QuietStores

LEMMA StoreInvariance ==
  ASSUME MayFail = FALSE, MayDelete = FALSE
  PROVE  KernelSpec => []StoreInv
<1>1. KernelInit => StoreInv
  <2> SUFFICES ASSUME KernelInit PROVE StoreInv
    OBVIOUS
  <2>1. \A t \in Tasks : ~HasTurn(t) /\ ~HasPrompt(t)
    BY DEF KernelInit, HasTurn, HasPrompt
  <2> QED
    BY <2>1 DEF KernelInit, StoreInv, TurnsDiffer, StoredRounds
<1>2. StoreInv /\ RowInv /\ WireInv /\ ClaimInv /\ [KernelNext]_vars => StoreInv'
  <2> SUFFICES ASSUME StoreInv, RowInv, WireInv, ClaimInv, [KernelNext]_vars PROVE StoreInv'
    OBVIOUS
  <2>1. CASE (\E t \in Tasks : AgentStep(t) \/ CancelTask(t)) \/ UNCHANGED vars
    <3>1. UNCHANGED <<stored, rows, owner, turn, ui, step, bridge>>
      BY <2>1 DEF AgentStep, HangUp, PublishEvent, CancelTask, vars, startVars, bridgeVars
    <3>2. \A u \in Tasks :
            /\ HasTurn(u)' => HasTurn(u)
            /\ HasPrompt(u)' => HasPrompt(u)
            /\ InHand(u)' => InHand(u) /\ bridge'[u] = bridge[u]
            /\ Active(u)' => Active(u) /\ (InHand(u)' <=> InHand(u))
      BY <3>1 DEF HasTurn, HasPrompt, InHand, Active
    <3> QED
      BY <3>1, <3>2, QuietStores
  <2>2. ~\E s \in Sessions : DeleteSession(s)
    BY DEF DeleteSession
  <2> QED
    BY <2>1, <2>2, StartStores, ClaimStores, BridgeStores, CrashStores DEF KernelNext
<1> QED
  BY <1>1, <1>2, RowInvariance, WireInvariance, ClaimInvariance, PTL DEF KernelSpec

\* While storage works, a round the user interface saw finished is in storage
\* with every tool result it kept, whatever tasks of the session came before
\* it and wherever the process dies (session_service.rs:97-163).
THEOREM AnnouncedRoundsStoredTheorem ==
  ASSUME MayFail = FALSE, MayDelete = FALSE
  PROVE  KernelSpec => []AnnouncedRoundsStored
<1>1. StoreInv /\ TellInv /\ WireInv /\ ClaimInv => AnnouncedRoundsStored
  <2> SUFFICES ASSUME StoreInv, TellInv, WireInv, ClaimInv, NEW t \in Tasks, NEW i \in RoundsFinished(ui[t])
               PROVE  Cardinality(ToolRows(t, ui[t][i].round)) = Cardinality(Kept(ui[t], ui[t][i].round))
    BY DEF AnnouncedRoundsStored
  <2>1. HasTurn(t)
    BY DEF HasTurn, RoundsFinished
  <2>2. Cardinality(ToolRows(t, ui[t][i].round)) = ui[t][i].tools
    BY <2>1 DEF StoreInv, StoredRounds
  <2>3. ui[t] \in Seq(Sent) /\ Hand(t) \o chan[t] \in Seq(Sent)
    BY StoryShape, ConcatProperties
  <2>4. Told(ui[t])
    BY <2>3, ToldBefore DEF TellInv, Story
  <2> QED
    BY <2>2, <2>3, <2>4, ToldIsKept
<1> QED
  BY <1>1, StoreInvariance, TellInvariance, WireInvariance, ClaimInvariance, PTL
=============================================================================
