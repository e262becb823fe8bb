--------------------------- MODULE AcpServerProofs ---------------------------
(***************************************************************************)
(* Theorems about AcpServer, for every number of sessions, every channel    *)
(* capacity and every bound on the host's traffic.                          *)
(***************************************************************************)
EXTENDS AcpServer, TLAPS

-----------------------------------------------------------------------------
(* Sequences and frames.                                                   *)

\* The head of a queue that is not empty is an element, its tail a queue.
LEMMA HeadTail ==
  ASSUME NEW S, NEW q \in Seq(S), q # <<>>
  PROVE  /\ Head(q) \in S /\ Tail(q) \in Seq(S)
         /\ Len(Tail(q)) = Len(q) - 1
OBVIOUS

\* What stands in a queue is of the queue's kind.
LEMMA Element ==
  ASSUME NEW S, NEW q \in Seq(S), NEW i \in 1..Len(q)
  PROVE  q[i] \in S
OBVIOUS

\* A queue grows by one element of its kind and stays such a queue.
LEMMA Appended ==
  ASSUME NEW S, NEW q \in Seq(S), NEW e
  PROVE  /\ Len(q) \in Nat /\ Len(Append(q, e)) = Len(q) + 1
         /\ \A i \in 1..Len(q) : Append(q, e)[i] = q[i]
         /\ Append(q, e)[Len(q) + 1] = e
         /\ \A i \in 1..Len(Append(q, e)) :
              i \in 1..Len(q) \/ i = Len(q) + 1
OBVIOUS

\* The fields of the frames the host may send.
LEMMA FrameFields ==
  ASSUME NEW f \in Frame
  PROVE  /\ f.at \in Nat /\ f.rpc \in Nat
         /\ f.kind \in SessionKinds => f.sid \in Sid
BY DEF Frame, FrameKinds, SessionKinds

-----------------------------------------------------------------------------
(* Type correctness.                                                       *)

\* The initial state has its types.
LEMMA InitType == Init => TypeOK
<1> SUFFICES ASSUME Init PROVE TypeOK
  OBVIOUS
<1> USE AcpServerAssumption DEF Init, NoToken
<1>1. HostTypes
  <2>1. hostClosed \in BOOLEAN
    BY Zenon
  <2> QED BY <2>1 DEF HostTypes
<1>2. RouterTypes
  <2>1. routerDone \in BOOLEAN
    BY Zenon
  <2> QED BY <2>1 DEF RouterTypes
<1>3. TableTypes
  BY DEF TableTypes, Sid
<1>4. RpcTypes
  BY DEF RpcTypes
<1>5. DrainTypes
  BY DEF DrainTypes
<1>6. TurnTypes
  BY DEF TurnTypes, Outcomes
<1>7. OutputTypes
  BY DEF OutputTypes
<1> QED BY <1>1, <1>2, <1>3, <1>4, <1>5, <1>6, <1>7 DEF TypeOK

\* arm_turn keeps the types.
LEMMA ArmType ==
  ASSUME TableTypes, NEW s \in Sid, Arm(s), tripped' \in SUBSET Nat,
         disk' = disk
  PROVE  TableTypes'
BY DEF TableTypes, Arm

\* A response written by the dispatcher keeps the types.
LEMMA RespondType ==
  ASSUME OutputTypes, NEW f \in Frame, NEW what \in Outcomes,
         Respond(f, what), server' = server
  PROVE  OutputTypes'
<1>1. [at |-> f.at, outcome |-> what] \in [at : Nat, outcome : Outcomes]
  BY FrameFields
<1> QED BY <1>1 DEF OutputTypes, Respond

\* A frame written by the host keeps the types.
LEMMA HostWritesType ==
  ASSUME TypeOK, NEW f \in Frame, HostWrites(f)
  PROVE  TypeOK'
<1>1. HostTypes'
  BY DEF HostWrites, HostTypes, TypeOK
<1>2. UNCHANGED <<routerVars, queue, tableVars, rpcVars, drainVars, turnVars,
                  responses, server>>
  BY DEF HostWrites
<1> QED
  BY <1>1, <1>2 DEF TypeOK, RouterTypes, TableTypes, RpcTypes, DrainTypes,
     TurnTypes, OutputTypes, routerVars, tableVars, rpcVars, drainVars, turnVars

\* A step of the host closes stdin or writes one frame with the next number.
LEMMA HostStep ==
  TypeOK /\ Host =>
    HostCloses \/ \E f \in Frame : f.at = sent + 1 /\ HostWrites(f)
<1> SUFFICES ASSUME TypeOK, Host
             PROVE  HostCloses \/ \E f \in Frame : f.at = sent + 1 /\ HostWrites(f)
  OBVIOUS
<1> USE DEF TypeOK, HostTypes, HostSends
<1>1. ASSUME NEW kind \in {"new", "bad_prompt", "bad_cancel", "control", "warmup"},
             HostSends(kind, NoSid)
      PROVE  \E f \in Frame : f.at = sent + 1 /\ HostWrites(f)
  <2> DEFINE g == [kind |-> kind, sid |-> NoSid, at |-> sent + 1, rpc |-> 0]
  <2>1. g \in Frame /\ g.at = sent + 1
    BY DEF Frame, FrameKinds, SessionKinds
  <2> QED BY <1>1, <2>1
<1>2. ASSUME NEW s \in Known, NEW kind \in SessionKinds, HostSends(kind, s)
      PROVE  \E f \in Frame : f.at = sent + 1 /\ HostWrites(f)
  <2> DEFINE g == [kind |-> kind, sid |-> s, at |-> sent + 1, rpc |-> 0]
  <2>1. g \in Frame /\ g.at = sent + 1
    BY DEF Frame, Known, Sid
  <2> QED BY <1>2, <2>1
<1>3. ASSUME NEW r \in written,
        HostWrites([kind |-> "reply", sid |-> NoSid, at |-> sent + 1, rpc |-> r])
      PROVE  \E f \in Frame : f.at = sent + 1 /\ HostWrites(f)
  <2> DEFINE g == [kind |-> "reply", sid |-> NoSid, at |-> sent + 1, rpc |-> r]
  <2>1. g \in Frame /\ g.at = sent + 1
    BY DEF Frame, FrameKinds, SessionKinds, DrainTypes
  <2> QED BY <1>3, <2>1
<1> QED BY <1>1, <1>2, <1>3 DEF Host, HostRequests, HostReplies

\* The steps of the host keep the types.
LEMMA HostType == TypeOK /\ Host => TypeOK'
<1> SUFFICES ASSUME TypeOK, Host PROVE TypeOK'
  OBVIOUS
<1>1. CASE HostCloses
  BY <1>1 DEF HostCloses, TypeOK, HostTypes, RouterTypes, TableTypes, RpcTypes,
     DrainTypes, TurnTypes, OutputTypes, routerVars, tableVars, rpcVars,
     drainVars, turnVars
<1> QED BY <1>1, HostStep, HostWritesType

\* The steps of the router keep the types.
LEMMA RouterType == TypeOK /\ Router => TypeOK'
<1> SUFFICES ASSUME TypeOK, Router PROVE TypeOK'
  OBVIOUS
<1> USE DEF TypeOK, HostTypes, RouterTypes, TableTypes, RpcTypes, DrainTypes,
            TurnTypes, OutputTypes, hostVars, routerVars, tableVars, rpcVars,
            drainVars, turnVars
<1>1. CASE RouteReply
  BY <1>1 DEF RouteReply, RouterTakes
<1>2. CASE RouteRequest
  BY <1>2 DEF RouteRequest, RouterTakes
<1>3. CASE RouteCancelLookup
  BY <1>3 DEF RouteCancelLookup, RouterTakes, Frame, FrameKinds, SessionKinds
<1>4. CASE RouteCancelForward
  <2>1. Head(inbox) \in Frame /\ Tail(inbox) \in Seq(Frame)
    BY <1>4, HeadTail DEF RouteCancelForward, RouterTakes
  <2>2. Head(inbox).at \in Nat
    BY <2>1, FrameFields
  <2>3. HostTypes'
    BY <1>4, <2>1 DEF RouteCancelForward
  <2>5. queue' \in Seq(Frame)
    BY <1>4, <2>1 DEF RouteCancelForward
  <2>6. lastCancel' \in [Sid -> Nat]
    BY <1>4, <2>2 DEF RouteCancelForward
  <2>7. RouterTypes'
    BY <1>4, <2>5, <2>6 DEF RouteCancelForward
  <2>4. TableTypes'
    BY <1>4 DEF RouteCancelForward
  <2> QED BY <1>4, <2>3, <2>4, <2>7 DEF RouteCancelForward
<1>5. CASE RouteEof
  BY <1>5 DEF RouteEof
<1> QED BY <1>1, <1>2, <1>3, <1>4, <1>5 DEF Router

\* The steps of the dispatcher keep the types.
LEMMA DispatcherType == TypeOK /\ Dispatcher => TypeOK'
<1> SUFFICES ASSUME TypeOK, Dispatcher PROVE TypeOK'
  OBVIOUS
<1> USE DEF TypeOK, HostTypes, RouterTypes, TableTypes, RpcTypes, DrainTypes,
            TurnTypes, OutputTypes, hostVars, routerVars, tableVars, rpcVars,
            drainVars, turnVars
<1>1. CASE DispatchNew
  <2>1. Head(queue) \in Frame /\ Tail(queue) \in Seq(Frame)
    BY <1>1, HeadTail DEF DispatchNew, Dispatches
  <2>2. RouterTypes'
    BY <1>1, <2>1 DEF DispatchNew
  <2>3. TableTypes'
    BY <1>1, ArmType DEF DispatchNew, Sid
  <2>4. OutputTypes'
    <3>1. "created" \in Outcomes
      BY DEF Outcomes
    <3> QED BY <1>1, <2>1, <3>1, RespondType DEF DispatchNew
  <2> QED BY <1>1, <2>2, <2>3, <2>4 DEF DispatchNew
<1>2. CASE DispatchLoad
  <2>1. Head(queue) \in Frame /\ Tail(queue) \in Seq(Frame)
    BY <1>2, HeadTail DEF DispatchLoad, Dispatches
  <2>2. Head(queue).at \in Nat
    BY <2>1, FrameFields
  <2>3. RouterTypes'
    BY <1>2, <2>1 DEF DispatchLoad
  <2>4. TableTypes'
    <3>1. CASE Arm(Head(queue).sid)
      BY <1>2, <3>1, <2>1, FrameFields, ArmType
         DEF DispatchLoad, Dispatches, SessionKinds
    <3>2. CASE UNCHANGED <<sessions, cancelTokens, nextToken>>
      BY <1>2, <3>2 DEF DispatchLoad
    <3> QED BY <1>2, <3>1, <3>2 DEF DispatchLoad
  <2>5. OutputTypes'
    <3>1. "loaded" \in Outcomes /\ "not_found" \in Outcomes
      BY DEF Outcomes
    <3> QED BY <1>2, <2>1, <3>1, RespondType DEF DispatchLoad
  <2> QED BY <1>2, <2>3, <2>4, <2>5 DEF DispatchLoad
<1>3. CASE DispatchCancel
  <2>1. Head(queue) \in Frame /\ Tail(queue) \in Seq(Frame)
    BY <1>3, HeadTail DEF DispatchCancel, Dispatches
  <2>2. RouterTypes'
    BY <1>3, <2>1 DEF DispatchCancel
  <2>3. TableTypes'
    <3>1. CASE sessions[Head(queue).sid] = NoToken
      BY <1>3, <3>1 DEF DispatchCancel, NoToken
    <3>2. CASE sessions[Head(queue).sid] # NoToken
      <4>1. Head(queue).sid \in Sid
        BY <1>3, <2>1, FrameFields DEF DispatchCancel, Dispatches, SessionKinds
      <4>2. tripped' \in SUBSET Nat
        <5>1. sessions[Head(queue).sid] \in Nat
          BY <4>1
        <5>2. tripped' = tripped \cup {sessions[Head(queue).sid]}
          BY <1>3, <3>2 DEF DispatchCancel
        <5> QED BY <5>1, <5>2
      <4> QED BY <1>3, <3>2, <4>1, <4>2, ArmType DEF DispatchCancel
    <3> QED BY <3>1, <3>2
  <2>4. RpcTypes'
    BY <1>3 DEF DispatchCancel
  <2> QED BY <1>3, <2>2, <2>3, <2>4 DEF DispatchCancel
<1>4. CASE DispatchBadCancel
  BY <1>4 DEF DispatchBadCancel, Dispatches
<1>5. CASE RejectPrompt
  <2>1. Head(queue) \in Frame /\ Tail(queue) \in Seq(Frame)
    BY <1>5, HeadTail DEF RejectPrompt, Dispatches
  <2>2. Head(queue).at \in Nat
    BY <2>1, FrameFields
  <2>3. RouterTypes'
    BY <1>5, <2>1 DEF RejectPrompt
  <2>4. OutputTypes'
    <3>1. "error" \in Outcomes /\ "unknown_session" \in Outcomes
      BY DEF Outcomes
    <3> QED BY <1>5, <2>1, <3>1, RespondType DEF RejectPrompt, Dispatches
  <2> QED BY <1>5, <2>3, <2>4 DEF RejectPrompt
<1>6. CASE StartTurn
  <2>1. Head(queue) \in Frame /\ Tail(queue) \in Seq(Frame)
    BY <1>6, HeadTail DEF StartTurn, Dispatches
  <2>2. Head(queue).at \in Nat /\ Head(queue).sid \in Sid
    BY <1>6, <2>1, FrameFields DEF StartTurn, Dispatches, SessionKinds
  <2>3. RouterTypes'
    BY <1>6, <2>1 DEF StartTurn
  <2>4. DrainTypes'
    BY <1>6, AcpServerAssumption DEF StartTurn
  <2>5. TurnTypes'
    BY <1>6, <2>2 DEF StartTurn, TurnPcs
  <2> QED BY <1>6, <2>3, <2>4, <2>5 DEF StartTurn
<1>7. CASE Shutdown
  BY <1>7 DEF Shutdown
<1>8. CASE DispatchConfig \/ DispatchControl \/ DispatchWarmup
  <2>1. Head(queue) \in Frame /\ Tail(queue) \in Seq(Frame)
    BY <1>8, HeadTail DEF DispatchConfig, DispatchControl, DispatchWarmup, Dispatches
  <2>2. RouterTypes'
    BY <1>8, <2>1 DEF DispatchConfig, DispatchControl, DispatchWarmup
  <2>3. TableTypes'
    <3>1. CASE DispatchConfig
      <4>1. Head(queue).sid \in Sid
        BY <2>1, <3>1, FrameFields DEF DispatchConfig, Dispatches, SessionKinds
      <4>2. disk' \in SUBSET Sid
        BY <3>1, <4>1 DEF DispatchConfig
      <4> QED BY <3>1, <4>2 DEF DispatchConfig
    <3>2. CASE DispatchControl \/ DispatchWarmup
      BY <3>2 DEF DispatchControl, DispatchWarmup
    <3> QED BY <1>8, <3>1, <3>2
  <2>4. OutputTypes'
    <3>1. "done" \in Outcomes /\ "error" \in Outcomes
      BY DEF Outcomes
    <3> QED BY <1>8, <2>1, <3>1, RespondType
            DEF DispatchConfig, DispatchControl, DispatchWarmup
  <2> QED BY <1>8, <2>2, <2>3, <2>4 DEF DispatchConfig, DispatchControl, DispatchWarmup
<1> QED BY <1>1, <1>2, <1>3, <1>4, <1>5, <1>6, <1>7, <1>8 DEF Dispatcher, AtOnce

\* The steps of the turn keep the types.
LEMMA TurnType == TypeOK /\ Turn => TypeOK'
<1> SUFFICES ASSUME TypeOK, Turn PROVE TypeOK'
  OBVIOUS
<1> USE DEF TypeOK, HostTypes, RouterTypes, TableTypes, RpcTypes, DrainTypes,
            TurnTypes, OutputTypes, hostVars, routerVars, tableVars, rpcVars,
            drainVars, turnVars
<1>1. CASE EmitUpdate
  <2>1. [kind |-> "update", rpc |-> 0, turn |-> cur.at] \in OutFrame
    BY <1>1 DEF EmitUpdate, OutFrame
  <2>2. DrainTypes'
    BY <1>1, <2>1, AcpServerAssumption DEF EmitUpdate
  <2> QED BY <1>1, <2>2 DEF EmitUpdate
<1>2. CASE BackendAnswers
  BY <1>2 DEF BackendAnswers, InTurn, Goto, BridgeReturns, Unregister, TurnPcs, Outcomes
<1>3. CASE BackendFails
  BY <1>3 DEF BackendFails, InTurn, Goto, BridgeReturns, Unregister, TurnPcs, Outcomes
<1>4. CASE StreamCancelled
  BY <1>4 DEF StreamCancelled, InTurn, Goto, BridgeReturns, Unregister, TurnPcs, Outcomes
<1>5. CASE StreamEnds
  BY <1>5 DEF StreamEnds, InTurn, Goto, BridgeReturns, Unregister, TurnPcs, Outcomes
<1>6. CASE RegisterRpc
  BY <1>6 DEF RegisterRpc, InTurn, Goto, BridgeReturns, Unregister, TurnPcs, Outcomes
<1>7. CASE EnqueueRpc
  <2>1. [kind |-> "mcp", rpc |-> rpc, turn |-> cur.at] \in OutFrame
    BY <1>7 DEF EnqueueRpc, InTurn, OutFrame
  <2>2. DrainTypes'
    BY <1>7, <2>1, AcpServerAssumption DEF EnqueueRpc
  <2> QED BY <1>7, <2>2 DEF EnqueueRpc, InTurn, Goto, TurnPcs
<1>8. CASE EnqueueFails
  BY <1>8 DEF EnqueueFails, InTurn, Goto, BridgeReturns, Unregister, TurnPcs, Outcomes
<1>9. CASE AwaitCancelled
  BY <1>9 DEF AwaitCancelled, InTurn, Goto, BridgeReturns, Unregister, TurnPcs, Outcomes
<1>10. CASE AwaitReply
  BY <1>10 DEF AwaitReply, InTurn, Goto, BridgeReturns, Unregister, TurnPcs, Outcomes
<1>11. CASE AwaitTimeout
  BY <1>11 DEF AwaitTimeout, InTurn, Goto, BridgeReturns, Unregister, TurnPcs, Outcomes
<1>12. CASE Abort
  BY <1>12 DEF Abort, InTurn, Goto, BridgeReturns, Unregister, TurnPcs, Outcomes
<1>13. CASE Expire
  BY <1>13 DEF Expire, InTurn, Goto, BridgeReturns, Unregister, TurnPcs, Outcomes
<1>14. CASE LeaveTools
  BY <1>14 DEF LeaveTools, InTurn, Goto, BridgeReturns, Unregister, TurnPcs, Outcomes
<1>15. CASE FinishTurn
  <2>1. cur.at \in Nat /\ outcome \in Outcomes /\ "error" \in Outcomes /\ "end" \in Outcomes
    BY <1>15 DEF FinishTurn, InTurn, Outcomes
  <2>2. PICK what \in Outcomes :
          responses' = Append(responses, [at |-> cur.at, outcome |-> what])
    BY <1>15, <2>1 DEF FinishTurn
  <2>3. [at |-> cur.at, outcome |-> what] \in [at : Nat, outcome : Outcomes]
    BY <2>1
  <2>4. OutputTypes'
    BY <1>15, <2>2, <2>3 DEF FinishTurn
  <2>5. TurnTypes'
    BY <1>15, <2>1 DEF FinishTurn
  <2> QED BY <1>15, <2>4, <2>5 DEF FinishTurn
<1> QED BY <1>1, <1>2, <1>3, <1>4, <1>5, <1>6, <1>7, <1>8, <1>9, <1>10, <1>11, <1>12, <1>13, <1>14, <1>15 DEF Turn

\* The steps of the drainer keep the types.
LEMMA DrainerType == TypeOK /\ Drainer => TypeOK'
<1> SUFFICES ASSUME TypeOK, Drainer PROVE TypeOK'
  OBVIOUS
<1> USE DEF TypeOK, HostTypes, RouterTypes, TableTypes, RpcTypes, DrainTypes,
            TurnTypes, OutputTypes, hostVars, routerVars, tableVars, rpcVars,
            drainVars, turnVars
<1>1. CASE DrainerReceives
  <2>1. Head(chan) \in OutFrame /\ Tail(chan) \in Seq(OutFrame)
        /\ Len(Tail(chan)) <= ChanCap
    BY <1>1, HeadTail, AcpServerAssumption DEF DrainerReceives
  <2> QED BY <1>1, <2>1 DEF DrainerReceives
<1>2. CASE DrainerWrites
  BY <1>2 DEF DrainerWrites, Draining, OutFrame, NoFrame
<1>3. CASE DrainerPanics
  <2>1. DrainTypes'
    BY <1>3, AcpServerAssumption DEF DrainerPanics
  <2> QED BY <1>3, <2>1 DEF DrainerPanics
<1> QED BY <1>1, <1>2, <1>3 DEF Drainer

\* Every step keeps the types.
LEMMA TypeStep == TypeOK /\ [Next]_vars => TypeOK'
<1> SUFFICES ASSUME TypeOK, [Next]_vars PROVE TypeOK'
  OBVIOUS
<1>1. CASE Next
  BY <1>1, HostType, RouterType, DispatcherType, TurnType, DrainerType DEF Next
<1>2. CASE UNCHANGED vars
  BY <1>2 DEF TypeOK, HostTypes, RouterTypes, TableTypes, RpcTypes, DrainTypes,
     TurnTypes, OutputTypes, vars, hostVars, routerVars, tableVars, rpcVars,
     drainVars, turnVars
<1> QED BY <1>1, <1>2

\* Every variable keeps its type; the drainer channel keeps its capacity and a
\* turn runs exactly while the dispatcher is busy.
THEOREM TypeCorrect == Spec => []TypeOK
<1> QED BY InitType, TypeStep, PTL DEF Spec

-----------------------------------------------------------------------------
(* The inductive invariant.  TypeOK and four parts:                        *)
(*   WaiterInv  one registered request at most, gone once it is answered;  *)
(*   OrderInv   a request moves inbox -> queue -> turn -> responses without *)
(*              being overtaken;                                           *)
(*   TokenInv   a tripped token still in use has its cancel in the queue;  *)
(*   DrainInv   the drainer only holds frames of the running turn.         *)

WaiterInv ==
  /\ NoStrayWaiter
  /\ reply # "none" => pendingRequests = {}
  /\ pc \in Waiting => rpc # 0

Ordered(q) == \A i, j \in 1..Len(q) : i < j => q[i].at < q[j].at
Before(n, q) == \A i \in 1..Len(q) : n < q[i].at

OrderInv ==
  /\ Ordered(inbox) /\ Ordered(queue) /\ Ordered(responses)
  /\ \A i \in 1..Len(inbox) : inbox[i].at <= sent
  /\ \A i \in 1..Len(queue) : queue[i].at <= sent /\ Before(queue[i].at, inbox)
  /\ \A i \in 1..Len(responses) :
       /\ responses[i].at <= sent
       /\ Before(responses[i].at, inbox) /\ Before(responses[i].at, queue)
       /\ ~Idle => responses[i].at < cur.at
  /\ ~Idle => cur.at <= sent /\ Before(cur.at, inbox) /\ Before(cur.at, queue)

CancelQueued(s) ==
  \E i \in 1..Len(queue) : queue[i].kind = "cancel" /\ queue[i].sid = s

TokenInv ==
  /\ TokensCoherent
  /\ \A s \in Sid : sessions[s] < nextToken
  /\ \A t \in tripped \cup held : t < nextToken
  /\ held # {} => inbox # <<>> /\ Head(inbox).kind = "cancel"
  /\ \A t \in held : \A s \in Sid :
       sessions[s] = t /\ t # NoToken => s = Head(inbox).sid
  /\ \A s \in Sid :
       sessions[s] # NoToken /\ sessions[s] \in tripped => CancelQueued(s)
  /\ \A i \in 1..Len(queue) :
       queue[i].kind = "cancel" => queue[i].at <= lastCancel[queue[i].sid]
  /\ ~Idle => cur.tok # NoToken /\ sessions[cur.sid] = cur.tok

RequestUnderWay ==
  pc = "await" /\ drainer = "up" =>
    \/ rpc \in written \/ writing.rpc = rpc
    \/ \E i \in 1..Len(chan) : chan[i].rpc = rpc

DrainInv ==
  /\ \A i \in 1..Len(chan) :
       chan[i].turn = cur.at /\ (chan[i].kind = "update" => chan[i].rpc = 0)
  /\ writing # NoFrame =>
       writing.turn = cur.at /\ (writing.kind = "update" => writing.rpc = 0)
  /\ Idle \/ drainer = "dead" => chan = <<>> /\ writing = NoFrame
  /\ RequestUnderWay

IInv == TypeOK /\ WaiterInv /\ OrderInv /\ TokenInv /\ DrainInv

-----------------------------------------------------------------------------
(* WaiterInv.                                                              *)

\* Every step keeps the waiters matched with the calls.
LEMMA WaiterStep == TypeOK /\ WaiterInv /\ [Next]_vars => WaiterInv'
<1> SUFFICES ASSUME TypeOK, WaiterInv, [Next]_vars PROVE WaiterInv'
  OBVIOUS
<1> USE DEF WaiterInv, NoStrayWaiter, Waiting
<1>1. CASE UNCHANGED <<rpcVars, turnVars>>
  BY <1>1 DEF rpcVars, turnVars
<1>2. CASE RouteReply
  <2>1. UNCHANGED <<rpc, turnVars>>
    BY <1>2 DEF RouteReply
  <2>2. pendingRequests' \subseteq pendingRequests
    BY <1>2 DEF RouteReply
  <2>3. reply' = reply \/ (reply' = "value" /\ pendingRequests' = {})
    <3>1. ASSUME Head(inbox).rpc = rpc PROVE pendingRequests' = {}
      <4>1. \A p \in pendingRequests : p.id = rpc
        OBVIOUS
      <4>2. pendingRequests' =
              pendingRequests \ {p \in pendingRequests : p.id = Head(inbox).rpc}
        BY <1>2 DEF RouteReply
      <4>3. \A p : p \notin pendingRequests'
        BY <3>1, <4>1, <4>2
      <4> QED BY <4>3
    <3>2. reply' = reply \/ (reply' = "value" /\ Head(inbox).rpc = rpc)
      BY <1>2 DEF RouteReply
    <3> QED BY <3>1, <3>2
  <2> QED BY <2>1, <2>2, <2>3 DEF turnVars
<1>3. CASE DispatchCancel
  <2>1. pendingRequests = {}
    BY <1>3 DEF DispatchCancel, Dispatches
  <2>2. UNCHANGED <<pendingRequests, reply>>
    BY <1>3, <2>1 DEF DispatchCancel
  <2> QED BY <1>3, <2>2, <1>1 DEF DispatchCancel, rpcVars
<1>4. CASE StartTurn
  BY <1>4 DEF StartTurn, Dispatches, rpcVars
<1>5. CASE BackendAnswers \/ BackendFails \/ StreamCancelled \/ StreamEnds
  BY <1>5 DEF BackendAnswers, BackendFails, StreamCancelled, StreamEnds, InTurn,
     Goto, BridgeReturns, rpcVars, turnVars
<1>6. CASE RegisterRpc
  BY <1>6 DEF RegisterRpc, InTurn, Goto, TypeOK, RpcTypes
<1>7. CASE EnqueueRpc \/ AwaitCancelled \/ AwaitTimeout
  BY <1>7 DEF EnqueueRpc, AwaitCancelled, AwaitTimeout, InTurn, Goto, rpcVars
<1>8. CASE EnqueueFails \/ Abort \/ Expire
  <2>1. pendingRequests' = {} /\ UNCHANGED <<rpc, reply>>
    BY <1>8 DEF EnqueueFails, Abort, Expire, Unregister
  <2>2. pc' \notin Waiting
    BY <1>8 DEF EnqueueFails, Abort, Expire, Goto, BridgeReturns
  <2> QED BY <2>1, <2>2
<1>9. CASE AwaitReply
  BY <1>9 DEF AwaitReply, InTurn, Goto, rpcVars
<1>10. CASE LeaveTools \/ FinishTurn
  BY <1>10 DEF LeaveTools, FinishTurn, InTurn, BridgeReturns, rpcVars
<1>11. CASE Next /\ ~UNCHANGED <<rpcVars, turnVars>>
  <2>1. ~Host
    BY <1>11 DEF Host, HostRequests, HostReplies, HostCloses, HostSends,
       HostWrites
  <2>2. Router => RouteReply
    BY <1>11 DEF Router, RouteRequest, RouteCancelLookup, RouteCancelForward,
       RouteEof
  <2>3. Dispatcher => DispatchCancel \/ StartTurn
    BY <1>11 DEF Dispatcher, AtOnce, DispatchNew, DispatchLoad, DispatchConfig,
       DispatchControl, DispatchWarmup, DispatchBadCancel, RejectPrompt, Shutdown
  <2>4. ~EmitUpdate /\ ~Drainer
    BY <1>11 DEF EmitUpdate, Drainer, DrainerReceives, DrainerWrites,
       DrainerPanics
  <2> QED
    BY <1>11, <2>1, <2>2, <2>3, <2>4, <1>2, <1>3, <1>4, <1>5, <1>6, <1>7,
       <1>8, <1>9, <1>10 DEF Next, Turn
<1> QED BY <1>1, <1>11 DEF vars

-----------------------------------------------------------------------------
(* OrderInv.  Each lemma is one way a step can move a request.             *)

\* A step that leaves requests, answers and queues alone keeps the order.
LEMMA OrderKept ==
  ASSUME OrderInv, UNCHANGED <<inbox, sent, queue, responses, cur>>,
         Idle' <=> Idle
  PROVE  OrderInv'
BY DEF OrderInv, Ordered, Before

\* A frame written by the host, the latest of all, keeps the order.
LEMMA OrderWritten ==
  ASSUME TypeOK, OrderInv, NEW f \in Frame, f.at = sent + 1, HostWrites(f)
  PROVE  OrderInv'
<1>1. /\ inbox' = Append(inbox, f) /\ sent' = sent + 1
      /\ UNCHANGED <<queue, responses, cur, pc>>
  BY DEF HostWrites, turnVars
<1>2. /\ inbox \in Seq(Frame) /\ sent \in Nat /\ queue \in Seq(Frame)
      /\ responses \in Seq([at : Nat, outcome : Outcomes])
  BY DEF TypeOK, HostTypes, RouterTypes, OutputTypes
<1>3. \A i \in 1..Len(inbox) : inbox[i].at \in Nat
  BY <1>2, FrameFields
<1>4. \A i \in 1..Len(queue) : queue[i].at \in Nat
  BY <1>2, FrameFields
<1>5. \A i \in 1..Len(responses) : responses[i].at \in Nat
  <2>1. \A i \in 1..Len(responses) :
          responses[i] \in [at : Nat, outcome : Outcomes]
    BY <1>2, Element
  <2> QED BY <2>1
<1>6. ~Idle => cur.at \in Nat
  BY DEF TypeOK, TurnTypes, Idle
<1>7. /\ Len(inbox') = Len(inbox) + 1 /\ Len(inbox) \in Nat
      /\ \A i \in 1..Len(inbox) : inbox'[i] = inbox[i]
      /\ inbox'[Len(inbox) + 1] = f
      /\ \A i \in 1..Len(inbox') : i \in 1..Len(inbox) \/ i = Len(inbox) + 1
  BY <1>1, <1>2, Appended
<1>8. \A i \in 1..Len(inbox') :
        /\ inbox'[i].at <= sent'
        /\ \/ i \in 1..Len(inbox) /\ inbox'[i] = inbox[i]
           \/ i = Len(inbox) + 1 /\ inbox'[i].at = sent + 1
  <2> SUFFICES ASSUME NEW i \in 1..Len(inbox')
               PROVE  /\ inbox'[i].at <= sent'
                      /\ \/ i \in 1..Len(inbox) /\ inbox'[i] = inbox[i]
                         \/ i = Len(inbox) + 1 /\ inbox'[i].at = sent + 1
    OBVIOUS
  <2>1. CASE i \in 1..Len(inbox)
    <3>1. inbox[i].at <= sent
      BY <2>1 DEF OrderInv
    <3> QED BY <2>1, <3>1, <1>1, <1>2, <1>3, <1>7
  <2>2. CASE i = Len(inbox) + 1
    BY <2>2, <1>1, <1>2, <1>7
  <2> QED BY <2>1, <2>2, <1>7
<1>9. Ordered(inbox)'
  <2> SUFFICES ASSUME NEW i \in 1..Len(inbox'), NEW j \in 1..Len(inbox'), i < j
               PROVE  inbox'[i].at < inbox'[j].at
    BY DEF Ordered
  <2>1. i \in 1..Len(inbox) /\ inbox'[i] = inbox[i]
    BY <1>7, <1>8
  <2>2. CASE j \in 1..Len(inbox)
    BY <2>1, <2>2, <1>7 DEF OrderInv, Ordered
  <2>3. CASE j = Len(inbox) + 1
    <3>1. inbox[i].at <= sent /\ inbox[i].at \in Nat
      BY <2>1, <1>3 DEF OrderInv
    <3> QED BY <2>1, <2>3, <3>1, <1>2, <1>7
  <2> QED BY <2>2, <2>3, <1>7
<1>10. \A n \in Nat : n <= sent /\ Before(n, inbox) => Before(n, inbox')
  BY <1>2, <1>3, <1>8 DEF Before
<1>11. \A n \in Nat : n <= sent => n <= sent'
  BY <1>1, <1>2
<1> QED
  BY <1>1, <1>4, <1>5, <1>6, <1>8, <1>9, <1>10, <1>11 DEF OrderInv, Idle

\* What the queue is when its head is taken: still in order, all of it later.
LEMMA OrderQueueLess ==
  ASSUME TypeOK, OrderInv, queue # <<>>, queue' = Tail(queue)
  PROVE  /\ Ordered(queue)' /\ Before(Head(queue).at, queue')
         /\ \A n : Before(n, queue) => Before(n, queue')
         /\ \A i \in 1..Len(queue') : queue'[i] = queue[i + 1]
         /\ Len(queue') + 1 = Len(queue) /\ Len(queue') \in Nat
         /\ Head(queue) = queue[1]
<1>1. queue \in Seq(Frame)
  BY DEF TypeOK, RouterTypes
<1>2. /\ \A i \in 1..Len(queue') : queue'[i] = queue[i + 1]
      /\ Len(queue') + 1 = Len(queue) /\ Len(queue') \in Nat
      /\ Head(queue) = queue[1]
  BY <1>1
<1> QED BY <1>2 DEF OrderInv, Ordered, Before

\* What stdin is when its head is taken: still in order, all of it later.
LEMMA OrderInboxLess ==
  ASSUME TypeOK, OrderInv, inbox # <<>>, inbox' = Tail(inbox)
  PROVE  /\ Ordered(inbox)' /\ Before(Head(inbox).at, inbox')
         /\ \A n : Before(n, inbox) => Before(n, inbox')
         /\ \A i \in 1..Len(inbox') : inbox'[i] = inbox[i + 1]
         /\ Len(inbox') + 1 = Len(inbox) /\ Len(inbox') \in Nat
         /\ Head(inbox) = inbox[1]
<1>1. inbox \in Seq(Frame)
  BY DEF TypeOK, HostTypes
<1>2. /\ \A i \in 1..Len(inbox') : inbox'[i] = inbox[i + 1]
      /\ Len(inbox') + 1 = Len(inbox) /\ Len(inbox') \in Nat
      /\ Head(inbox) = inbox[1]
  BY <1>1
<1> QED BY <1>2 DEF OrderInv, Ordered, Before

\* A frame that is thrown away keeps the order.
LEMMA OrderDiscarded ==
  ASSUME TypeOK, OrderInv, inbox # <<>>, inbox' = Tail(inbox),
         UNCHANGED <<sent, queue, responses, cur, pc>>
  PROVE  OrderInv'
<1>1. \A i \in 1..Len(inbox') : inbox'[i].at <= sent
  <2> SUFFICES ASSUME NEW i \in 1..Len(inbox') PROVE inbox'[i].at <= sent
    OBVIOUS
  <2>1. i + 1 \in 1..Len(inbox) /\ inbox'[i] = inbox[i + 1]
    BY OrderInboxLess
  <2> QED BY <2>1 DEF OrderInv
<1> QED BY <1>1, OrderInboxLess DEF OrderInv, Idle

\* Routing a request to the dispatcher keeps the order.
LEMMA OrderRouted ==
  ASSUME TypeOK, OrderInv, inbox # <<>>, inbox' = Tail(inbox),
         queue' = Append(queue, Head(inbox)),
         UNCHANGED <<sent, responses, cur, pc>>
  PROVE  OrderInv'
<1> DEFINE h == Head(inbox)
<1>1. \A i \in 1..Len(inbox') : inbox'[i].at <= sent
  <2> SUFFICES ASSUME NEW i \in 1..Len(inbox') PROVE inbox'[i].at <= sent
    OBVIOUS
  <2>1. i + 1 \in 1..Len(inbox) /\ inbox'[i] = inbox[i + 1]
    BY OrderInboxLess
  <2> QED BY <2>1 DEF OrderInv
<1>2. h = inbox[1] /\ 1 \in 1..Len(inbox)
  BY OrderInboxLess
<1>3. \A n : Before(n, inbox) => n < h.at
  BY <1>2 DEF Before
<1>4. h.at <= sent
  BY <1>2 DEF OrderInv
<1>5. queue \in Seq(Frame)
  BY DEF TypeOK, RouterTypes
<1>6. /\ Len(queue) \in Nat /\ Len(queue') = Len(queue) + 1
      /\ \A i \in 1..Len(queue) : queue'[i] = queue[i]
      /\ queue'[Len(queue) + 1] = h
      /\ \A i \in 1..Len(queue') : i \in 1..Len(queue) \/ i = Len(queue) + 1
  BY <1>5, Appended
<1>7. \A i \in 1..Len(queue) : queue[i].at < h.at
  BY <1>3 DEF OrderInv
<1>8. Ordered(queue)'
  <2> SUFFICES ASSUME NEW i \in 1..Len(queue'), NEW j \in 1..Len(queue'), i < j
               PROVE  queue'[i].at < queue'[j].at
    BY DEF Ordered
  <2>1. i \in 1..Len(queue)
    BY <1>6
  <2>2. CASE j \in 1..Len(queue)
    BY <2>1, <2>2, <1>6 DEF OrderInv, Ordered
  <2>3. CASE j = Len(queue) + 1
    BY <2>1, <2>3, <1>6, <1>7
  <2> QED BY <2>2, <2>3, <1>6
<1>9. \A i \in 1..Len(queue') :
         queue'[i].at <= sent /\ Before(queue'[i].at, inbox')
  <2> SUFFICES ASSUME NEW i \in 1..Len(queue')
               PROVE  queue'[i].at <= sent /\ Before(queue'[i].at, inbox')
    OBVIOUS
  <2>1. CASE i \in 1..Len(queue)
    BY <2>1, <1>6, OrderInboxLess DEF OrderInv
  <2>2. CASE i = Len(queue) + 1
    BY <2>2, <1>4, <1>6, OrderInboxLess
  <2> QED BY <2>1, <2>2, <1>6
<1>10. \A n : Before(n, queue) /\ Before(n, inbox)
                => Before(n, queue') /\ Before(n, inbox')
  <2> SUFFICES ASSUME NEW n, Before(n, queue), Before(n, inbox)
               PROVE  Before(n, queue') /\ Before(n, inbox')
    OBVIOUS
  <2>1. Before(n, queue')
    BY <1>3, <1>6 DEF Before
  <2> QED BY <2>1, OrderInboxLess
<1> HIDE DEF h
<1> QED BY <1>1, <1>8, <1>9, <1>10, OrderInboxLess DEF OrderInv, Idle

\* An answer later than all before it keeps the answers in order.
LEMMA OrderAnswered ==
  ASSUME TypeOK, OrderInv, NEW r \in [at : Nat, outcome : Outcomes],
         responses' = Append(responses, r),
         r.at <= sent, Before(r.at, inbox), Before(r.at, queue'),
         \A i \in 1..Len(responses) : responses[i].at < r.at
  PROVE  /\ Ordered(responses)'
         /\ \A i \in 1..Len(responses') :
              (i \in 1..Len(responses) /\ responses'[i] = responses[i])
                \/ responses'[i] = r
<1>1. responses \in Seq([at : Nat, outcome : Outcomes])
  BY DEF TypeOK, OutputTypes
<1>2. /\ Len(responses) \in Nat /\ Len(responses') = Len(responses) + 1
      /\ \A i \in 1..Len(responses) : responses'[i] = responses[i]
      /\ responses'[Len(responses) + 1] = r
      /\ \A i \in 1..Len(responses') :
           i \in 1..Len(responses) \/ i = Len(responses) + 1
  BY <1>1, Appended
<1>3. Ordered(responses)'
  <2> SUFFICES ASSUME NEW i \in 1..Len(responses'),
                      NEW j \in 1..Len(responses'), i < j
               PROVE  responses'[i].at < responses'[j].at
    BY DEF Ordered
  <2>1. i \in 1..Len(responses)
    BY <1>2
  <2>2. CASE j \in 1..Len(responses)
    BY <2>1, <2>2, <1>2 DEF OrderInv, Ordered
  <2>3. CASE j = Len(responses) + 1
    BY <2>1, <2>3, <1>2
  <2> QED BY <2>2, <2>3, <1>2
<1> QED BY <1>2, <1>3

\* The head of the queue is given to the dispatcher.
LEMMA OrderTaken ==
  ASSUME TypeOK, OrderInv, queue # <<>>, queue' = Tail(queue)
  PROVE  /\ Ordered(queue)' /\ Before(Head(queue).at, queue')
         /\ Before(Head(queue).at, inbox) /\ Head(queue).at <= sent
         /\ \A i \in 1..Len(responses) : responses[i].at < Head(queue).at
         /\ \A i \in 1..Len(responses) : Before(responses[i].at, queue')
         /\ \A i \in 1..Len(queue') :
              queue'[i].at <= sent /\ Before(queue'[i].at, inbox)
<1>1. Head(queue) = queue[1] /\ 1 \in 1..Len(queue)
  BY OrderQueueLess
<1>2. Before(Head(queue).at, inbox) /\ Head(queue).at <= sent
  BY <1>1 DEF OrderInv
<1>3. \A i \in 1..Len(responses) :
        responses[i].at < Head(queue).at /\ Before(responses[i].at, queue')
  BY <1>1, OrderQueueLess DEF OrderInv, Before
<1>4. \A i \in 1..Len(queue') :
        queue'[i].at <= sent /\ Before(queue'[i].at, inbox)
  <2> SUFFICES ASSUME NEW i \in 1..Len(queue')
               PROVE  queue'[i].at <= sent /\ Before(queue'[i].at, inbox)
    OBVIOUS
  <2>1. i + 1 \in 1..Len(queue) /\ queue'[i] = queue[i + 1]
    BY OrderQueueLess
  <2> QED BY <2>1 DEF OrderInv
<1> QED BY <1>2, <1>3, <1>4, OrderQueueLess

\* A frame the dispatcher handles without a turn keeps the order.
LEMMA OrderDispatched ==
  ASSUME TypeOK, OrderInv, Idle, queue # <<>>, queue' = Tail(queue),
         UNCHANGED <<inbox, sent, pc, cur>>,
         \/ responses' = responses
         \/ \E what \in Outcomes : Respond(Head(queue), what)
  PROVE  OrderInv'
<1>1. Idle'
  BY DEF Idle
<1>2. CASE responses' = responses
  BY <1>1, <1>2, OrderTaken DEF OrderInv
<1>3. ASSUME NEW what \in Outcomes, Respond(Head(queue), what)
      PROVE  OrderInv'
  <2> DEFINE r == [at |-> Head(queue).at, outcome |-> what]
  <2>1. Head(queue).at \in Nat
    BY FrameFields, HeadTail DEF TypeOK, RouterTypes
  <2>2. r \in [at : Nat, outcome : Outcomes] /\ r.at = Head(queue).at
    BY <2>1
  <2>3. responses' = Append(responses, r)
    BY <1>3 DEF Respond
  <2> HIDE DEF r
  <2>4. /\ Ordered(responses)'
        /\ \A i \in 1..Len(responses') :
             (i \in 1..Len(responses) /\ responses'[i] = responses[i])
               \/ responses'[i] = r
    BY <2>2, <2>3, OrderTaken, OrderAnswered
  <2>5. \A i \in 1..Len(responses') :
          /\ responses'[i].at <= sent
          /\ Before(responses'[i].at, inbox) /\ Before(responses'[i].at, queue')
    BY <2>2, <2>4, OrderTaken DEF OrderInv
  <2> QED BY <1>1, <2>4, <2>5, OrderTaken DEF OrderInv
<1> QED BY <1>2, <1>3

\* Starting a turn keeps the order.
LEMMA OrderStarted ==
  ASSUME TypeOK, OrderInv, Idle, ~Idle', queue # <<>>, queue' = Tail(queue),
         UNCHANGED <<inbox, sent, responses>>, cur'.at = Head(queue).at
  PROVE  OrderInv'
BY OrderTaken DEF OrderInv

\* Ending a turn with its answer keeps the order.
LEMMA OrderFinished ==
  ASSUME TypeOK, OrderInv, ~Idle, Idle',
         NEW what \in Outcomes,
         responses' = Append(responses, [at |-> cur.at, outcome |-> what]),
         UNCHANGED <<inbox, sent, queue>>
  PROVE  OrderInv'
<1> DEFINE r == [at |-> cur.at, outcome |-> what]
<1>1. r \in [at : Nat, outcome : Outcomes] /\ r.at = cur.at
  BY DEF TypeOK, TurnTypes, Idle
<1>2. responses' = Append(responses, r)
  OBVIOUS
<1> HIDE DEF r
<1>3. /\ r.at <= sent /\ Before(r.at, inbox) /\ Before(r.at, queue)
      /\ \A i \in 1..Len(responses) : responses[i].at < r.at
  BY <1>1 DEF OrderInv
<1>4. /\ Ordered(responses)'
      /\ \A i \in 1..Len(responses') :
           (i \in 1..Len(responses) /\ responses'[i] = responses[i])
             \/ responses'[i] = r
  BY <1>1, <1>2, <1>3, OrderAnswered
<1>5. \A i \in 1..Len(responses') :
        /\ responses'[i].at <= sent
        /\ Before(responses'[i].at, inbox) /\ Before(responses'[i].at, queue)
  BY <1>3, <1>4 DEF OrderInv
<1> QED BY <1>4, <1>5 DEF OrderInv

\* Every step keeps the order of requests and answers.
LEMMA OrderStep == TypeOK /\ OrderInv /\ [Next]_vars => OrderInv'
<1> SUFFICES ASSUME TypeOK, OrderInv, [Next]_vars PROVE OrderInv'
  OBVIOUS
<1>1. CASE Host
  <2>1. CASE HostCloses
    BY <2>1, OrderKept DEF HostCloses, Idle, turnVars
  <2> QED BY <1>1, <2>1, HostStep, OrderWritten
<1>2. CASE Router
  <2>1. CASE RouteReply
    BY <2>1, OrderDiscarded DEF RouteReply, RouterTakes, turnVars
  <2>2. CASE RouteRequest \/ RouteCancelForward
    BY <2>2, OrderRouted DEF RouteRequest, RouteCancelForward, RouterTakes,
       turnVars
  <2>3. CASE RouteCancelLookup \/ RouteEof
    BY <2>3, OrderKept DEF RouteCancelLookup, RouteEof, hostVars, turnVars, Idle
  <2> QED BY <1>2, <2>1, <2>2, <2>3 DEF Router
<1>3. CASE Dispatcher
  <2>1. CASE DispatchNew \/ DispatchLoad \/ DispatchConfig \/ DispatchControl
             \/ DispatchWarmup \/ RejectPrompt
    <3>1. /\ Idle /\ queue # <<>> /\ queue' = Tail(queue)
          /\ UNCHANGED <<inbox, sent, pc, cur>>
      BY <2>1 DEF DispatchNew, DispatchLoad, DispatchConfig, DispatchControl,
         DispatchWarmup, RejectPrompt, Dispatches, Idle, hostVars, turnVars
    <3>2. \E what \in Outcomes : Respond(Head(queue), what)
      BY <2>1 DEF DispatchNew, DispatchLoad, DispatchConfig, DispatchControl,
         DispatchWarmup, RejectPrompt, Outcomes
    <3> QED BY <3>1, <3>2, OrderDispatched
  <2>2. CASE DispatchCancel \/ DispatchBadCancel
    BY <2>2, OrderDispatched DEF DispatchCancel, DispatchBadCancel, Dispatches,
       Idle, hostVars, turnVars
  <2>3. CASE StartTurn
    BY <2>3, OrderStarted DEF StartTurn, Dispatches, Idle, hostVars
  <2>4. CASE Shutdown
    BY <2>4, OrderKept DEF Shutdown, Idle, hostVars, turnVars
  <2> QED BY <1>3, <2>1, <2>2, <2>3, <2>4 DEF Dispatcher, AtOnce
<1>4. CASE FinishTurn
  <2>1. PICK what \in Outcomes :
          responses' = Append(responses, [at |-> cur.at, outcome |-> what])
    BY <1>4 DEF FinishTurn, Outcomes, TypeOK, TurnTypes
  <2> QED BY <1>4, <2>1, OrderFinished DEF FinishTurn, InTurn, Idle, hostVars
<1>5. CASE (Turn /\ ~FinishTurn) \/ Drainer
  <2>1. UNCHANGED <<inbox, sent, queue, responses, cur>>
    BY <1>5 DEF Turn, EmitUpdate, BackendAnswers, BackendFails,
       StreamCancelled, StreamEnds, RegisterRpc, EnqueueRpc, EnqueueFails,
       AwaitCancelled, AwaitReply, AwaitTimeout, Abort, Expire, LeaveTools,
       BridgeReturns, Goto, Drainer, DrainerReceives, DrainerWrites,
       DrainerPanics, hostVars, turnVars
  <2>2. Idle' <=> Idle
    BY <1>5 DEF Turn, EmitUpdate, BackendAnswers, BackendFails,
       StreamCancelled, StreamEnds, RegisterRpc, EnqueueRpc, EnqueueFails,
       AwaitCancelled, AwaitReply, AwaitTimeout, Abort, Expire, LeaveTools,
       BridgeReturns, Goto, InTurn, Drainer, DrainerReceives, DrainerWrites,
       DrainerPanics, Idle, turnVars
  <2> QED BY <2>1, <2>2, OrderKept
<1>6. CASE UNCHANGED vars
  BY <1>6, OrderKept DEF vars, hostVars, turnVars, Idle
<1> QED BY <1>1, <1>2, <1>3, <1>4, <1>5, <1>6 DEF Next

-----------------------------------------------------------------------------
(* TokenInv.                                                               *)

\* A step that leaves turns and tokens alone keeps the scope of tokens.
LEMMA TokenKept ==
  ASSUME TokenInv,
         UNCHANGED <<inbox, queue, sessions, cancelTokens, tripped, nextToken,
                     held, lastCancel, cur>>,
         Idle' <=> Idle
  PROVE  TokenInv'
BY DEF TokenInv, TokensCoherent, CancelQueued

\* A frame written by the host keeps the scope of tokens.
LEMMA TokenWritten ==
  ASSUME TypeOK, TokenInv, NEW f \in Frame, HostWrites(f)
  PROVE  TokenInv'
<1>1. inbox' = Append(inbox, f) /\ inbox \in Seq(Frame)
  BY DEF HostWrites, TypeOK, HostTypes
<1>2. inbox # <<>> => Head(inbox') = Head(inbox) /\ inbox' # <<>>
  BY <1>1
<1>3. UNCHANGED <<queue, sessions, cancelTokens, tripped, nextToken, held,
                  lastCancel, cur, pc>>
  BY DEF HostWrites, tableVars, routerVars, turnVars
<1> QED BY <1>2, <1>3 DEF TokenInv, TokensCoherent, CancelQueued, Idle

\* Appending to the queue loses no queued cancel, and adds one of its own.
LEMMA CancelAppended ==
  ASSUME TypeOK, NEW f \in Frame, queue' = Append(queue, f)
  PROVE  /\ \A s : CancelQueued(s) => CancelQueued(s)'
         /\ f.kind = "cancel" => CancelQueued(f.sid)'
         /\ \A i \in 1..Len(queue') :
              (i \in 1..Len(queue) /\ queue'[i] = queue[i]) \/ queue'[i] = f
<1>1. queue \in Seq(Frame)
  BY DEF TypeOK, RouterTypes
<1>2. /\ Len(queue) \in Nat /\ Len(queue') = Len(queue) + 1
      /\ \A i \in 1..Len(queue) : queue'[i] = queue[i]
      /\ queue'[Len(queue) + 1] = f
      /\ \A i \in 1..Len(queue') : i \in 1..Len(queue) \/ i = Len(queue) + 1
  BY <1>1, Appended
<1>3. Len(queue) + 1 \in 1..Len(queue')
  BY <1>2
<1>4. \A i \in 1..Len(queue) : i \in 1..Len(queue')
  BY <1>2
<1> QED BY <1>2, <1>3, <1>4 DEF CancelQueued

\* Taking the head loses at most the head's own cancel.
LEMMA CancelTaken ==
  ASSUME TypeOK, OrderInv, queue # <<>>, queue' = Tail(queue)
  PROVE  /\ \A s : CancelQueued(s) =>
              CancelQueued(s)' \/ (Head(queue).kind = "cancel" /\ Head(queue).sid = s)
         /\ \A i \in 1..Len(queue') : i + 1 \in 1..Len(queue) /\ queue'[i] = queue[i + 1]
<1>1. /\ \A i \in 1..Len(queue') : queue'[i] = queue[i + 1]
      /\ Len(queue') + 1 = Len(queue) /\ Len(queue') \in Nat
      /\ Head(queue) = queue[1]
  BY OrderQueueLess
<1>2. \A i \in 1..Len(queue') : i + 1 \in 1..Len(queue)
  BY <1>1
<1>3. ASSUME NEW s, NEW i \in 1..Len(queue),
             queue[i].kind = "cancel", queue[i].sid = s, i # 1
      PROVE  CancelQueued(s)'
  <2>1. i - 1 \in 1..Len(queue') /\ queue'[i - 1] = queue[i]
    BY <1>1, <1>3
  <2> QED BY <1>3, <2>1 DEF CancelQueued
<1> QED BY <1>1, <1>2, <1>3 DEF CancelQueued

\* Routing a request or a reply keeps the scope of tokens.
LEMMA TokenRouted ==
  ASSUME TypeOK, TokenInv, RouteRequest \/ RouteReply
  PROVE  TokenInv'
<1>1. Head(inbox).kind # "cancel" /\ inbox \in Seq(Frame) /\ inbox # <<>>
  BY DEF RouteRequest, RouteReply, RouterTakes, TypeOK, HostTypes
<1>2. held = {}
  BY <1>1 DEF TokenInv
<1>3. UNCHANGED <<sessions, cancelTokens, tripped, nextToken, held, lastCancel,
                  cur, pc>>
  BY DEF RouteRequest, RouteReply, tableVars, routerVars, turnVars
<1>4. /\ \A s : CancelQueued(s) => CancelQueued(s)'
      /\ \A i \in 1..Len(queue') :
           (i \in 1..Len(queue) /\ queue'[i] = queue[i])
             \/ queue'[i].kind # "cancel"
  <2>1. CASE RouteRequest
    <3>1. queue' = Append(queue, Head(inbox)) /\ Head(inbox) \in Frame
      BY <2>1, <1>1, HeadTail DEF RouteRequest
    <3> QED BY <3>1, <1>1, CancelAppended
  <2>2. CASE RouteReply
    BY <2>2 DEF RouteReply, CancelQueued
  <2> QED BY <2>1, <2>2
<1> QED BY <1>2, <1>3, <1>4 DEF TokenInv, TokensCoherent, Idle

\* A cancel that takes up its session's token keeps the scope of tokens.
LEMMA TokenLookup ==
  ASSUME TypeOK, TokenInv, RouteCancelLookup
  PROVE  TokenInv'
<1>1. /\ Head(inbox).kind = "cancel" /\ Head(inbox).sid \in Sid /\ inbox # <<>>
      /\ held' = {sessions[Head(inbox).sid]}
  <2>1. Head(inbox) \in Frame /\ inbox # <<>> /\ Head(inbox).kind = "cancel"
    BY HeadTail DEF RouteCancelLookup, RouterTakes, TypeOK, HostTypes
  <2>2. Head(inbox).sid \in Sid
    BY <2>1, FrameFields DEF SessionKinds
  <2> QED BY <2>1, <2>2 DEF RouteCancelLookup, TokenInv, TokensCoherent
<1>2. UNCHANGED <<inbox, queue, sessions, cancelTokens, tripped, nextToken,
                  lastCancel, cur, pc>>
  BY DEF RouteCancelLookup, hostVars, tableVars, turnVars
<1> QED BY <1>1, <1>2 DEF TokenInv, TokensCoherent, CancelQueued, Idle

\* A cancel that trips the token it holds and is queued keeps the scope of tokens.
LEMMA TokenForward ==
  ASSUME TypeOK, OrderInv, TokenInv, RouteCancelForward
  PROVE  TokenInv'
<1>0. inbox # <<>> /\ Head(inbox) \in Frame /\ Head(inbox).kind = "cancel"
  BY HeadTail DEF RouteCancelForward, RouterTakes, TypeOK, HostTypes
<1> PICK h \in Frame : h = Head(inbox)
  BY <1>0
<1>1. /\ h \in Frame /\ h.kind = "cancel" /\ h.sid \in Sid /\ inbox # <<>>
  BY <1>0, FrameFields DEF SessionKinds
<1>2. /\ tripped' = tripped \cup (held \ {NoToken}) /\ held' = {}
      /\ lastCancel' = [lastCancel EXCEPT ![h.sid] = h.at]
      /\ queue' = Append(queue, h)
      /\ UNCHANGED <<sessions, cancelTokens, nextToken, cur, pc>>
  BY DEF RouteCancelForward, turnVars
<1>3. /\ \A s : CancelQueued(s) => CancelQueued(s)'
      /\ CancelQueued(h.sid)'
      /\ \A i \in 1..Len(queue') :
           (i \in 1..Len(queue) /\ queue'[i] = queue[i]) \/ queue'[i] = h
  BY <1>1, <1>2, CancelAppended
<1>4. \A s \in Sid : sessions[s] # NoToken /\ sessions[s] \in tripped'
                       => CancelQueued(s)'
  <2> SUFFICES ASSUME NEW s \in Sid, sessions[s] # NoToken,
                      sessions[s] \in tripped'
               PROVE  CancelQueued(s)'
    OBVIOUS
  <2>1. CASE sessions[s] \in tripped
    BY <2>1, <1>3 DEF TokenInv
  <2>2. CASE sessions[s] \in held
    <3>1. s = h.sid
      BY <2>2 DEF TokenInv
    <3> QED BY <3>1, <1>3
  <2> QED BY <2>1, <2>2, <1>2
<1>5. \A i \in 1..Len(queue') :
        queue'[i].kind = "cancel" => queue'[i].at <= lastCancel'[queue'[i].sid]
  <2> SUFFICES ASSUME NEW i \in 1..Len(queue'), queue'[i].kind = "cancel"
               PROVE  queue'[i].at <= lastCancel'[queue'[i].sid]
    OBVIOUS
  <2>1. lastCancel \in [Sid -> Nat] /\ h.at \in Nat
    BY <1>1, FrameFields DEF TypeOK, RouterTypes
  <2>2. CASE queue'[i] = h
    BY <2>1, <2>2, <1>1, <1>2
  <2>3. CASE i \in 1..Len(queue) /\ queue'[i] = queue[i]
    <3>1. queue[i] \in Frame
      BY <2>3, Element DEF TypeOK, RouterTypes
    <3>2. queue[i].sid \in Sid /\ queue[i].at \in Nat
      BY <2>3, <3>1, FrameFields DEF SessionKinds
    <3>3. queue[i].at <= lastCancel[queue[i].sid]
      BY <2>3 DEF TokenInv
    <3>4. 1 \in 1..Len(inbox) /\ h = inbox[1]
      BY <1>1 DEF TypeOK, HostTypes
    <3>5. queue[i].at < h.at
      BY <2>3, <3>4 DEF OrderInv, Before
    <3> QED BY <2>1, <2>3, <3>2, <3>3, <3>5, <1>2
  <2> QED BY <2>2, <2>3, <1>3
<1>6. \A t \in tripped' \cup held' : t < nextToken'
  BY <1>2 DEF TokenInv
<1> QED BY <1>2, <1>4, <1>5, <1>6 DEF TokenInv, TokensCoherent, Idle

\* The head of the queue goes away; no session changes its token.
LEMMA TokenDropped ==
  ASSUME TypeOK, OrderInv, TokenInv, queue # <<>>, queue' = Tail(queue),
         Head(queue).kind # "cancel",
         UNCHANGED <<inbox, sessions, cancelTokens, tripped, nextToken, held,
                     lastCancel>>,
         \/ UNCHANGED cur /\ (Idle' <=> Idle)
         \/ cur'.tok # NoToken /\ sessions[cur'.sid] = cur'.tok
  PROVE  TokenInv'
<1>1. \A s : CancelQueued(s) => CancelQueued(s)'
  BY CancelTaken
<1>2. \A i \in 1..Len(queue') :
        queue'[i].kind = "cancel" => queue'[i].at <= lastCancel'[queue'[i].sid]
  BY CancelTaken DEF TokenInv
<1> QED BY <1>1, <1>2 DEF TokenInv, TokensCoherent

\* Arm gives one session a token no other session has or had.
LEMMA TokenArmed ==
  ASSUME TypeOK, OrderInv, TokenInv, Idle, Idle', NEW x \in Sid, Arm(x),
         queue # <<>>, queue' = Tail(queue),
         Head(queue).kind = "cancel" => Head(queue).sid = x,
         UNCHANGED <<inbox, held, lastCancel>>,
         tripped' = tripped \/ tripped' = tripped \cup {sessions[x]}
  PROVE  TokenInv'
<1>1. /\ sessions \in [Sid -> Nat] /\ cancelTokens = sessions
      /\ nextToken \in Nat /\ nextToken # 0
      /\ tripped \in SUBSET Nat /\ held \in SUBSET Nat
  BY DEF TypeOK, TableTypes, RouterTypes, TokenInv, TokensCoherent
<1>2. /\ sessions' = [sessions EXCEPT ![x] = nextToken]
      /\ cancelTokens' = [cancelTokens EXCEPT ![x] = nextToken]
      /\ nextToken' = nextToken + 1
  BY DEF Arm
<1>3. \A s \in Sid : sessions[s] \in Nat /\ sessions[s] < nextToken
  BY <1>1 DEF TokenInv
<1>4. \A s \in Sid : sessions'[s] = IF s = x THEN nextToken ELSE sessions[s]
  BY <1>1, <1>2
<1>5. TokensCoherent'
  BY <1>1, <1>2, <1>3, <1>4 DEF TokenInv, TokensCoherent, NoToken
<1>6. \A s \in Sid : sessions'[s] < nextToken'
  BY <1>1, <1>2, <1>3, <1>4
<1>7. \A t \in tripped' \cup held' : t < nextToken
  BY <1>3 DEF TokenInv
<1>8. \A t \in tripped' \cup held' : t < nextToken' /\ t # nextToken
  <2> SUFFICES ASSUME NEW t \in tripped' \cup held'
               PROVE  t < nextToken' /\ t # nextToken
    OBVIOUS
  <2>1. t \in Nat
    BY <1>1, <1>3
  <2> QED BY <2>1, <1>1, <1>2, <1>7
<1>9. \A s \in Sid : sessions'[s] # NoToken /\ sessions'[s] \in tripped'
                       => CancelQueued(s)'
  <2> SUFFICES ASSUME NEW s \in Sid, sessions'[s] # NoToken,
                      sessions'[s] \in tripped'
               PROVE  CancelQueued(s)'
    OBVIOUS
  <2>1. s # x /\ sessions'[s] = sessions[s]
    BY <1>4, <1>8
  <2>2. sessions[s] # sessions[x] /\ sessions[s] \in tripped
    BY <2>1 DEF TokenInv, TokensCoherent
  <2>3. CancelQueued(s)
    BY <2>1, <2>2 DEF TokenInv
  <2> QED BY <2>1, <2>3, CancelTaken
<1>10. \A i \in 1..Len(queue') :
        queue'[i].kind = "cancel" => queue'[i].at <= lastCancel'[queue'[i].sid]
  BY CancelTaken DEF TokenInv
<1>11. \A t \in held' : \A s \in Sid :
         sessions'[s] = t /\ t # NoToken => s = Head(inbox').sid
  BY <1>4, <1>8 DEF TokenInv
<1> QED BY <1>5, <1>6, <1>8, <1>9, <1>10, <1>11 DEF TokenInv

\* Every step keeps the scope of tokens.
LEMMA TokenStep == TypeOK /\ OrderInv /\ TokenInv /\ [Next]_vars => TokenInv'
<1> SUFFICES ASSUME TypeOK, OrderInv, TokenInv, [Next]_vars PROVE TokenInv'
  OBVIOUS
<1>1. CASE Host
  <2>1. CASE HostCloses
    BY <2>1, TokenKept DEF HostCloses, Idle, tableVars, routerVars, turnVars
  <2> QED BY <1>1, <2>1, HostStep, TokenWritten
<1>2. CASE Router
  <2>1. CASE RouteEof
    BY <2>1, TokenKept DEF RouteEof, Idle, hostVars, tableVars, turnVars
  <2> QED
    BY <1>2, <2>1, TokenRouted, TokenLookup, TokenForward DEF Router
<1>3. CASE Dispatcher
  <2>1. CASE Shutdown
    BY <2>1, TokenKept DEF Shutdown, Idle, hostVars, routerVars, tableVars,
       turnVars
  <2>2. CASE Dispatcher /\ ~Shutdown
    <3>1. /\ Idle /\ queue # <<>> /\ queue' = Tail(queue)
          /\ UNCHANGED <<inbox, held, lastCancel>>
      BY <2>2 DEF Dispatcher, AtOnce, DispatchNew, DispatchLoad, DispatchConfig,
         DispatchControl, DispatchWarmup, DispatchCancel, DispatchBadCancel,
         RejectPrompt, StartTurn, Dispatches, Idle, hostVars, routerVars
    <3>2. Head(queue) \in Frame
      BY <3>1, HeadTail DEF TypeOK, RouterTypes
    <3>3. CASE DispatchNew
      BY <3>1, <3>3, TokenArmed DEF DispatchNew, Dispatches, Idle, turnVars, Sid
    <3>4. CASE DispatchLoad
      <4>1. /\ Head(queue).kind = "load" /\ Head(queue).sid \in Sid
            /\ tripped' = tripped /\ UNCHANGED <<pc, cur>>
        BY <3>2, <3>4, FrameFields
           DEF DispatchLoad, Dispatches, SessionKinds, turnVars
      <4>2. CASE Arm(Head(queue).sid)
        BY <3>1, <4>1, <4>2, TokenArmed DEF Idle
      <4>3. CASE UNCHANGED <<sessions, cancelTokens, nextToken>>
        BY <3>1, <4>1, <4>3, TokenDropped DEF Idle
      <4> QED BY <3>4, <4>2, <4>3 DEF DispatchLoad
    <3>5. CASE DispatchCancel
      <4>1. /\ Head(queue).kind = "cancel" /\ Head(queue).sid \in Sid
            /\ UNCHANGED <<pc, cur>>
        BY <3>2, <3>5, FrameFields
           DEF DispatchCancel, Dispatches, SessionKinds, turnVars
      <4>2. CASE sessions[Head(queue).sid] # NoToken
        BY <3>1, <3>5, <4>1, <4>2, TokenArmed DEF DispatchCancel, Idle
      <4>3. CASE sessions[Head(queue).sid] = NoToken
        <5>1. UNCHANGED <<sessions, tripped, nextToken>>
          BY <3>5, <4>3 DEF DispatchCancel
        <5>2. cancelTokens' = [cancelTokens EXCEPT ![Head(queue).sid] = NoToken]
          BY <3>5, <4>3 DEF DispatchCancel
        <5>3. cancelTokens' = cancelTokens
          BY <4>1, <4>3, <5>2 DEF TokenInv, TokensCoherent, TypeOK, TableTypes
        <5>4. \A s \in Sid : sessions[s] # NoToken /\ CancelQueued(s)
                               => CancelQueued(s)'
          BY <3>1, <4>3, CancelTaken
        <5>5. \A i \in 1..Len(queue') : queue'[i].kind = "cancel"
                => queue'[i].at <= lastCancel'[queue'[i].sid]
          BY <3>1, CancelTaken DEF TokenInv
        <5> QED BY <3>1, <4>1, <5>1, <5>3, <5>4, <5>5
                DEF TokenInv, TokensCoherent, Idle
      <4> QED BY <4>2, <4>3
    <3>6. CASE DispatchBadCancel \/ RejectPrompt \/ DispatchConfig
               \/ DispatchControl \/ DispatchWarmup
      BY <3>1, <3>6, TokenDropped DEF DispatchBadCancel, RejectPrompt, DispatchConfig,
         DispatchControl, DispatchWarmup, Dispatches, Idle, tableVars, turnVars
    <3>7. CASE StartTurn
      <4>1. /\ Head(queue).kind # "cancel"
            /\ UNCHANGED <<sessions, cancelTokens, tripped, nextToken>>
            /\ cur'.tok = sessions[cur'.sid] /\ cur'.tok # NoToken
        BY <3>7 DEF StartTurn, Dispatches, tableVars
      <4> QED BY <3>1, <4>1, TokenDropped
    <3> QED BY <2>2, <3>3, <3>4, <3>5, <3>6, <3>7 DEF Dispatcher, AtOnce
  <2> QED BY <1>3, <2>1, <2>2
<1>4. CASE FinishTurn
  <2>1. Idle' /\ UNCHANGED <<inbox, queue, sessions, cancelTokens, tripped,
                             nextToken, held, lastCancel>>
    BY <1>4 DEF FinishTurn, Idle, hostVars, routerVars, tableVars
  <2> QED BY <2>1 DEF TokenInv, TokensCoherent, CancelQueued
<1>5. CASE (Turn /\ ~FinishTurn) \/ Drainer
  <2>1. UNCHANGED <<inbox, queue, sessions, cancelTokens, tripped, nextToken,
                    held, lastCancel, cur>>
    BY <1>5 DEF Turn, EmitUpdate, BackendAnswers, BackendFails, StreamCancelled,
       StreamEnds, RegisterRpc, EnqueueRpc, EnqueueFails, AwaitCancelled,
       AwaitReply, AwaitTimeout, Abort, Expire, LeaveTools, BridgeReturns,
       Goto, InTurn, Drainer, DrainerReceives, DrainerWrites, DrainerPanics, hostVars, routerVars, tableVars, turnVars
  <2>2. Idle' <=> Idle
    BY <1>5 DEF Turn, EmitUpdate, BackendAnswers, BackendFails, StreamCancelled,
       StreamEnds, RegisterRpc, EnqueueRpc, EnqueueFails, AwaitCancelled,
       AwaitReply, AwaitTimeout, Abort, Expire, LeaveTools, BridgeReturns,
       Goto, InTurn, Drainer, DrainerReceives, DrainerWrites, DrainerPanics, Idle, turnVars
  <2> QED BY <2>1, <2>2, TokenKept
<1>6. CASE UNCHANGED vars
  BY <1>6, TokenKept DEF vars, hostVars, routerVars, tableVars, turnVars, Idle
<1> QED BY <1>1, <1>2, <1>3, <1>4, <1>5, <1>6 DEF Next

-----------------------------------------------------------------------------
(* DrainInv.                                                               *)

\* A frame joins the channel of a running turn.
LEMMA DrainAppended ==
  ASSUME TypeOK, DrainInv, ~Idle, drainer = "up", NEW f \in OutFrame,
         f.turn = cur.at, f.kind = "update" => f.rpc = 0,
         chan' = Append(chan, f), UNCHANGED <<cur, writing, written, drainer, rpc>>,
         ~Idle', pc' = "await" => pc = "await" \/ f.rpc = rpc
  PROVE  DrainInv'
<1>1. /\ Len(chan) \in Nat /\ Len(chan') = Len(chan) + 1
      /\ \A i \in 1..Len(chan) : chan'[i] = chan[i]
      /\ chan'[Len(chan) + 1] = f
      /\ \A i \in 1..Len(chan') : i \in 1..Len(chan) \/ i = Len(chan) + 1
  BY Appended DEF TypeOK, DrainTypes
<1>2. Len(chan) + 1 \in 1..Len(chan') /\ \A i \in 1..Len(chan) : i \in 1..Len(chan')
  BY <1>1
<1>3. RequestUnderWay'
  BY <1>1, <1>2 DEF DrainInv, RequestUnderWay
<1>4. \A i \in 1..Len(chan') :
        chan'[i].turn = cur.at /\ (chan'[i].kind = "update" => chan'[i].rpc = 0)
  BY <1>1 DEF DrainInv
<1> QED BY <1>3, <1>4 DEF DrainInv

\* The steps of the drainer keep its account of the frames.
LEMMA DrainerStep ==
  ASSUME TypeOK, WaiterInv, DrainInv, Drainer
  PROVE  DrainInv'
<1>1. /\ ~Idle /\ drainer = "up" /\ UNCHANGED <<pc, cur, rpc>>
  BY DEF Drainer, DrainerReceives, DrainerWrites, DrainerPanics, Draining, Idle,
     turnVars, rpcVars
<1>2. CASE DrainerReceives
  <2>1. /\ writing = NoFrame /\ chan # <<>> /\ UNCHANGED <<written, drainer>>
        /\ writing' = Head(chan) /\ chan' = Tail(chan) /\ chan \in Seq(OutFrame)
    BY <1>2 DEF DrainerReceives, TypeOK, DrainTypes
  <2>2. /\ Head(chan) = chan[1] /\ 1 \in 1..Len(chan)
        /\ \A i \in 1..Len(chan') : chan'[i] = chan[i + 1] /\ i + 1 \in 1..Len(chan)
        /\ \A i \in 1..Len(chan) : i # 1 =>
             i - 1 \in 1..Len(chan') /\ chan'[i - 1] = chan[i]
    BY <2>1
  <2>3. pc = "await" => rpc # 0
    BY DEF WaiterInv, Waiting
  <2>4. RequestUnderWay'
    <3> SUFFICES ASSUME pc = "await"
                 PROVE  \/ rpc \in written \/ writing'.rpc = rpc
                        \/ \E i \in 1..Len(chan') : chan'[i].rpc = rpc
      BY <1>1, <2>1 DEF RequestUnderWay
    <3>1. writing.rpc # rpc
      BY <2>1, <2>3 DEF NoFrame
    <3>2. CASE rpc \in written
      BY <3>2
    <3>3. ASSUME NEW i \in 1..Len(chan), chan[i].rpc = rpc
          PROVE  \/ writing'.rpc = rpc
                 \/ \E k \in 1..Len(chan') : chan'[k].rpc = rpc
      BY <2>1, <2>2, <3>3
    <3> QED BY <1>1, <3>1, <3>2, <3>3 DEF DrainInv, RequestUnderWay
  <2>5. \A i \in 1..Len(chan') :
          chan'[i].turn = cur.at /\ (chan'[i].kind = "update" => chan'[i].rpc = 0)
    BY <2>2 DEF DrainInv
  <2>6. writing'.turn = cur.at /\ (writing'.kind = "update" => writing'.rpc = 0)
    BY <2>1, <2>2 DEF DrainInv
  <2> QED BY <1>1, <2>1, <2>4, <2>5, <2>6 DEF DrainInv, Idle
<1>3. CASE DrainerWrites
  <2>1. /\ writing # NoFrame /\ writing' = NoFrame /\ UNCHANGED <<chan, drainer>>
        /\ writing \in OutFrame
        /\ written' = IF writing.kind = "mcp" THEN written \cup {writing.rpc}
                                              ELSE written
    BY <1>3 DEF DrainerWrites, TypeOK, DrainTypes
  <2>2. pc = "await" /\ writing.rpc = rpc => rpc \in written'
    BY <2>1 DEF WaiterInv, Waiting, DrainInv, OutFrame
  <2> QED BY <1>1, <2>1, <2>2 DEF DrainInv, RequestUnderWay, Idle
<1>4. CASE DrainerPanics
  BY <1>1, <1>4 DEF DrainerPanics, DrainInv, RequestUnderWay, Idle
<1> QED BY <1>2, <1>3, <1>4 DEF Drainer

\* A step that leaves the frames and the request alone keeps the account of the frames.
LEMMA DrainKept ==
  ASSUME DrainInv, UNCHANGED <<chan, writing, drainer, written, cur, rpc>>,
         Idle' <=> Idle, pc' = "await" => pc = "await"
  PROVE  DrainInv'
BY DEF DrainInv, RequestUnderWay

\* Every step keeps the account of the frames.
LEMMA DrainStep == TypeOK /\ WaiterInv /\ DrainInv /\ [Next]_vars => DrainInv'
<1> SUFFICES ASSUME TypeOK, WaiterInv, DrainInv, [Next]_vars PROVE DrainInv'
  OBVIOUS
<1>1. CASE EmitUpdate
  <2>1. CASE UNCHANGED chan
    BY <1>1, <2>1, DrainKept DEF EmitUpdate, rpcVars, turnVars, Idle
  <2>2. CASE ~UNCHANGED chan
    <3> DEFINE f == [kind |-> "update", rpc |-> 0, turn |-> cur.at]
    <3>1. ~Idle /\ drainer = "up" /\ chan' = Append(chan, f) /\ UNCHANGED pc
          /\ UNCHANGED <<cur, writing, written, drainer, rpc>>
      BY <1>1, <2>2 DEF EmitUpdate, Idle, rpcVars, turnVars
    <3>2. f \in OutFrame
      BY <3>1 DEF OutFrame, TypeOK, TurnTypes, Idle
    <3> QED BY <3>1, <3>2, DrainAppended DEF Idle
  <2> QED BY <2>1, <2>2
<1>2. CASE EnqueueRpc
  <2> DEFINE f == [kind |-> "mcp", rpc |-> rpc, turn |-> cur.at]
  <2>1. ~Idle /\ ~Idle' /\ drainer = "up" /\ chan' = Append(chan, f)
        /\ UNCHANGED <<cur, writing, written, drainer, rpc>>
    BY <1>2 DEF EnqueueRpc, InTurn, Goto, Idle, rpcVars
  <2>2. f \in OutFrame
    BY <2>1 DEF OutFrame, TypeOK, TurnTypes, RpcTypes, Idle
  <2> QED BY <2>1, <2>2, DrainAppended
<1>3. CASE StartTurn
  BY <1>3 DEF StartTurn, DrainInv, RequestUnderWay, Idle
<1>4. CASE FinishTurn
  <2>1. chan = <<>> /\ writing = NoFrame
    BY <1>4 DEF FinishTurn, DrainInv, TypeOK, DrainTypes
  <2> QED BY <1>4, <2>1 DEF FinishTurn, drainVars, DrainInv, RequestUnderWay, Idle
<1>5. CASE Host \/ Router \/ (Dispatcher /\ ~StartTurn) \/ UNCHANGED vars
  BY <1>5, DrainKept DEF Host, HostRequests, HostReplies, HostSends, HostWrites,
     HostCloses, Router, RouteReply, RouteRequest, RouteCancelLookup,
     RouteCancelForward, RouteEof, Dispatcher, AtOnce, DispatchNew, DispatchLoad,
     DispatchConfig, DispatchControl, DispatchWarmup, DispatchCancel, DispatchBadCancel, RejectPrompt, Shutdown, rpcVars,
     drainVars, turnVars, vars, Idle
<1>6. CASE Turn /\ ~EmitUpdate /\ ~EnqueueRpc /\ ~FinishTurn /\ ~RegisterRpc
  <2>1. /\ UNCHANGED <<chan, writing, drainer, written, cur, rpc>>
        /\ ~Idle /\ ~Idle' /\ pc' # "await"
    BY <1>6 DEF Turn, BackendAnswers, BackendFails, StreamCancelled, StreamEnds,
       EnqueueFails, AwaitCancelled, AwaitReply, AwaitTimeout, Abort, Expire,
       LeaveTools, BridgeReturns, Goto, InTurn, drainVars, rpcVars, Idle
  <2> QED BY <2>1, DrainKept
<1>7. CASE RegisterRpc
  BY <1>7 DEF RegisterRpc, InTurn, Goto, drainVars, DrainInv, RequestUnderWay,
     Idle
<1>8. CASE Drainer
  BY <1>8, DrainerStep
<1> QED BY <1>1, <1>2, <1>3, <1>4, <1>5, <1>6, <1>7, <1>8 DEF Next

-----------------------------------------------------------------------------
(* The invariant is inductive, and implies what the runs check.            *)

\* The initial state satisfies the inductive invariant.
LEMMA InitIInv == Init => IInv
<1> SUFFICES ASSUME Init PROVE IInv
  OBVIOUS
<1>1. WaiterInv /\ DrainInv
  BY DEF Init, WaiterInv, NoStrayWaiter, Waiting, DrainInv, RequestUnderWay, Idle
<1>2. OrderInv
  BY DEF Init, OrderInv, Ordered, Before, Idle
<1>3. TokenInv
  BY DEF Init, TokenInv, TokensCoherent, NoToken, Idle
<1> QED BY <1>1, <1>2, <1>3, InitType DEF IInv

\* The inductive invariant holds in every state of the server.
THEOREM Inductive == Spec => []IInv
<1>1. IInv /\ [Next]_vars => IInv'
  <2> SUFFICES ASSUME IInv, [Next]_vars PROVE IInv'
    OBVIOUS
  <2> QED BY TypeStep, WaiterStep, OrderStep, TokenStep, DrainStep DEF IInv
<1> QED BY <1>1, InitIInv, PTL DEF Spec

\* pending_requests never keeps an entry nobody waits for, and session/cancel
\* never drops a sender under a waiter.
THEOREM NoWaiterStrays == Spec => []NoStrayWaiter
<1>1. IInv => NoStrayWaiter
  BY DEF IInv, WaiterInv
<1> QED BY <1>1, Inductive, PTL

\* Whatever the host sends and however the tasks interleave, responses leave in
\* the order of the requests and no request is answered twice.
THEOREM ResponsesOrdered == Spec => []ResponsesInOrder
<1>1. IInv => ResponsesInOrder
  <2> SUFFICES ASSUME IInv PROVE ResponsesInOrder
    OBVIOUS
  <2>1. DOMAIN responses = 1..Len(responses)
    BY DEF IInv, TypeOK, OutputTypes
  <2> QED BY <2>1 DEF IInv, OrderInv, Ordered, ResponsesInOrder
<1> QED BY <1>1, Inductive, PTL

\* No session/update reaches stdout after the response of its turn.
THEOREM UpdatesFirst == Spec => []UpdatesPrecedeResponse
<1>1. IInv => UpdatesPrecedeResponse
  <2> SUFFICES ASSUME IInv,
                      NEW f \in Range(chan) \cup ({writing} \ {NoFrame})
               PROVE  /\ ~Idle /\ f.turn = cur.at
                      /\ \A i \in DOMAIN responses : responses[i].at # f.turn
    BY DEF UpdatesPrecedeResponse
  <2>1. /\ DOMAIN chan = 1..Len(chan) /\ DOMAIN responses = 1..Len(responses)
        /\ \A i \in 1..Len(responses) : responses[i].at \in Nat
    <3>1. \A i \in 1..Len(responses) :
            responses[i] \in [at : Nat, outcome : Outcomes]
      BY Element DEF IInv, TypeOK, OutputTypes
    <3> QED BY <3>1 DEF IInv, TypeOK, DrainTypes, OutputTypes
  <2>2. ~Idle /\ f.turn = cur.at
    BY <2>1 DEF Range, IInv, DrainInv
  <2>3. cur.at \in Nat /\ \A i \in 1..Len(responses) : responses[i].at < cur.at
    BY <2>2 DEF IInv, OrderInv, TypeOK, TurnTypes, Idle
  <2> QED BY <2>1, <2>2, <2>3
<1> QED BY <1>1, Inductive, PTL

\* A request a turn waits for is never dropped on its way to the host.
THEOREM AwaitedSent == Spec => []AwaitedRequestSent
<1>1. IInv => AwaitedRequestSent
  <2> SUFFICES ASSUME IInv, pc = "await", drainer = "up"
               PROVE  rpc \in written \cup {f.rpc : f \in Range(chan) \cup {writing}}
    BY DEF AwaitedRequestSent
  <2>1. DOMAIN chan = 1..Len(chan)
    BY DEF IInv, TypeOK, DrainTypes
  <2> QED BY <2>1 DEF Range, IInv, DrainInv, RequestUnderWay
<1> QED BY <1>1, Inductive, PTL

\* The router's token map always agrees with the sessions.
THEOREM TokensAgree == Spec => []TokensCoherent
<1>1. IInv => TokensCoherent
  BY DEF IInv, TokenInv
<1> QED BY <1>1, Inductive, PTL

\* A cancel reaches no turn but one of its own session whose prompt the host
\* wrote before it: the re-arm of an earlier cancel is never missed, whatever
\* the router and the dispatcher interleave.
THEOREM CancelStaysInScope == Spec => []CancelScope
<1>1. IInv => CancelScope
  <2> SUFFICES ASSUME IInv, ~Idle, Cancelled
               PROVE  lastCancel[cur.sid] > cur.at
    BY DEF CancelScope
  <2>1. cur.sid \in Sid /\ cur.at \in Nat
    BY DEF IInv, TypeOK, TurnTypes, Idle
  <2>2. CancelQueued(cur.sid)
    BY <2>1 DEF IInv, TokenInv, Cancelled
  <2>3. PICK i \in 1..Len(queue) :
          queue[i].kind = "cancel" /\ queue[i].sid = cur.sid
    BY <2>2 DEF CancelQueued
  <2>4. queue[i].at \in Nat
    BY Element, FrameFields DEF IInv, TypeOK, RouterTypes
  <2>5. cur.at < queue[i].at /\ queue[i].at <= lastCancel[cur.sid]
    BY <2>3 DEF IInv, OrderInv, Before, TokenInv
  <2>6. lastCancel[cur.sid] \in Nat
    BY <2>1 DEF IInv, TypeOK, RouterTypes
  <2> QED BY <2>1, <2>4, <2>5, <2>6
<1> QED BY <1>1, Inductive, PTL
=============================================================================
