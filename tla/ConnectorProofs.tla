---------------------------- MODULE ConnectorProofs ----------------------------
(***************************************************************************)
(* Theorems about the connector path in Connector: cancels and the order of *)
(* what the host reads, for every number of sessions, frames, mcp/*         *)
(* requests and updates.                                                   *)
(***************************************************************************)
EXTENDS Connector, SequenceTheorems, FiniteSetTheorems, TLAPS

-----------------------------------------------------------------------------
(* Sequences.                                                              *)

\* The first element and the rest.
LEMMA HeadTail ==
  ASSUME NEW S, NEW q \in Seq(S), q # <<>>
  PROVE  /\ Head(q) \in S /\ Head(q) = q[1] /\ 1 \in DOMAIN q
         /\ Tail(q) \in Seq(S) /\ Len(q) \in Nat /\ Len(Tail(q)) = Len(q) - 1
         /\ \A i \in DOMAIN Tail(q) : i + 1 \in DOMAIN q /\ Tail(q)[i] = q[i + 1]
         /\ \A i \in DOMAIN q : i = 1 \/ (i - 1 \in DOMAIN Tail(q) /\ Tail(q)[i - 1] = q[i])
OBVIOUS

\* One more element.
LEMMA Appended ==
  ASSUME NEW S, NEW q \in Seq(S), NEW e \in S
  PROVE  /\ Append(q, e) \in Seq(S) /\ Len(q) \in Nat /\ DOMAIN q = 1..Len(q)
         /\ Len(Append(q, e)) = Len(q) + 1 /\ DOMAIN Append(q, e) = 1..(Len(q) + 1)
         /\ \A i \in 1..Len(q) : Append(q, e)[i] = q[i]
         /\ Append(q, e)[Len(q) + 1] = e
         /\ \A i \in 1..(Len(q) + 1) : i \in 1..Len(q) \/ i = Len(q) + 1
BY AppendProperties

-----------------------------------------------------------------------------
(* Events and the frames they become.                                      *)

Final(e) == e.event \in {"TurnFinished", "Failed"}

\* What a task sends.
Event ==
  [event : {"TurnFinished", "Failed"}, rpc : {0}, what : Outcomes] \cup
  [event : {"OutboundFrame"}, rpc : Nat, what : {"mcp"}] \cup
  {[event |-> notification_to_event(u), rpc |-> 0, what |-> u] : u \in Updates}

\* An update survives the way there and back.
LEMMA RoundTrip ==
  ASSUME NEW u \in Updates
  PROVE  /\ event_to_notification(notification_to_event(u)) = {u}
         /\ notification_to_event(u) \notin {"TurnFinished", "Failed", "OutboundFrame"}
<1>1. CASE u = "agent_message_chunk"
  BY <1>1 DEF notification_to_event, event_to_notification
<1>2. CASE u = "agent_thought_chunk"
  BY <1>2 DEF notification_to_event, event_to_notification
<1>3. CASE u = "tool_call"
  BY <1>3 DEF notification_to_event, event_to_notification
<1>4. CASE u = "tool_call_completed"
  BY <1>4 DEF notification_to_event, event_to_notification
<1>5. CASE u = "tool_call_failed"
  BY <1>5 DEF notification_to_event, event_to_notification
<1> QED BY <1>1, <1>2, <1>3, <1>4, <1>5 DEF Updates

\* Each event a task sends becomes exactly one frame, a response if it is final.
LEMMA OneFrame ==
  ASSUME cur.at \in Nat, NEW e \in Event
  PROVE  /\ FramesOf(e) = {FrameOf(e)} /\ FrameOf(e) \in OutFrame
         /\ FrameOf(e).at = cur.at
         /\ FrameOf(e).kind = "response" <=> Final(e)
<1>1. ASSUME NEW f, FramesOf(e) = {f} PROVE FrameOf(e) = f
  BY <1>1 DEF FrameOf
<1>2. CASE e \in [event : {"TurnFinished", "Failed"}, rpc : {0}, what : Outcomes]
  <2> DEFINE f == Response(cur.at, e.what)
  <2>1. FramesOf(e) = {f}
    BY <1>2 DEF FramesOf
  <2>2. f \in OutFrame /\ f.kind = "response" /\ f.at = cur.at
    BY <1>2 DEF Response, OutFrame
  <2>3. Final(e)
    BY <1>2 DEF Final
  <2> QED BY <1>1, <2>1, <2>2, <2>3
<1>3. CASE e \in [event : {"OutboundFrame"}, rpc : Nat, what : {"mcp"}]
  <2> DEFINE f == [kind |-> "mcp", at |-> cur.at, rpc |-> e.rpc, what |-> "mcp"]
  <2>1. FramesOf(e) = {f}
    BY <1>3 DEF FramesOf
  <2>2. f \in OutFrame /\ f.kind # "response" /\ f.at = cur.at
    BY <1>3 DEF OutFrame
  <2>3. ~Final(e)
    BY <1>3 DEF Final
  <2> QED BY <1>1, <2>1, <2>2, <2>3
<1>4. ASSUME NEW u \in Updates,
             e = [event |-> notification_to_event(u), rpc |-> 0, what |-> u]
      PROVE  /\ FramesOf(e) = {FrameOf(e)} /\ FrameOf(e) \in OutFrame
             /\ FrameOf(e).at = cur.at
             /\ FrameOf(e).kind = "response" <=> Final(e)
  <2> DEFINE f == [kind |-> "update", at |-> cur.at, rpc |-> 0, what |-> u]
  <2>1. e.event = notification_to_event(u)
    BY <1>4
  <2>2. FramesOf(e) = {[kind |-> "update", at |-> cur.at, rpc |-> 0, what |-> v] : v \in {u}}
    BY <2>1, RoundTrip DEF FramesOf
  <2>3. FramesOf(e) = {f}
    BY <2>2
  <2>4. f \in OutFrame /\ f.kind # "response" /\ f.at = cur.at
    BY DEF OutFrame
  <2>5. ~Final(e)
    BY <2>1, RoundTrip DEF Final
  <2> QED BY <1>1, <2>3, <2>4, <2>5
<1> QED BY <1>2, <1>3, <1>4 DEF Event

\* What a finish reason or an error is mapped to is an outcome.
LEMMA OutcomesOf ==
  /\ \A reason : from_finish_reason(reason) \in Outcomes
  /\ \A error : to_acp_jsonrpc_code(error) \in Outcomes
<1>1. ASSUME NEW reason PROVE from_finish_reason(reason) \in Outcomes
  <2>1. CASE reason = "length"
    BY <2>1 DEF from_finish_reason, Outcomes, Degraded, Guarded
  <2>2. CASE reason \in Degraded \cup Guarded \cup {"circuit_breaker"}
    <3>1. reason # "length" /\ reason \notin {"max_turn_requests", "cancelled"}
      BY <2>2 DEF Degraded, Guarded
    <3> QED BY <2>2, <3>1 DEF from_finish_reason, Outcomes
  <2>3. CASE reason \in {"max_turn_requests", "cancelled"}
    BY <2>3 DEF from_finish_reason, Outcomes, Degraded, Guarded
  <2>4. CASE /\ reason # "length" /\ reason \notin Degraded \cup Guarded \cup {"circuit_breaker"}
             /\ reason \notin {"max_turn_requests", "cancelled"}
    BY <2>4 DEF from_finish_reason, Outcomes
  <2> QED BY <2>1, <2>2, <2>3, <2>4
<1>2. \A error : to_acp_jsonrpc_code(error) \in Outcomes
  BY DEF to_acp_jsonrpc_code, Outcomes
<1> QED BY <1>1, <1>2

-----------------------------------------------------------------------------
(* The steps, by what they do to frames and events.                        *)

Quiet == UNCHANGED <<hostVars, routerVars, queue, tableVars, tripped>>

\* A step of the prompt's task: nothing shows, or one event joins the others and, if
\* it is not final, the log; after a final one the task is over.
TaskStep ==
  /\ Quiet /\ UNCHANGED <<driveVars, out>>
  /\ pc = "drive" /\ task # "done"
  /\ \/ UNCHANGED <<events, log, nextRpc>>
     \/ \E e \in Event : /\ Final(e) /\ events' = Append(events, e) /\ task' = "done"
                         /\ UNCHANGED <<log, nextRpc>>
     \/ \E e \in Event : /\ ~Final(e) /\ events' = Append(events, e)
                         /\ log' = Append(log, FrameOf(e)) /\ nextRpc' \in {nextRpc, nextRpc + 1}

\* The actions of the task are such steps.
LEMMA TaskSteps ==
  ASSUME cur.at \in Nat, nextRpc \in Nat, Task
  PROVE  TaskStep
<1> USE DEF TaskStep, Quiet, rpcVars
<1>1. \A reason : /\ [event |-> "TurnFinished", rpc |-> 0, what |-> from_finish_reason(reason)] \in Event
                  /\ Final([event |-> "TurnFinished", rpc |-> 0, what |-> from_finish_reason(reason)])
  BY OutcomesOf DEF Event, Final
<1>2. \A error : /\ [event |-> "Failed", rpc |-> 0, what |-> to_acp_jsonrpc_code(error)] \in Event
                 /\ Final([event |-> "Failed", rpc |-> 0, what |-> to_acp_jsonrpc_code(error)])
  BY OutcomesOf DEF Event, Final
<1>3. ASSUME At("unknown_session") \/ At("request") \/ At("stream") \/ At("tools") \/ At("abort"),
             NEW reason, Finishes(reason), UNCHANGED nextRpc
      PROVE  TaskStep
  BY <1>1, <1>3 DEF At, Finishes, Terminal, Send
<1>4. ASSUME At("unknown_session") \/ At("request"),
             NEW error, Fails(error), UNCHANGED nextRpc
      PROVE  TaskStep
  BY <1>2, <1>4 DEF At, Fails, Terminal, Send
<1>5. ASSUME At("request") \/ At("stream") \/ At("tools") \/ At("await") \/ At("expire") \/ Working,
             NEW where, Goto(where), UNCHANGED <<log, nextRpc>>
      PROVE  TaskStep
  BY <1>5 DEF At, Goto, Working
<1>6. CASE UnknownSession
  BY <1>4, <1>6 DEF UnknownSession
<1>7. CASE EmitUpdate
  <2>1. PICK u \in Shown :
          /\ events' = Append(events, [event |-> notification_to_event(u), rpc |-> 0, what |-> u])
          /\ log' = Append(log, [kind |-> "update", at |-> cur.at, rpc |-> 0, what |-> u])
    BY <1>7 DEF EmitUpdate, Send, Logs
  <2>2. u \in Updates
    BY <2>1, ConnectorAssumption
  <2> DEFINE e == [event |-> notification_to_event(u), rpc |-> 0, what |-> u]
  <2>3. e \in Event
    BY <2>2 DEF Event
  <2>4. ~Final(e)
    BY <2>2, RoundTrip DEF Final
  <2>5. FramesOf(e) = {[kind |-> "update", at |-> cur.at, rpc |-> 0, what |-> v] : v \in {u}}
    BY <2>2, RoundTrip DEF FramesOf
  <2>6. FrameOf(e) = [kind |-> "update", at |-> cur.at, rpc |-> 0, what |-> u]
    BY <2>5 DEF FrameOf
  <2>7. /\ pc = "drive" /\ task # "done"
        /\ UNCHANGED <<hostVars, routerVars, queue, tableVars, tripped, rpcVars, driveVars, task, out>>
    BY <1>7 DEF EmitUpdate, Working
  <2> HIDE DEF e
  <2> QED BY <2>1, <2>3, <2>4, <2>6, <2>7 DEF e
<1>8. CASE BackendAnswers
  BY <1>5, <1>8 DEF BackendAnswers, Goto
<1>9. CASE BackendFails
  BY <1>3, <1>4, <1>9 DEF BackendFails
<1>10. CASE StreamCancelled
  BY <1>3, <1>10 DEF StreamCancelled
<1>11. CASE StreamEnds
  BY <1>3, <1>5, <1>11 DEF StreamEnds, Goto
<1>12. CASE PrepareRpc
  <2> DEFINE e == OutboundFrame(nextRpc)
  <2>1. e \in Event /\ ~Final(e)
    BY DEF OutboundFrame, Event, Final
  <2>2. FrameOf(e) = [kind |-> "mcp", at |-> cur.at, rpc |-> nextRpc, what |-> "mcp"]
    BY DEF FrameOf, FramesOf, OutboundFrame
  <2>3. events' = Append(events, e) /\ log' = Append(log, FrameOf(e)) /\ nextRpc' = nextRpc + 1
    BY <1>12, <2>2 DEF PrepareRpc, Send, Logs
  <2>4. /\ pc = "drive" /\ task # "done"
        /\ UNCHANGED <<hostVars, routerVars, queue, tableVars, tripped, driveVars, out>>
    BY <1>12 DEF PrepareRpc, At
  <2> HIDE DEF e
  <2> QED BY <2>1, <2>3, <2>4
<1>13. CASE AwaitCancelled \/ AwaitReply \/ AwaitTimeout
  BY <1>5, <1>13 DEF AwaitCancelled, AwaitReply, AwaitTimeout, Goto
<1>14. CASE Abort
  BY <1>3, <1>14 DEF Abort, Unregister
<1>15. CASE Expire
  BY <1>5, <1>15 DEF Expire, Unregister, Goto
<1>16. CASE LeaveTools
  BY <1>3, <1>16 DEF LeaveTools
<1>17. CASE TaskPanics
  BY <1>5, <1>17 DEF TaskPanics, Goto
<1> QED BY <1>6, <1>7, <1>8, <1>9, <1>10, <1>11, <1>12, <1>13, <1>14, <1>15, <1>16,
           <1>17 DEF Task

-----------------------------------------------------------------------------
(* Types.                                                                  *)

Types ==
  /\ inbox \in Seq(Frame) /\ queue \in Seq(Frame) /\ sent \in Nat
  /\ held \subseteq Sid /\ lastCancel \in [Sid -> Nat]
  /\ sessions \subseteq Sid /\ cancelTokens \subseteq Sid /\ minted \subseteq Sid
  /\ tripped \subseteq Sid
  /\ nextRpc \in Nat /\ pc \in {"idle", "drive"} /\ cur.at \in Nat
  /\ events \in Seq(Event) /\ out \in Seq(OutFrame) /\ log \in Seq(OutFrame)

\* A frame of the host.
HostStep ==
  /\ \E f \in Frame : f.at = sent + 1 /\ inbox' = Append(inbox, f)
  /\ sent' = sent + 1
  /\ UNCHANGED <<routerVars, queue, tableVars, tripped, rpcVars, driveVars,
                 task, events, out, log>>

\* Whatever the host writes is one.
LEMMA HostSteps ==
  ASSUME Types, Host
  PROVE  HostStep
<1>1. ASSUME NEW kind \in SessionKinds, NEW s \in Sid, HostSends(kind, s) PROVE HostStep
  <2>1. [kind |-> kind, sid |-> s, at |-> sent + 1, rpc |-> 0] \in Frame
    BY DEF Frame, Types
  <2> QED BY <1>1, <2>1 DEF HostSends, HostWrites, HostStep
<1>2. ASSUME NEW kind \in OtherKinds, NEW r \in Nat,
             HostWrites([kind |-> kind, sid |-> NoSid, at |-> sent + 1, rpc |-> r])
      PROVE  HostStep
  <2>1. [kind |-> kind, sid |-> NoSid, at |-> sent + 1, rpc |-> r] \in Frame
    BY DEF Frame, Types
  <2> QED BY <1>2, <2>1 DEF HostWrites, HostStep
<1>3. CASE HostRequests
  <2>1. CASE HostSends("new", NoSid)
    BY <1>2, <2>1 DEF HostSends, OtherKinds
  <2>2. CASE \E s \in minted : \E kind \in SessionKinds : HostSends(kind, s)
    BY <1>1, <2>2 DEF Types
  <2>3. CASE \E kind \in OtherKinds \ {"new", "reply"} : HostSends(kind, NoSid)
    BY <1>2, <2>3 DEF HostSends
  <2> QED BY <1>3, <2>1, <2>2, <2>3 DEF HostRequests
<1>4. CASE HostReplies
  <2>1. PICK f \in Range(out) : HostWrites([kind |-> "reply", sid |-> NoSid,
                                            at |-> sent + 1, rpc |-> f.rpc])
    BY <1>4 DEF HostReplies
  <2>2. f \in OutFrame
    BY DEF Range, Types
  <2>3. f.rpc \in Nat
    BY <2>2 DEF OutFrame
  <2> QED BY <1>2, <2>1, <2>3 DEF OtherKinds
<1> QED BY <1>3, <1>4 DEF Host

\* A frame's fields.
LEMMA FrameFields ==
  ASSUME NEW f \in Frame
  PROVE  f.at \in Nat /\ (f.kind \in SessionKinds => f.sid \in Sid)
         /\ f.kind \in SessionKinds \cup OtherKinds
BY DEF Frame, SessionKinds, OtherKinds

\* The dispatcher takes a frame and may write one response to it; no turn is under way.
Takes ==
  /\ pc = "idle" /\ queue # <<>> /\ queue' = Tail(queue)
  /\ UNCHANGED <<hostVars, routerVars, rpcVars, task, events, log>>
Answers == \E what \in Outcomes : out' = Append(out, Response(Head(queue).at, what))

\* The steps of the dispatcher outside a turn.
LEMMA DispatchSteps ==
  ASSUME DispatchNew \/ DispatchConfigOrLoad \/ DispatchCancel \/ DispatchIgnored \/ RejectPrompt
  PROVE  /\ Takes /\ UNCHANGED driveVars
         /\ Answers \/ UNCHANGED out
         /\ \/ DispatchCancel
            \/ /\ Head(queue).kind # "cancel" /\ UNCHANGED <<tripped, tableVars>>
            \/ DispatchNew
<1> USE DEF Takes, Answers, Dispatches, Respond, Outcomes
<1>1. CASE DispatchNew
  BY <1>1 DEF DispatchNew
<1>2. CASE DispatchConfigOrLoad
  BY <1>2 DEF DispatchConfigOrLoad
<1>3. CASE DispatchCancel
  BY <1>3 DEF DispatchCancel
<1>4. CASE DispatchIgnored
  BY <1>4 DEF DispatchIgnored
<1>5. CASE RejectPrompt
  BY <1>5 DEF RejectPrompt
<1> QED BY <1>1, <1>2, <1>3, <1>4, <1>5

\* The steps of the specification, sorted.
LEMMA Steps ==
  ASSUME Types, [Next]_vars
  PROVE  \/ HostStep \/ RouteReply \/ RouteRequest \/ RouteCancelLookup \/ RouteCancelForward
         \/ DispatchNew \/ DispatchConfigOrLoad \/ DispatchCancel \/ DispatchIgnored \/ RejectPrompt
         \/ StartPrompt \/ WriteEvent \/ EndOfStream \/ TaskStep \/ UNCHANGED vars
BY HostSteps, TaskSteps DEF Types, Next, Router, Dispatcher

\* Every step preserves the types.
LEMMA TypesStep == Types /\ [Next]_vars => Types'
<1> SUFFICES ASSUME Types, [Next]_vars PROVE Types'
  OBVIOUS
<1> USE DEF Types, hostVars, routerVars, tableVars, rpcVars, driveVars
<1>1. CASE HostStep
  BY <1>1 DEF HostStep
<1>2. CASE RouteReply
  BY <1>2 DEF RouteReply, Routes
<1>3. CASE RouteRequest
  BY <1>3 DEF RouteRequest, Routes
<1>4. CASE RouteCancelLookup
  BY <1>4 DEF RouteCancelLookup
<1>5. CASE RouteCancelForward
  <2>1. /\ inbox # <<>> /\ Head(inbox).kind = "cancel"
        /\ queue' = Append(queue, Head(inbox)) /\ inbox' = Tail(inbox)
        /\ held' = {} /\ tripped' = tripped \cup held
        /\ lastCancel' = [lastCancel EXCEPT ![Head(inbox).sid] = Head(inbox).at]
    BY <1>5 DEF RouteCancelForward, Routes
  <2>2. Head(inbox) \in Frame /\ Tail(inbox) \in Seq(Frame)
    BY <2>1, HeadTail
  <2>3. Head(inbox).at \in Nat /\ Head(inbox).sid \in Sid
    BY <2>1, <2>2, FrameFields DEF SessionKinds
  <2>4. lastCancel' \in [Sid -> Nat]
    BY <2>1, <2>3
  <2>5. queue' \in Seq(Frame) /\ inbox' \in Seq(Frame) /\ held' \subseteq Sid /\ tripped' \subseteq Sid
    BY <2>1, <2>2
  <2>6. UNCHANGED <<sent, tableVars, rpcVars, driveVars, task, events, out, log>>
    BY <1>5 DEF RouteCancelForward
  <2> QED BY <2>4, <2>5, <2>6
<1>6. CASE DispatchNew \/ DispatchConfigOrLoad \/ DispatchCancel \/ DispatchIgnored \/ RejectPrompt
  <2>1. Takes /\ UNCHANGED driveVars /\ (Answers \/ UNCHANGED out)
    BY <1>6, DispatchSteps
  <2>2. Head(queue) \in Frame /\ Tail(queue) \in Seq(Frame)
    BY <2>1, HeadTail DEF Takes
  <2>3. Head(queue).at \in Nat
    BY <2>2, FrameFields
  <2>4. out' \in Seq(OutFrame)
    <3>1. CASE Answers
      <4>1. PICK what \in Outcomes : out' = Append(out, Response(Head(queue).at, what))
        BY <3>1 DEF Answers
      <4>2. Response(Head(queue).at, what) \in OutFrame
        BY <2>3 DEF Response, OutFrame
      <4> QED BY <4>1, <4>2
    <3> QED BY <2>1, <3>1
  <2>5. /\ sessions' \subseteq Sid /\ cancelTokens' \subseteq Sid /\ minted' \subseteq Sid
        /\ tripped' \subseteq Sid
    <3>1. CASE DispatchCancel
      <4>1. minted' = minted
        BY <3>1 DEF DispatchCancel
      <4>2. /\ sessions' \subseteq sessions /\ cancelTokens' \subseteq cancelTokens
            /\ tripped' \subseteq tripped \cup cancelTokens
        BY <3>1 DEF DispatchCancel, close_session
      <4> QED BY <4>1, <4>2
    <3>2. CASE DispatchNew
      BY <3>2 DEF DispatchNew, start_session
    <3> QED BY <1>6, <3>1, <3>2, DispatchSteps
  <2> QED BY <2>1, <2>2, <2>4, <2>5 DEF Takes
<1>7. CASE StartPrompt
  <2>1. Head(queue) \in Frame /\ Tail(queue) \in Seq(Frame)
    BY <1>7, HeadTail DEF StartPrompt, Dispatches
  <2>2. cur'.at \in Nat
    BY <1>7, <2>1, FrameFields DEF StartPrompt
  <2> QED BY <1>7, <2>1, <2>2 DEF StartPrompt, Dispatches
<1>8. CASE WriteEvent
  <2>1. events # <<>> /\ events' = Tail(events)
    BY <1>8 DEF WriteEvent
  <2>2. Head(events) \in Event /\ Tail(events) \in Seq(Event)
    BY <2>1, HeadTail
  <2>3. out' \in Seq(OutFrame)
    <3>1. FramesOf(Head(events)) = {FrameOf(Head(events))} /\ FrameOf(Head(events)) \in OutFrame
      BY <2>2, OneFrame
    <3>2. out' = Append(out, FrameOf(Head(events)))
      BY <1>8, <3>1 DEF WriteEvent
    <3> QED BY <3>1, <3>2
  <2> QED BY <1>8, <2>1, <2>2, <2>3 DEF WriteEvent
<1>9. CASE EndOfStream
  <2>1. Response(cur.at, "error") \in OutFrame
    BY DEF Response, OutFrame, Outcomes
  <2> QED BY <1>9, <2>1 DEF EndOfStream, NoTurn
<1>10. CASE TaskStep
  <2>1. Quiet /\ UNCHANGED <<driveVars, out>>
    BY <1>10 DEF TaskStep
  <2>2. events' \in Seq(Event) /\ log' \in Seq(OutFrame) /\ nextRpc' \in Nat
    <3>1. \A e \in Event : FrameOf(e) \in OutFrame
      BY OneFrame
    <3>2. CASE UNCHANGED <<events, log, nextRpc>>
      BY <3>2
    <3>3. ASSUME NEW e \in Event, events' = Append(events, e), UNCHANGED <<log, nextRpc>>
          PROVE  events' \in Seq(Event) /\ log' \in Seq(OutFrame) /\ nextRpc' \in Nat
      BY <3>3
    <3>4. ASSUME NEW e \in Event, events' = Append(events, e), log' = Append(log, FrameOf(e)),
                 nextRpc' \in {nextRpc, nextRpc + 1}
          PROVE  events' \in Seq(Event) /\ log' \in Seq(OutFrame) /\ nextRpc' \in Nat
      BY <3>1, <3>4
    <3> QED BY <1>10, <3>2, <3>3, <3>4 DEF TaskStep
  <2> QED BY <2>1, <2>2 DEF Quiet
<1>11. CASE UNCHANGED vars
  BY <1>11 DEF vars
<1> QED BY Steps, <1>1, <1>2, <1>3, <1>4, <1>5, <1>6, <1>7, <1>8, <1>9, <1>10, <1>11

\* The types hold in every behaviour.
LEMMA TypesHold == Spec => []Types
<1>1. Init => Types
  BY DEF Init, Types, NoTurn
<1> QED BY <1>1, TypesStep, PTL DEF Spec

-----------------------------------------------------------------------------
(* Positions on stdin.                                                     *)

Increasing(q) == \A i, j \in DOMAIN q : i < j => q[i].at < q[j].at

\* The positions before every frame the dispatcher has not taken.
Past == {x \in Nat : /\ x <= sent
                     /\ \A i \in DOMAIN queue : x < queue[i].at
                     /\ \A i \in DOMAIN inbox : x < inbox[i].at}

\* Frames stay in the order the host wrote them; the prompt under way and what has
\* been written belong to frames already taken.
Positions ==
  /\ Increasing(queue) /\ Increasing(inbox)
  /\ \A i \in DOMAIN queue : \A j \in DOMAIN inbox : queue[i].at < inbox[j].at
  /\ \A i \in DOMAIN queue : queue[i].at <= sent
  /\ \A i \in DOMAIN inbox : inbox[i].at <= sent
  /\ cur.at \in Past
  /\ \A i \in DOMAIN out : out[i].at \in Past
  /\ pc = "drive" => \A i \in DOMAIN out : out[i].at <= cur.at

\* The frames' part of Positions.
InOrder ==
  /\ Increasing(queue) /\ Increasing(inbox)
  /\ \A i \in DOMAIN queue : \A j \in DOMAIN inbox : queue[i].at < inbox[j].at
  /\ \A i \in DOMAIN queue : queue[i].at <= sent
  /\ \A i \in DOMAIN inbox : inbox[i].at <= sent

\* A frame is written, routed, taken from the queue, answered by the router or none.
Moves ==
  \/ UNCHANGED <<hostVars, queue>>
  \/ HostStep
  \/ inbox # <<>> /\ inbox' = Tail(inbox) /\ UNCHANGED <<sent, queue>>
  \/ inbox # <<>> /\ inbox' = Tail(inbox) /\ queue' = Append(queue, Head(inbox)) /\ UNCHANGED sent
  \/ queue # <<>> /\ queue' = Tail(queue) /\ UNCHANGED hostVars

\* That keeps the order, and what was before the frames not taken still is.
LEMMA MovesKeepOrder ==
  ASSUME Types, InOrder, Moves
  PROVE  /\ InOrder'
         /\ Past \subseteq Past'
<1> USE DEF hostVars
<1>0. /\ \A i \in DOMAIN queue : queue[i].at \in Nat
      /\ \A i \in DOMAIN inbox : inbox[i].at \in Nat
  <2>1. /\ \A i \in DOMAIN queue : queue[i] \in Frame
        /\ \A i \in DOMAIN inbox : inbox[i] \in Frame
    BY DEF Types
  <2> QED BY <2>1, FrameFields
<1>1. CASE UNCHANGED <<hostVars, queue>>
  BY <1>1 DEF InOrder, Increasing, Past
<1>2. CASE HostStep
  <2>1. PICK f \in Frame : f.at = sent + 1 /\ inbox' = Append(inbox, f)
    BY <1>2 DEF HostStep
  <2>2. sent' = sent + 1 /\ queue' = queue /\ sent \in Nat
    BY <1>2 DEF HostStep, Types
  <2>3. /\ DOMAIN inbox = 1..Len(inbox) /\ DOMAIN inbox' = 1..(Len(inbox) + 1) /\ Len(inbox) \in Nat
        /\ \A i \in 1..Len(inbox) : inbox'[i] = inbox[i]
        /\ inbox'[Len(inbox) + 1] = f
        /\ \A i \in 1..(Len(inbox) + 1) : i \in 1..Len(inbox) \/ i = Len(inbox) + 1
    BY <2>1, Appended DEF Types
  <2>4. \A i \in DOMAIN inbox' : (i \in DOMAIN inbox /\ inbox'[i] = inbox[i])
                                 \/ (i = Len(inbox) + 1 /\ inbox'[i].at = sent + 1)
    BY <2>1, <2>3
  <2>5. Increasing(inbox)'
    <3> SUFFICES ASSUME NEW i \in DOMAIN inbox', NEW j \in DOMAIN inbox', i < j
                 PROVE  inbox'[i].at < inbox'[j].at
      BY DEF Increasing
    <3>1. i \in DOMAIN inbox /\ inbox'[i] = inbox[i] /\ inbox[i].at <= sent /\ inbox[i].at \in Nat
      BY <1>0, <2>3, <2>4 DEF InOrder
    <3>2. CASE j \in DOMAIN inbox /\ inbox'[j] = inbox[j]
      BY <3>1, <3>2 DEF InOrder, Increasing
    <3>3. CASE inbox'[j].at = sent + 1
      BY <2>2, <3>1, <3>3
    <3> QED BY <2>4, <3>2, <3>3
  <2>6. InOrder'
    BY <1>0, <2>2, <2>4, <2>5 DEF InOrder, Increasing
  <2>7. Past \subseteq Past'
    BY <1>0, <2>2, <2>4 DEF Past
  <2> QED BY <2>6, <2>7
<1>3. CASE inbox # <<>> /\ inbox' = Tail(inbox) /\ UNCHANGED <<sent, queue>>
  <2>1. \A i \in DOMAIN inbox' : i \in Int /\ i + 1 \in DOMAIN inbox /\ inbox'[i] = inbox[i + 1]
    BY <1>3, HeadTail DEF Types
  <2>2. InOrder'
    BY <1>3, <2>1 DEF InOrder, Increasing
  <2> QED BY <1>3, <2>1, <2>2 DEF Past
<1>4. CASE inbox # <<>> /\ inbox' = Tail(inbox) /\ queue' = Append(queue, Head(inbox)) /\ UNCHANGED sent
  <2>1. /\ \A i \in DOMAIN inbox' : i \in Int /\ i > 0 /\ i + 1 \in DOMAIN inbox /\ inbox'[i] = inbox[i + 1]
        /\ 1 \in DOMAIN inbox /\ Head(inbox) = inbox[1] /\ Head(inbox) \in Frame
    BY <1>4, HeadTail DEF Types
  <2>2. /\ DOMAIN queue = 1..Len(queue) /\ DOMAIN queue' = 1..(Len(queue) + 1) /\ Len(queue) \in Nat
        /\ \A i \in 1..Len(queue) : queue'[i] = queue[i]
        /\ queue'[Len(queue) + 1] = Head(inbox)
        /\ \A i \in 1..(Len(queue) + 1) : i \in 1..Len(queue) \/ i = Len(queue) + 1
    BY <1>4, <2>1, Appended DEF Types
  <2>3. \A i \in DOMAIN queue' : (i \in DOMAIN queue /\ queue'[i] = queue[i])
                                 \/ (i = Len(queue) + 1 /\ queue'[i] = inbox[1])
    BY <2>1, <2>2
  <2>4. \A i \in DOMAIN inbox' : inbox[1].at < inbox'[i].at
    BY <2>1 DEF InOrder, Increasing
  <2>5. Increasing(inbox)'
    BY <2>1 DEF InOrder, Increasing
  <2>6. Increasing(queue)'
    <3> SUFFICES ASSUME NEW i \in DOMAIN queue', NEW j \in DOMAIN queue', i < j
                 PROVE  queue'[i].at < queue'[j].at
      BY DEF Increasing
    <3>1. i \in DOMAIN queue /\ queue'[i] = queue[i]
      BY <2>2, <2>3
    <3>2. CASE j \in DOMAIN queue /\ queue'[j] = queue[j]
      BY <3>1, <3>2 DEF InOrder, Increasing
    <3>3. CASE queue'[j] = inbox[1]
      BY <2>1, <3>1, <3>3 DEF InOrder
    <3> QED BY <2>3, <3>2, <3>3
  <2>7. \A i \in DOMAIN queue' : \A j \in DOMAIN inbox' : queue'[i].at < inbox'[j].at
    BY <2>1, <2>3, <2>4 DEF InOrder
  <2>8. InOrder'
    BY <1>4, <2>1, <2>3, <2>5, <2>6, <2>7 DEF InOrder
  <2>9. Past \subseteq Past'
    BY <1>4, <2>1, <2>3 DEF Past
  <2> QED BY <2>8, <2>9
<1>5. CASE queue # <<>> /\ queue' = Tail(queue) /\ UNCHANGED hostVars
  <2>1. \A i \in DOMAIN queue' : i \in Int /\ i + 1 \in DOMAIN queue /\ queue'[i] = queue[i + 1]
    BY <1>5, HeadTail DEF Types
  <2>2. InOrder'
    BY <1>5, <2>1 DEF InOrder, Increasing
  <2> QED BY <1>5, <2>1, <2>2 DEF Past
<1> QED BY <1>1, <1>2, <1>3, <1>4, <1>5 DEF Moves

\* The head of the queue, once taken, is before the rest.
LEMMA TakenBefore ==
  ASSUME Types, InOrder, queue # <<>>, queue' = Tail(queue), UNCHANGED hostVars
  PROVE  /\ Head(queue).at \in Nat /\ Head(queue).at \in Past'
         /\ \A x \in Past : x < Head(queue).at
<1>1. /\ \A i \in DOMAIN queue' : i \in Int /\ i > 0 /\ i + 1 \in DOMAIN queue /\ queue'[i] = queue[i + 1]
      /\ 1 \in DOMAIN queue /\ Head(queue) = queue[1] /\ Head(queue) \in Frame
  BY HeadTail DEF Types
<1>2. \A i \in DOMAIN queue' : queue[1].at < queue'[i].at
  BY <1>1 DEF InOrder, Increasing
<1>3. Head(queue).at \in Nat
  BY <1>1, FrameFields
<1> QED BY <1>1, <1>2, <1>3 DEF InOrder, Past, hostVars

\* All steps move frames that way.
LEMMA AllMove ==
  ASSUME Types, [Next]_vars
  PROVE  Moves
<1> USE DEF Moves, hostVars
<1>1. CASE HostStep BY <1>1
<1>2. CASE RouteReply BY <1>2 DEF RouteReply, Routes
<1>3. CASE RouteRequest BY <1>3 DEF RouteRequest, Routes
<1>4. CASE RouteCancelLookup BY <1>4 DEF RouteCancelLookup
<1>5. CASE RouteCancelForward BY <1>5 DEF RouteCancelForward, Routes
<1>6. CASE DispatchNew \/ DispatchConfigOrLoad \/ DispatchCancel \/ DispatchIgnored \/ RejectPrompt
  BY <1>6, DispatchSteps DEF Takes
<1>7. CASE StartPrompt BY <1>7 DEF StartPrompt, Dispatches
<1>8. CASE WriteEvent BY <1>8 DEF WriteEvent
<1>9. CASE EndOfStream BY <1>9 DEF EndOfStream
<1>10. CASE TaskStep BY <1>10 DEF TaskStep, Quiet
<1>11. CASE UNCHANGED vars BY <1>11 DEF vars
<1> QED BY Steps, <1>1, <1>2, <1>3, <1>4, <1>5, <1>6, <1>7, <1>8, <1>9, <1>10, <1>11

\* Positions are in order in every behaviour.
LEMMA PositionsHold == Spec => []Positions
<1>1. Init => Positions
  <2> SUFFICES ASSUME Init PROVE Positions
    OBVIOUS
  <2>1. inbox = <<>> /\ queue = <<>> /\ out = <<>> /\ cur.at = 0 /\ sent = 0 /\ pc = "idle"
    BY DEF Init, NoTurn
  <2> QED BY <2>1 DEF Positions, Increasing, Past
<1>2. Types /\ Types' /\ Positions /\ [Next]_vars => Positions'
  <2> SUFFICES ASSUME Types, Types', Positions, [Next]_vars PROVE Positions'
    OBVIOUS
  <2>1. InOrder
    BY DEF Positions, InOrder
  <2>2. InOrder' /\ Past \subseteq Past'
    BY <2>1, AllMove, MovesKeepOrder
  <2> DEFINE Goal == /\ cur'.at \in Past'
                     /\ \A i \in DOMAIN out' : out'[i].at \in Past'
                     /\ pc' = "drive" => \A i \in DOMAIN out' : out'[i].at <= cur'.at
  <2>3. SUFFICES Goal
    BY <2>2 DEF Positions, InOrder
  <2>4. \A i \in DOMAIN out : out[i].at \in Nat /\ out[i].at \in Past'
    <3>1. \A i \in DOMAIN out : out[i] \in OutFrame
      BY DEF Types
    <3>2. \A f \in OutFrame : f.at \in Nat
      BY DEF OutFrame
    <3> QED BY <2>2, <3>1, <3>2 DEF Positions
  <2>5. cur.at \in Nat /\ cur.at \in Past'
    BY <2>2 DEF Types, Positions
  <2>6. CASE UNCHANGED <<out, cur, pc>>
    BY <2>4, <2>5, <2>6 DEF Positions
  <2>14. 0 \in Past'
    <3>1. /\ \A i \in DOMAIN queue' : queue'[i] \in Frame
          /\ \A i \in DOMAIN inbox' : inbox'[i] \in Frame
      BY DEF Types
    <3>2. /\ \A i \in DOMAIN queue' : queue'[i].at \in Nat
          /\ \A i \in DOMAIN inbox' : inbox'[i].at \in Nat
      BY <3>1, FrameFields
    <3>3. /\ cur.at \in Nat /\ sent' \in Nat /\ cur.at <= sent'
          /\ \A i \in DOMAIN queue' : cur.at < queue'[i].at
          /\ \A i \in DOMAIN inbox' : cur.at < inbox'[i].at
      BY <2>5 DEF Past, Types
    <3>4. /\ 0 <= sent'
          /\ \A i \in DOMAIN queue' : 0 < queue'[i].at
          /\ \A i \in DOMAIN inbox' : 0 < inbox'[i].at
      BY <3>2, <3>3
    <3> QED BY <3>4 DEF Past
  <2>7. CASE DispatchNew \/ DispatchConfigOrLoad \/ DispatchCancel \/ DispatchIgnored \/ RejectPrompt
    <3>1. Takes /\ UNCHANGED driveVars /\ (Answers \/ UNCHANGED out)
      BY <2>7, DispatchSteps
    <3>2. Head(queue).at \in Past' /\ Head(queue).at \in Nat
      BY <2>1, <3>1, TakenBefore DEF Takes
    <3>3. CASE Answers
      <4>1. PICK what \in Outcomes : out' = Append(out, Response(Head(queue).at, what))
        BY <3>3 DEF Answers
      <4> DEFINE f == Response(Head(queue).at, what)
      <4>2. f.at = Head(queue).at /\ f \in OutFrame
        BY <3>2 DEF Response, OutFrame
      <4> HIDE DEF f
      <4>3. \A i \in DOMAIN out' : (i \in DOMAIN out /\ out'[i] = out[i]) \/ out'[i] = f
        BY <4>1, <4>2, Appended DEF Types, f
      <4> QED BY <2>4, <2>5, <3>1, <3>2, <4>2, <4>3 DEF Takes, driveVars
    <3> QED BY <2>6, <3>1, <3>3 DEF driveVars
  <2>8. CASE StartPrompt
    <3>1. /\ queue # <<>> /\ queue' = Tail(queue) /\ UNCHANGED <<hostVars, out>>
          /\ cur'.at = Head(queue).at
      BY <2>8 DEF StartPrompt, Dispatches
    <3>2. /\ cur'.at \in Past'
          /\ \A i \in DOMAIN out : out[i].at < Head(queue).at /\ Head(queue).at \in Nat
      BY <2>1, <2>4, <3>1, TakenBefore DEF Positions
    <3> QED BY <2>4, <3>1, <3>2
  <2>9. ASSUME NEW f \in OutFrame, f.at = cur.at, out' = Append(out, f), pc = "drive",
               cur' = cur \/ (pc' = "idle" /\ cur'.at = 0)
        PROVE  Goal
    <3>1. \A i \in DOMAIN out' : (i \in DOMAIN out /\ out'[i] = out[i]) \/ out'[i] = f
      BY <2>9, Appended DEF Types
    <3>3. cur'.at \in Past'
      BY <2>5, <2>9, <2>14
    <3> QED BY <2>4, <2>5, <2>9, <3>1, <3>3 DEF Positions
  <2>10. CASE WriteEvent
    <3>1. events # <<>> /\ pc = "drive" /\ cur' = cur /\ pc' = pc
      BY <2>10 DEF WriteEvent
    <3>2. Head(events) \in Event
      BY <3>1, HeadTail DEF Types
    <3> DEFINE f == FrameOf(Head(events))
    <3>3. FramesOf(Head(events)) = {f} /\ f \in OutFrame /\ f.at = cur.at
      BY <2>5, <3>2, OneFrame
    <3>4. out' = Append(out, f)
      BY <2>10, <3>3 DEF WriteEvent
    <3> HIDE DEF f
    <3> QED BY <2>9, <3>1, <3>3, <3>4
  <2>11. CASE EndOfStream
    <3>1. pc = "drive" /\ pc' = "idle" /\ cur'.at = 0
      BY <2>11 DEF EndOfStream, NoTurn
    <3>2. CASE out' = Append(out, Response(cur.at, "error"))
      <4> DEFINE f == Response(cur.at, "error")
      <4>1. f \in OutFrame /\ f.at = cur.at
        BY <2>5 DEF Response, OutFrame, Outcomes
      <4> HIDE DEF f
      <4> QED BY <2>9, <3>1, <3>2, <4>1 DEF f
    <3>3. CASE out' = out
      <4>1. cur'.at \in Past'
        BY <2>14, <3>1
      <4> QED BY <2>4, <3>1, <3>3, <4>1
    <3> QED BY <2>11, <3>2, <3>3 DEF EndOfStream
  <2>12. CASE HostStep \/ RouteReply \/ RouteRequest \/ RouteCancelLookup \/ RouteCancelForward
    BY <2>6, <2>12 DEF HostStep, RouteReply, RouteRequest, RouteCancelLookup, RouteCancelForward,
       driveVars
  <2>13. CASE TaskStep \/ UNCHANGED vars
    BY <2>6, <2>13 DEF TaskStep, vars, driveVars
  <2> QED BY Steps, <2>7, <2>8, <2>10, <2>11, <2>12, <2>13
<1> QED BY <1>1, <1>2, TypesHold, PTL DEF Spec

-----------------------------------------------------------------------------
(* Cancels.                                                                *)

Cancels(f, s) == f.kind = "cancel" /\ f.sid = s

\* A session that still exists under a cancelled token has its cancel in the queue:
\* the dispatcher will take it, and close the session, before any later prompt.
ScopeInv ==
  /\ cancelTokens = sessions /\ sessions \subseteq minted /\ tripped \subseteq minted
  /\ ~connector => sessions = {}
  /\ \A s \in held : s \in minted /\ inbox # <<>> /\ Cancels(Head(inbox), s)
  /\ \A i \in DOMAIN queue :
       queue[i].kind = "cancel" => lastCancel[queue[i].sid] >= queue[i].at
  /\ \A s \in sessions \cap tripped : \E i \in DOMAIN queue : Cancels(queue[i], s)

\* That invariant is inductive.
LEMMA ScopeHolds == Spec => []ScopeInv
<1>1. Init => ScopeInv
  BY DEF Init, ScopeInv
<1>2. Types /\ Types' /\ Positions /\ ScopeInv /\ [Next]_vars => ScopeInv'
  <2> SUFFICES ASSUME Types, Types', Positions, ScopeInv, [Next]_vars PROVE ScopeInv'
    OBVIOUS
  <2> USE DEF hostVars, routerVars, tableVars
  <2>1. CASE UNCHANGED <<hostVars, routerVars, queue, tableVars, tripped>>
    BY <2>1 DEF ScopeInv
  <2>2. CASE HostStep
    <3>1. UNCHANGED <<routerVars, queue, tableVars, tripped>>
      BY <2>2 DEF HostStep
    <3>2. inbox # <<>> => inbox' # <<>> /\ Head(inbox') = Head(inbox)
      <4>1. PICK f \in Frame : inbox' = Append(inbox, f)
        BY <2>2 DEF HostStep
      <4>2. inbox \in Seq(Frame)
        BY DEF Types
      <4>3. inbox # <<>> => 1 \in 1..Len(inbox) /\ Head(inbox) = inbox[1]
        BY <4>2
      <4>4. inbox' # <<>> /\ Head(inbox') = inbox'[1]
        <5>1. inbox' \in Seq(Frame) /\ Len(inbox') = Len(inbox) + 1 /\ Len(inbox) \in Nat
          BY <4>1, <4>2, Appended
        <5> QED BY <5>1
      <4>5. \A i \in 1..Len(inbox) : inbox'[i] = inbox[i]
        BY <4>1, <4>2, Appended
      <4> QED BY <4>3, <4>4, <4>5
    <3> QED BY <3>1, <3>2 DEF ScopeInv
  <2>3. CASE RouteReply
    <3>1. Head(inbox).kind = "reply" /\ UNCHANGED <<routerVars, queue, tableVars, tripped>>
      BY <2>3 DEF RouteReply, Routes
    <3>2. held = {}
      BY <3>1 DEF ScopeInv, Cancels
    <3> QED BY <3>1, <3>2 DEF ScopeInv
  <2>4. CASE RouteRequest
    <3>1. /\ Head(inbox).kind # "cancel" /\ inbox # <<>> /\ queue' = Append(queue, Head(inbox))
          /\ UNCHANGED <<routerVars, tableVars, tripped>>
      BY <2>4 DEF RouteRequest, Routes, SessionKinds, OtherKinds
    <3>2. held = {}
      BY <3>1 DEF ScopeInv, Cancels
    <3>3. Head(inbox) \in Frame
      BY <3>1, HeadTail DEF Types
    <3>4. /\ DOMAIN queue = 1..Len(queue) /\ DOMAIN queue' = 1..(Len(queue) + 1)
          /\ Len(queue) \in Nat
          /\ \A i \in 1..Len(queue) : queue'[i] = queue[i]
          /\ queue'[Len(queue) + 1] = Head(inbox)
          /\ \A i \in 1..(Len(queue) + 1) : i \in 1..Len(queue) \/ i = Len(queue) + 1
      BY <3>1, <3>3, Appended DEF Types
    <3>5. \A i \in DOMAIN queue : i \in DOMAIN queue' /\ queue'[i] = queue[i]
      BY <3>4
    <3>6. \A i \in DOMAIN queue' : queue'[i].kind = "cancel" =>
            i \in DOMAIN queue /\ queue'[i] = queue[i]
      BY <3>1, <3>4
    <3>7. \A i \in DOMAIN queue' :
            queue'[i].kind = "cancel" => lastCancel'[queue'[i].sid] >= queue'[i].at
      BY <3>1, <3>6 DEF ScopeInv
    <3>8. \A s \in sessions' \cap tripped' : \E i \in DOMAIN queue' : Cancels(queue'[i], s)
      BY <3>1, <3>5 DEF ScopeInv
    <3> QED BY <3>1, <3>2, <3>7, <3>8 DEF ScopeInv
  <2>5. CASE RouteCancelLookup
    <3>1. /\ inbox # <<>> /\ Head(inbox).kind = "cancel" /\ held' \subseteq {Head(inbox).sid}
          /\ held' \subseteq cancelTokens
          /\ UNCHANGED <<hostVars, lastCancel, queue, tableVars, tripped>>
      BY <2>5 DEF RouteCancelLookup, Routes
    <3> QED BY <3>1 DEF ScopeInv, Cancels
  <2>6. CASE RouteCancelForward
    <3> DEFINE h == Head(inbox)
    <3>1. /\ h.kind = "cancel" /\ inbox # <<>> /\ queue' = Append(queue, h)
          /\ tripped' = tripped \cup held /\ held' = {}
          /\ lastCancel' = [lastCancel EXCEPT ![h.sid] = h.at]
          /\ UNCHANGED tableVars
      BY <2>6 DEF RouteCancelForward, Routes
    <3>2. h \in Frame /\ h = inbox[1] /\ 1 \in DOMAIN inbox
      BY <3>1, HeadTail DEF Types
    <3>3. h.at \in Nat /\ h.sid \in Sid
      BY <3>1, <3>2, FrameFields DEF SessionKinds
    <3>4. \A i \in DOMAIN queue : /\ queue[i].at \in Nat /\ queue[i].at <= h.at
                                  /\ queue[i].kind = "cancel" => queue[i].sid \in Sid
      <4>1. \A i \in DOMAIN queue : queue[i] \in Frame
        BY DEF Types
      <4>2. \A i \in DOMAIN queue : queue[i].at < h.at
        BY <3>2 DEF Positions
      <4> HIDE DEF h
      <4> QED BY <3>3, <4>1, <4>2, FrameFields DEF SessionKinds
    <3>5. \A s \in held : Cancels(h, s) /\ s \in minted
      BY DEF ScopeInv
    <3> HIDE DEF h
    <3>6. /\ DOMAIN queue = 1..Len(queue) /\ DOMAIN queue' = 1..(Len(queue) + 1)
          /\ Len(queue) \in Nat
          /\ \A i \in 1..Len(queue) : queue'[i] = queue[i]
          /\ queue'[Len(queue) + 1] = h
          /\ \A i \in 1..(Len(queue) + 1) : i \in 1..Len(queue) \/ i = Len(queue) + 1
      BY <3>1, <3>2, Appended DEF Types
    <3>7. /\ \A i \in DOMAIN queue : i \in DOMAIN queue' /\ queue'[i] = queue[i]
          /\ \E i \in DOMAIN queue' : queue'[i] = h
          /\ \A i \in DOMAIN queue' : queue'[i] = h \/ (i \in DOMAIN queue /\ queue'[i] = queue[i])
      <4>1. Len(queue) + 1 \in DOMAIN queue'
        BY <3>6
      <4> QED BY <3>6, <4>1
    <3>8. \A s \in Sid : lastCancel'[s] = IF s = h.sid THEN h.at ELSE lastCancel[s]
      BY <3>1, <3>3 DEF Types
    <3>9. \A i \in DOMAIN queue' :
            queue'[i].kind = "cancel" => lastCancel'[queue'[i].sid] >= queue'[i].at
      <4> SUFFICES ASSUME NEW i \in DOMAIN queue', queue'[i].kind = "cancel"
                   PROVE  lastCancel'[queue'[i].sid] >= queue'[i].at
        OBVIOUS
      <4>1. CASE queue'[i] = h
        BY <3>3, <3>8, <4>1
      <4>2. CASE i \in DOMAIN queue /\ queue'[i] = queue[i]
        <5>1. lastCancel[queue[i].sid] >= queue[i].at /\ queue[i].sid \in Sid /\ queue[i].at <= h.at
              /\ queue[i].at \in Nat
          BY <3>4, <4>2 DEF ScopeInv
        <5> QED BY <3>3, <3>8, <4>2, <5>1
      <4> QED BY <3>7, <4>1, <4>2
    <3>10. \A s \in sessions' \cap tripped' : \E i \in DOMAIN queue' : Cancels(queue'[i], s)
      BY <3>1, <3>5, <3>7 DEF ScopeInv
    <3> QED BY <3>1, <3>5, <3>9, <3>10 DEF ScopeInv
  <2>7. ASSUME queue # <<>>, queue' = Tail(queue)
        PROVE  /\ \A i \in DOMAIN queue' : \E j \in DOMAIN queue : queue'[i] = queue[j]
               /\ \A i \in DOMAIN queue :
                    queue[i] = Head(queue) \/ \E j \in DOMAIN queue' : queue'[j] = queue[i]
    BY <2>7, HeadTail DEF Types
  <2>8. CASE StartPrompt
    <3>1. /\ queue # <<>> /\ queue' = Tail(queue) /\ Head(queue).kind = "prompt"
          /\ UNCHANGED <<hostVars, routerVars, tableVars, tripped>>
      BY <2>8 DEF StartPrompt, Dispatches
    <3>2. \A i \in DOMAIN queue : queue[i].kind = "cancel" =>
            \E j \in DOMAIN queue' : queue'[j] = queue[i]
      BY <2>7, <3>1
    <3> QED BY <2>7, <3>1, <3>2 DEF ScopeInv, Cancels
  <2>9. CASE DispatchNew \/ DispatchConfigOrLoad \/ DispatchCancel \/ DispatchIgnored \/ RejectPrompt
    <3>1. queue # <<>> /\ queue' = Tail(queue) /\ UNCHANGED <<hostVars, routerVars>>
      BY <2>9, DispatchSteps DEF Takes
    <3>2. CASE Head(queue).kind # "cancel" /\ UNCHANGED <<tripped, tableVars>>
      <4>1. \A i \in DOMAIN queue : queue[i].kind = "cancel" =>
              \E j \in DOMAIN queue' : queue'[j] = queue[i]
        BY <2>7, <3>1, <3>2
      <4> QED BY <2>7, <3>1, <3>2, <4>1 DEF ScopeInv, Cancels
    <3>3. CASE DispatchNew
      <4>1. PICK s \in Sid : /\ s \notin minted /\ sessions' = sessions \cup {s}
                             /\ cancelTokens' = cancelTokens \cup {s}
                             /\ minted' = minted \cup {s}
        BY <3>3 DEF DispatchNew, start_session
      <4>2. Head(queue).kind = "new" /\ tripped' = tripped /\ connector' = TRUE
        BY <3>3 DEF DispatchNew, Dispatches
      <4>3. \A i \in DOMAIN queue : queue[i].kind = "cancel" =>
              \E j \in DOMAIN queue' : queue'[j] = queue[i]
        BY <2>7, <3>1, <4>2
      <4>4. sessions' \cap tripped' \subseteq sessions \cap tripped
        BY <4>1, <4>2 DEF ScopeInv
      <4>5. \A r \in sessions' \cap tripped' : \E i \in DOMAIN queue' : Cancels(queue'[i], r)
        BY <4>3, <4>4 DEF ScopeInv, Cancels
      <4>6. \A i \in DOMAIN queue' :
              queue'[i].kind = "cancel" => lastCancel'[queue'[i].sid] >= queue'[i].at
        BY <2>7, <3>1 DEF ScopeInv
      <4> QED BY <3>1, <4>1, <4>2, <4>5, <4>6 DEF ScopeInv
    <3>4. CASE DispatchCancel
      <4> DEFINE s == Head(queue).sid
      <4>1. /\ minted' = minted /\ connector' = connector
            /\ IF connector
               THEN /\ tripped' = tripped \cup ({s} \cap cancelTokens)
                    /\ sessions' = sessions \ {s} /\ cancelTokens' = cancelTokens \ {s}
               ELSE UNCHANGED <<tripped, sessions, cancelTokens>>
        BY <3>4 DEF DispatchCancel, close_session
      <4>2. sessions' \cap tripped' \subseteq sessions \cap tripped /\ s \notin sessions'
        BY <4>1 DEF ScopeInv
      <4>3. \A r \in sessions' \cap tripped' : \E i \in DOMAIN queue' : Cancels(queue'[i], r)
        BY <2>7, <3>1, <4>2 DEF ScopeInv, Cancels
      <4>4. \A i \in DOMAIN queue' :
              queue'[i].kind = "cancel" => lastCancel'[queue'[i].sid] >= queue'[i].at
        BY <2>7, <3>1 DEF ScopeInv
      <4>5. cancelTokens' = sessions' /\ sessions' \subseteq minted' /\ tripped' \subseteq minted'
            /\ (~connector' => sessions' = {})
        BY <4>1 DEF ScopeInv
      <4> QED BY <3>1, <4>1, <4>3, <4>4, <4>5 DEF ScopeInv
    <3> QED BY <2>9, <3>2, <3>3, <3>4, DispatchSteps
  <2>10. CASE WriteEvent \/ EndOfStream \/ TaskStep \/ UNCHANGED vars
    BY <2>1, <2>10 DEF WriteEvent, EndOfStream, TaskStep, Quiet, vars
  <2> QED BY Steps, <2>2, <2>3, <2>4, <2>5, <2>6, <2>8, <2>9, <2>10
<1> QED BY <1>1, <1>2, TypesHold, PositionsHold, PTL DEF Spec

\* On the connector path a cancel reaches the turn under way or none: a turn runs under
\* a cancelled token only if the cancel was written after its prompt.
THEOREM CancelsAreScoped == Spec => []CancelScope
<1>1. Types /\ Positions /\ ScopeInv => CancelScope
  <2> SUFFICES ASSUME Types, Positions, ScopeInv, cur.sid \in tripped, cur.sid \in sessions
               PROVE  lastCancel[cur.sid] > cur.at
    BY DEF CancelScope, Cancelled
  <2>1. PICK i \in DOMAIN queue : Cancels(queue[i], cur.sid)
    BY DEF ScopeInv
  <2>2. lastCancel[cur.sid] >= queue[i].at
    BY <2>1 DEF ScopeInv, Cancels
  <2>3. queue[i].at > cur.at /\ queue[i].at \in Nat
    <3>1. queue[i] \in Frame
      BY DEF Types
    <3> QED BY <3>1, FrameFields DEF Positions, Past
  <2>4. cur.at \in Nat /\ lastCancel[cur.sid] \in Nat
    BY DEF Types
  <2> QED BY <2>2, <2>3, <2>4
<1> QED BY <1>1, TypesHold, PositionsHold, ScopeHolds, PTL
-----------------------------------------------------------------------------
(* Counting frames that are no responses.                                  *)

\* The sequence shows exactly what the log holds.
Faithful(frames, l) ==
  /\ Emitted(frames, Len(frames)) = Len(l)
  /\ \A i \in DOMAIN frames :
       frames[i].kind # "response" => frames[i] = l[Emitted(frames, i)]

\* The count is at most the count of a longer prefix, and positive at such a frame.
LEMMA EmittedBounds ==
  ASSUME NEW w, NEW n \in Nat, NEW i \in 1..n
  PROVE  /\ Emitted(w, i) \in Nat /\ Emitted(w, n) \in Nat /\ Emitted(w, i) <= Emitted(w, n)
         /\ w[i].kind # "response" => Emitted(w, i) >= 1
<1> DEFINE A == {j \in 1..i : w[j].kind # "response"}
           B == {j \in 1..n : w[j].kind # "response"}
<1>1. IsFiniteSet(1..n)
  BY FS_Interval
<1>2. B \in SUBSET (1..n) /\ A \in SUBSET B
  OBVIOUS
<1>3. IsFiniteSet(B)
  BY <1>1, <1>2, FS_Subset
<1>4. IsFiniteSet(A) /\ Cardinality(A) <= Cardinality(B)
  BY <1>2, <1>3, FS_Subset
<1>5. Cardinality(A) \in Nat /\ Cardinality(B) \in Nat
  BY <1>3, <1>4, FS_CardinalityType
<1>6. w[i].kind # "response" => Cardinality(A) >= 1
  <2>1. w[i].kind # "response" => A # {}
    OBVIOUS
  <2>2. Cardinality(A) = 0 <=> A = {}
    BY <1>4, FS_EmptySet
  <2> QED BY <1>5, <2>1, <2>2
<1> QED BY <1>4, <1>5, <1>6 DEF Emitted

\* One more frame counts unless it is a response, and changes no earlier count.
LEMMA EmittedAppend ==
  ASSUME NEW w \in Seq(OutFrame), NEW f \in OutFrame
  PROVE  /\ \A i \in 1..Len(w) : Emitted(Append(w, f), i) = Emitted(w, i)
         /\ Emitted(w, Len(w)) \in Nat
         /\ Emitted(Append(w, f), Len(w) + 1)
              = IF f.kind = "response" THEN Emitted(w, Len(w)) ELSE Emitted(w, Len(w)) + 1
<1> DEFINE v == Append(w, f)
           n == Len(w)
           A == {j \in 1..n : w[j].kind # "response"}
           B == {j \in 1..(n + 1) : v[j].kind # "response"}
<1>1. /\ n \in Nat /\ \A i \in 1..n : v[i] = w[i]
      /\ v[n + 1] = f /\ \A i \in 1..(n + 1) : i \in 1..n \/ i = n + 1
  BY Appended
<1> HIDE DEF v, n
<1>2. \A i \in 1..n : Emitted(v, i) = Emitted(w, i)
  <2> SUFFICES ASSUME NEW i \in 1..n PROVE Emitted(v, i) = Emitted(w, i)
    OBVIOUS
  <2>1. \A j \in 1..i : v[j] = w[j]
    BY <1>1
  <2>2. {j \in 1..i : v[j].kind # "response"} = {j \in 1..i : w[j].kind # "response"}
    BY <2>1
  <2> QED BY <2>2 DEF Emitted
<1>3. IsFiniteSet(A)
  <2>1. IsFiniteSet(1..n) /\ A \in SUBSET (1..n)
    BY <1>1, FS_Interval
  <2> QED BY <2>1, FS_Subset
<1>4. Cardinality(A) \in Nat /\ n + 1 \notin A
  BY <1>1, <1>3, FS_CardinalityType
<1>5. CASE f.kind = "response"
  <2>1. B = A
    BY <1>1, <1>5
  <2> QED BY <1>2, <1>4, <1>5, <2>1 DEF Emitted, v, n
<1>6. CASE f.kind # "response"
  <2>1. B = A \cup {n + 1}
    BY <1>1, <1>6
  <2>2. Cardinality(B) = Cardinality(A) + 1
    BY <1>3, <1>4, <2>1, FS_AddElement
  <2> QED BY <1>2, <1>4, <1>6, <2>2 DEF Emitted, v, n
<1> QED BY <1>5, <1>6

\* A response at the end shows nothing new.
LEMMA FaithfulResponse ==
  ASSUME NEW w \in Seq(OutFrame), NEW l, Faithful(w, l),
         NEW f \in OutFrame, f.kind = "response"
  PROVE  Faithful(Append(w, f), l)
<1>1. /\ Len(Append(w, f)) = Len(w) + 1 /\ DOMAIN w = 1..Len(w)
      /\ \A i \in DOMAIN Append(w, f) : (i \in DOMAIN w /\ Append(w, f)[i] = w[i])
                                        \/ Append(w, f)[i] = f
  BY Appended
<1> QED BY <1>1, EmittedAppend DEF Faithful

\* Any other frame shows the entry that joins the log with it.
LEMMA FaithfulEmit ==
  ASSUME NEW w \in Seq(OutFrame), NEW l \in Seq(OutFrame), Faithful(w, l),
         NEW f \in OutFrame, f.kind # "response"
  PROVE  Faithful(Append(w, f), Append(l, f))
<1> DEFINE v == Append(w, f)
           m == Append(l, f)
<1>1. /\ Len(v) = Len(w) + 1 /\ DOMAIN w = 1..Len(w) /\ Len(w) \in Nat
      /\ \A i \in DOMAIN v : (i \in DOMAIN w /\ v[i] = w[i]) \/ (i = Len(w) + 1 /\ v[i] = f)
  BY Appended
<1>2. /\ Len(m) = Len(l) + 1 /\ Len(l) \in Nat /\ \A i \in 1..Len(l) : m[i] = l[i]
      /\ m[Len(l) + 1] = f
  BY Appended
<1>3. /\ \A i \in 1..Len(w) : Emitted(v, i) = Emitted(w, i)
      /\ Emitted(v, Len(w) + 1) = Len(l) + 1
  BY EmittedAppend DEF Faithful
<1>4. ASSUME NEW i \in DOMAIN w, w[i].kind # "response"
      PROVE  w[i] = l[Emitted(w, i)] /\ Emitted(w, i) \in 1..Len(l)
  BY <1>1, <1>4, EmittedBounds DEF Faithful
<1> HIDE DEF v, m
<1>5. ASSUME NEW i \in DOMAIN v, v[i].kind # "response"
      PROVE  v[i] = m[Emitted(v, i)]
  BY <1>1, <1>2, <1>3, <1>4, <1>5
<1> QED BY <1>1, <1>2, <1>3, <1>5 DEF Faithful, v, m

-----------------------------------------------------------------------------
(* The wire.                                                               *)

\* What would be on stdout if the dispatcher wrote the events `es` after `o`.
WireOf(o, es) == o \o [i \in DOMAIN es |-> FrameOf(es[i])]

\* Its elements.
LEMMA WireElements ==
  ASSUME cur.at \in Nat, NEW o \in Seq(OutFrame), NEW es \in Seq(Event)
  PROVE  /\ WireOf(o, es) \in Seq(OutFrame) /\ Len(WireOf(o, es)) = Len(o) + Len(es)
         /\ Len(o) \in Nat /\ Len(es) \in Nat
         /\ \A i \in 1..(Len(o) + Len(es)) :
              WireOf(o, es)[i] = IF i <= Len(o) THEN o[i] ELSE FrameOf(es[i - Len(o)])
<1> DEFINE fs == [i \in DOMAIN es |-> FrameOf(es[i])]
<1>1. \A i \in DOMAIN es : FrameOf(es[i]) \in OutFrame
  BY OneFrame
<1>2. DOMAIN es = 1..Len(es) /\ Len(es) \in Nat /\ Len(o) \in Nat
  OBVIOUS
<1>3. fs \in Seq(OutFrame) /\ Len(fs) = Len(es) /\ \A i \in 1..Len(es) : fs[i] = FrameOf(es[i])
  BY <1>1, <1>2
<1> HIDE DEF fs
<1> QED BY <1>2, <1>3, ConcatProperties DEF WireOf, fs

\* No event: stdout itself.  One more: one more frame.  One written: no change.
LEMMA WireSteps ==
  ASSUME cur.at \in Nat, NEW o \in Seq(OutFrame), NEW es \in Seq(Event)
  PROVE  /\ es = <<>> => WireOf(o, es) = o
         /\ \A e \in Event : WireOf(o, Append(es, e)) = Append(WireOf(o, es), FrameOf(e))
         /\ es # <<>> => WireOf(Append(o, FrameOf(Head(es))), Tail(es)) = WireOf(o, es)
<1> DEFINE w == WireOf(o, es)
<1>0. /\ w \in Seq(OutFrame) /\ Len(w) = Len(o) + Len(es)
      /\ Len(o) \in Nat /\ Len(es) \in Nat
      /\ \A i \in 1..(Len(o) + Len(es)) :
           w[i] = IF i <= Len(o) THEN o[i] ELSE FrameOf(es[i - Len(o)])
  BY WireElements
<1> HIDE DEF w
<1>1. ASSUME es = <<>> PROVE w = o
  <2>1. Len(es) = 0
    BY <1>1
  <2>2. Len(w) = Len(o) /\ \A i \in 1..Len(w) : w[i] = o[i]
    BY <1>0, <2>1
  <2> QED BY <1>0, <2>2, SeqEqual
<1>2. ASSUME NEW e \in Event PROVE WireOf(o, Append(es, e)) = Append(w, FrameOf(e))
  <2> DEFINE a == WireOf(o, Append(es, e))
             b == Append(w, FrameOf(e))
  <2>1. /\ Append(es, e) \in Seq(Event) /\ Len(Append(es, e)) = Len(es) + 1
        /\ \A i \in 1..Len(es) : Append(es, e)[i] = es[i]
        /\ Append(es, e)[Len(es) + 1] = e
    BY Appended
  <2>2. /\ a \in Seq(OutFrame) /\ Len(a) = Len(o) + (Len(es) + 1)
        /\ \A i \in 1..(Len(o) + (Len(es) + 1)) :
             a[i] = IF i <= Len(o) THEN o[i] ELSE FrameOf(Append(es, e)[i - Len(o)])
    BY <2>1, WireElements
  <2>3. /\ b \in Seq(OutFrame) /\ Len(b) = Len(w) + 1
        /\ \A i \in 1..Len(w) : b[i] = w[i]
        /\ b[Len(w) + 1] = FrameOf(e)
    BY <1>0, OneFrame, Appended
  <2> HIDE DEF a, b
  <2>4. ASSUME NEW i \in 1..Len(a) PROVE a[i] = b[i]
    <3>1. CASE i = Len(w) + 1
      <4>1. i - Len(o) = Len(es) + 1 /\ ~(i <= Len(o))
        BY <1>0, <3>1
      <4> QED BY <1>0, <2>1, <2>2, <2>3, <3>1, <4>1
    <3>2. CASE i \in 1..Len(o)
      <4>1. i <= Len(o) /\ i \in 1..Len(w) /\ i \in 1..(Len(o) + (Len(es) + 1))
              /\ i \in 1..(Len(o) + Len(es))
        BY <1>0, <3>2
      <4>2. a[i] = o[i]
        BY <2>2, <4>1
      <4>3. b[i] = w[i] /\ w[i] = o[i]
        BY <1>0, <2>3, <4>1
      <4> QED BY <4>2, <4>3
    <3>3. CASE i \in (Len(o) + 1)..Len(w)
      <4>1. i - Len(o) \in 1..Len(es) /\ ~(i <= Len(o)) /\ i \in 1..Len(w)
        BY <1>0, <3>3
      <4> QED BY <1>0, <2>1, <2>2, <2>3, <4>1
    <3> QED BY <1>0, <2>2, <3>1, <3>2, <3>3
  <2>5. a \in Seq(OutFrame) /\ b \in Seq(OutFrame) /\ Len(a) = Len(b)
    BY <1>0, <2>2, <2>3
  <2>6. a = b
    BY <2>4, <2>5, SeqEqual
  <2> QED BY <2>6 DEF a, b
<1>3. ASSUME es # <<>> PROVE WireOf(Append(o, FrameOf(Head(es))), Tail(es)) = w
  <2> DEFINE p == Append(o, FrameOf(Head(es)))
             a == WireOf(p, Tail(es))
  <2>1. /\ Head(es) \in Event /\ Head(es) = es[1] /\ Tail(es) \in Seq(Event)
        /\ Len(Tail(es)) = Len(es) - 1 /\ Len(es) > 0
        /\ \A i \in 1..(Len(es) - 1) : Tail(es)[i] = es[i + 1]
    BY <1>3, HeadTail
  <2>2. /\ p \in Seq(OutFrame) /\ Len(p) = Len(o) + 1
        /\ \A i \in 1..Len(o) : p[i] = o[i]
        /\ p[Len(o) + 1] = FrameOf(es[1])
    BY <2>1, OneFrame, Appended
  <2> HIDE DEF p
  <2>3. /\ a \in Seq(OutFrame) /\ Len(a) = Len(p) + Len(Tail(es))
        /\ \A i \in 1..(Len(p) + Len(Tail(es))) :
             a[i] = IF i <= Len(p) THEN p[i] ELSE FrameOf(Tail(es)[i - Len(p)])
    BY <2>1, <2>2, WireElements
  <2> HIDE DEF a
  <2>4. Len(a) = Len(w)
    BY <1>0, <2>1, <2>2, <2>3
  <2>5. ASSUME NEW i \in 1..Len(a) PROVE a[i] = w[i]
    <3>1. CASE i \in 1..Len(o)
      <4>1. i <= Len(o) /\ i <= Len(p) /\ i \in 1..(Len(o) + Len(es)) /\ i \in 1..Len(a)
        BY <1>0, <2>1, <2>2, <3>1
      <4>2. a[i] = p[i]
        BY <2>3, <4>1
      <4>3. p[i] = o[i] /\ w[i] = o[i]
        BY <1>0, <2>2, <3>1, <4>1
      <4> QED BY <4>2, <4>3
    <3>2. CASE i = Len(o) + 1
      <4>1. i - Len(o) = 1 /\ ~(i <= Len(o)) /\ i <= Len(p)
        BY <1>0, <2>2, <3>2
      <4> QED BY <1>0, <2>1, <2>2, <2>3, <2>4, <3>2, <4>1
    <3>3. CASE i \in (Len(o) + 2)..Len(w)
      <4>1. /\ ~(i <= Len(o)) /\ ~(i <= Len(p)) /\ i - Len(p) \in 1..(Len(es) - 1)
            /\ (i - Len(p)) + 1 = i - Len(o)
        BY <1>0, <2>1, <2>2, <3>3
      <4>2. a[i] = FrameOf(Tail(es)[i - Len(p)]) /\ w[i] = FrameOf(es[i - Len(o)])
        BY <1>0, <2>3, <2>4, <4>1
      <4> QED BY <2>1, <4>1, <4>2
    <3> QED BY <1>0, <2>4, <3>1, <3>2, <3>3
  <2>6. a = w
    BY <1>0, <2>3, <2>4, <2>5, SeqEqual
  <2> QED BY <2>6 DEF a, p
<1> QED BY <1>1, <1>2, <1>3 DEF w

\* A step that keeps the prompt keeps what each event becomes.
LEMMA WireAfter ==
  /\ Wire = WireOf(out, events)
  /\ cur' = cur => Wire' = WireOf(out', events')
<1>1. ASSUME cur' = cur PROVE Wire' = WireOf(out', events')
  BY <1>1 DEF Wire, WireOf, FrameOf, FramesOf
<1> QED BY <1>1 DEF Wire, WireOf

\* Without events the wire is stdout, before a step or after it.
LEMMA WireIdle ==
  /\ out \in Seq(OutFrame) /\ events = <<>> => Wire = out
  /\ out' \in Seq(OutFrame) /\ events' = <<>> => Wire' = out'
<1>1. ASSUME out \in Seq(OutFrame), events = <<>> PROVE Wire = out
  <2>1. [i \in DOMAIN events |-> FrameOf(events[i])] = <<>>
    BY <1>1
  <2> QED BY <1>1, <2>1, ConcatEmptySeq DEF Wire
<1>2. ASSUME out' \in Seq(OutFrame), events' = <<>> PROVE Wire' = out'
  <2>1. [i \in DOMAIN events |-> FrameOf(events[i])]' = <<>>
    BY <1>2
  <2> QED BY <1>2, <2>1, ConcatEmptySeq DEF Wire
<1> QED BY <1>1, <1>2
-----------------------------------------------------------------------------
(* Order on stdout.                                                        *)

\* Frames of an earlier request come first, and a response is the last of its own.
Serial(o) ==
  \A i, j \in DOMAIN o : i < j =>
    \/ o[i].at < o[j].at
    \/ o[i].at = o[j].at /\ o[i].kind # "response"

\* Such a sequence goes on with a frame of the same request, unanswered so far, or of a
\* later one.
LEMMA SerialAppend ==
  ASSUME NEW o \in Seq(OutFrame), Serial(o), NEW f \in OutFrame,
         \A i \in DOMAIN o : o[i].at < f.at \/ (o[i].at = f.at /\ o[i].kind # "response")
  PROVE  Serial(Append(o, f))
<1>1. /\ DOMAIN o = 1..Len(o) /\ DOMAIN Append(o, f) = 1..(Len(o) + 1) /\ Len(o) \in Nat
      /\ \A i \in DOMAIN Append(o, f) : (i \in DOMAIN o /\ Append(o, f)[i] = o[i])
                                        \/ (i = Len(o) + 1 /\ Append(o, f)[i] = f)
  BY Appended
<1> DEFINE p == Append(o, f)
<1> HIDE DEF p
<1>2. ASSUME NEW i \in DOMAIN p, NEW j \in DOMAIN p, i < j
      PROVE  p[i].at < p[j].at \/ (p[i].at = p[j].at /\ p[i].kind # "response")
  <2>1. i \in DOMAIN o /\ p[i] = o[i]
    BY <1>1, <1>2 DEF p
  <2>2. CASE j \in DOMAIN o /\ p[j] = o[j]
    BY <1>2, <2>1, <2>2 DEF Serial
  <2>3. CASE p[j] = f
    BY <2>1, <2>3
  <2> QED BY <1>1, <2>2, <2>3 DEF p
<1> QED BY <1>2 DEF Serial, p

\* Between turns nothing waits in the channel.  A final event is the last its task sends,
\* and until it is written stdout holds no response to the prompt under way.
Shows ==
  /\ pc = "idle" => events = <<>>
  /\ responded => events = <<>> /\ task = "done"
  /\ \A i \in DOMAIN events : Final(events[i]) => i = Len(events) /\ task = "done"
  /\ pc = "drive" /\ ~responded =>
       \A i \in DOMAIN out : out[i].at = cur.at => out[i].kind # "response"
  /\ Serial(out)
  /\ Faithful(Wire, log)

\* What the wire and the log become decides whether they agree next.
LEMMA FaithfulNext ==
  ASSUME NEW w, NEW l, Wire' = w, log' = l, Faithful(w, l)
  PROVE  Faithful(Wire, log)'
<1>1. Faithful(Wire', log')
  OBVIOUS
<1> QED BY <1>1 DEF Faithful, Emitted

\* Every step preserves that.
LEMMA ShowsStep ==
  ASSUME Types, Types', Positions, Shows, [Next]_vars
  PROVE  Shows'
<1> USE DEF driveVars
<1>0. /\ out \in Seq(OutFrame) /\ out' \in Seq(OutFrame) /\ log \in Seq(OutFrame)
      /\ events \in Seq(Event) /\ cur.at \in Nat
      /\ \A i \in DOMAIN out : out[i].at \in Nat
  <2>1. \A i \in DOMAIN out : out[i].at \in Nat
    BY DEF Positions, Past
  <2> QED BY <2>1 DEF Types
<1>1. CASE UNCHANGED <<out, events, log, driveVars, task>>
  <2>1. Wire' = Wire
    BY <1>1, WireAfter
  <2>2. Faithful(Wire, log)'
    BY <1>1, <2>1, FaithfulNext DEF Shows
  <2> QED BY <1>1, <2>2 DEF Shows, Serial, Final
<1>2. ASSUME pc = "idle", queue # <<>>, queue' = Tail(queue), UNCHANGED hostVars
      PROVE  /\ Head(queue).at \in Nat
             /\ \A i \in DOMAIN out : out[i].at < Head(queue).at
  <2>1. InOrder
    BY DEF Positions, InOrder
  <2> QED BY <1>2, <2>1, TakenBefore DEF Positions
<1>3. CASE DispatchNew \/ DispatchConfigOrLoad \/ DispatchCancel \/ DispatchIgnored \/ RejectPrompt
  <2>1. Takes /\ UNCHANGED driveVars /\ (Answers \/ UNCHANGED out)
    BY <1>3, DispatchSteps
  <2>2. CASE UNCHANGED out
    BY <1>1, <2>1, <2>2 DEF Takes
  <2>3. CASE Answers
    <3>1. PICK what \in Outcomes : out' = Append(out, Response(Head(queue).at, what))
      BY <2>3 DEF Answers
    <3> DEFINE f == Response(Head(queue).at, what)
    <3>2. /\ Head(queue).at \in Nat
          /\ \A i \in DOMAIN out : out[i].at < Head(queue).at
      BY <1>2, <2>1 DEF Takes
    <3>3. f \in OutFrame /\ f.kind = "response" /\ f.at = Head(queue).at
      BY <3>2 DEF Response, OutFrame
    <3> HIDE DEF f
    <3>4. out' = Append(out, f)
      BY <3>1 DEF f
    <3>5. pc = "idle" /\ pc' = "idle" /\ UNCHANGED <<events, log, task, responded>>
      BY <2>1 DEF Takes
    <3>6. events = <<>> /\ events' = <<>>
      BY <3>5 DEF Shows
    <3>7. Wire = out /\ Wire' = out'
      BY <1>0, <3>6, WireIdle
    <3>8. Faithful(Wire, log)'
      <4>1. Faithful(Append(out, f), log)
        BY <1>0, <3>3, <3>7, FaithfulResponse DEF Shows
      <4> QED BY <3>4, <3>5, <3>7, <4>1, FaithfulNext
    <3>9. Serial(out)'
      <4>1. Serial(Append(out, f))
        BY <1>0, <3>2, <3>3, SerialAppend DEF Shows
      <4> QED BY <3>4, <4>1 DEF Serial
    <3> QED BY <3>5, <3>6, <3>8, <3>9 DEF Shows
  <2> QED BY <2>1, <2>2, <2>3
<1>4. CASE StartPrompt
  <2>1. /\ pc = "idle" /\ queue # <<>> /\ queue' = Tail(queue) /\ UNCHANGED <<hostVars, out, events, log>>
        /\ cur'.at = Head(queue).at /\ pc' = "drive" /\ responded' = FALSE
    BY <1>4 DEF StartPrompt, Dispatches
  <2>2. /\ Head(queue).at \in Nat
        /\ \A i \in DOMAIN out : out[i].at < Head(queue).at
    BY <1>2, <2>1
  <2>3. \A i \in DOMAIN out' : out'[i].at # cur'.at
    BY <1>0, <2>1, <2>2
  <2>4. events = <<>> /\ events' = <<>>
    BY <2>1 DEF Shows
  <2>5. Wire = out /\ Wire' = out'
    BY <1>0, <2>4, WireIdle
  <2>6. Faithful(Wire, log)' /\ Serial(out)'
    BY <2>1, <2>5, FaithfulNext DEF Shows, Serial
  <2> QED BY <2>1, <2>3, <2>4, <2>6 DEF Shows
<1>5. CASE WriteEvent
  <2> DEFINE e == Head(events)
             f == FrameOf(e)
  <2>1. /\ pc = "drive" /\ events # <<>> /\ events' = Tail(events)
        /\ responded' = (responded \/ Final(e))
        /\ UNCHANGED <<pc, cur, task, log>>
    BY <1>5 DEF WriteEvent, Final
  <2>2. /\ e \in Event /\ e = events[1] /\ 1 \in DOMAIN events
        /\ Len(events) \in Nat /\ Len(Tail(events)) = Len(events) - 1
        /\ Tail(events) \in Seq(Event)
        /\ \A i \in DOMAIN Tail(events) : i + 1 \in DOMAIN events /\ Tail(events)[i] = events[i + 1]
    BY <1>0, <2>1, HeadTail
  <2>3. /\ FramesOf(e) = {f} /\ f \in OutFrame /\ f.at = cur.at
        /\ f.kind = "response" <=> Final(e)
    BY <1>0, <2>2, OneFrame
  <2>4. out' = Append(out, f)
    BY <1>5, <2>3 DEF WriteEvent
  <2>5. ~responded
    BY <2>1 DEF Shows
  <2>6. Wire' = Wire
    <3>1. WireOf(Append(out, f), Tail(events)) = WireOf(out, events)
      BY <1>0, <2>1, WireSteps
    <3>2. Wire = WireOf(out, events) /\ Wire' = WireOf(out', events')
      BY <2>1, WireAfter
    <3> QED BY <2>1, <2>4, <3>1, <3>2
  <2> HIDE DEF f
  <2>7. Faithful(Wire, log)'
    BY <2>1, <2>6, FaithfulNext DEF Shows
  <2>8. \A i \in DOMAIN out : out[i].at < f.at \/ (out[i].at = f.at /\ out[i].kind # "response")
    <3> SUFFICES ASSUME NEW i \in DOMAIN out
                 PROVE  out[i].at < f.at \/ (out[i].at = f.at /\ out[i].kind # "response")
      OBVIOUS
    <3>1. out[i].at <= cur.at /\ out[i].at \in Nat
      BY <1>0, <2>1 DEF Positions
    <3>2. out[i].at = cur.at => out[i].kind # "response"
      BY <2>1, <2>5 DEF Shows
    <3> QED BY <1>0, <2>3, <3>1, <3>2
  <2>9. Serial(out)'
    <3>1. Serial(Append(out, f))
      BY <1>0, <2>3, <2>8, SerialAppend DEF Shows
    <3> QED BY <2>4, <3>1 DEF Serial
  <2>10. Final(e) => events' = <<>> /\ task' = "done"
    <3>1. Final(e) => Len(events) = 1 /\ task = "done"
      BY <2>2 DEF Shows
    <3> QED BY <2>1, <2>2, <3>1
  <2>11. \A i \in DOMAIN events' : Final(events'[i]) => i = Len(events') /\ task' = "done"
    <3> SUFFICES ASSUME NEW i \in DOMAIN events', Final(events'[i])
                 PROVE  i = Len(events') /\ task' = "done"
      BY DEF Final
    <3>1. i + 1 \in DOMAIN events /\ events'[i] = events[i + 1]
      BY <2>1, <2>2
    <3>2. i + 1 = Len(events) /\ task = "done"
      BY <3>1 DEF Shows
    <3>3. i \in Nat
      BY <2>1, <2>2
    <3> QED BY <2>1, <2>2, <3>2, <3>3
  <2>12. ~Final(e) => \A i \in DOMAIN out' : out'[i].at = cur'.at => out'[i].kind # "response"
    <3>1. \A i \in DOMAIN out' : (i \in DOMAIN out /\ out'[i] = out[i]) \/ out'[i] = f
      BY <1>0, <2>3, <2>4, Appended
    <3> QED BY <2>1, <2>3, <2>5, <3>1 DEF Shows
  <2>13. (\A i \in DOMAIN events : Final(events[i]) => i = Len(events) /\ task = "done")'
    BY <2>11 DEF Final
  <2> HIDE DEF e
  <2> QED BY <2>1, <2>5, <2>7, <2>9, <2>10, <2>12, <2>13 DEF Shows
<1>6. CASE EndOfStream
  <2>1. /\ pc = "drive" /\ events = <<>> /\ events' = <<>> /\ pc' = "idle" /\ responded' = FALSE
        /\ UNCHANGED log
        /\ out' = IF responded THEN out ELSE Append(out, Response(cur.at, "error"))
    BY <1>6 DEF EndOfStream
  <2>2. Wire = out /\ Wire' = out'
    BY <1>0, <2>1, WireIdle
  <2>3. CASE responded
    <3>1. out' = out
      BY <2>1, <2>3
    <3>2. Faithful(Wire, log)' /\ Serial(out)'
      BY <2>1, <2>2, <3>1, FaithfulNext DEF Shows, Serial
    <3> QED BY <2>1, <3>2 DEF Shows
  <2>4. CASE ~responded
    <3> DEFINE f == Response(cur.at, "error")
    <3>1. f \in OutFrame /\ f.kind = "response" /\ f.at = cur.at
      BY <1>0 DEF Response, OutFrame, Outcomes
    <3>2. out' = Append(out, f)
      BY <2>1, <2>4
    <3> HIDE DEF f
    <3>3. \A i \in DOMAIN out : out[i].at < f.at \/ (out[i].at = f.at /\ out[i].kind # "response")
      <4>1. \A i \in DOMAIN out : out[i].at <= cur.at
        BY <2>1 DEF Positions
      <4> QED BY <1>0, <2>1, <2>4, <3>1, <4>1 DEF Shows
    <3>4. Serial(Append(out, f)) /\ Faithful(Append(out, f), log)
      BY <1>0, <2>2, <3>1, <3>3, SerialAppend, FaithfulResponse DEF Shows
    <3>5. Faithful(Wire, log)'
      BY <2>1, <2>2, <3>2, <3>4, FaithfulNext
    <3>6. Serial(out)'
      BY <3>2, <3>4 DEF Serial
    <3> QED BY <2>1, <3>5, <3>6 DEF Shows
  <2> QED BY <2>3, <2>4
<1>7. CASE TaskStep
  <2>1. pc = "drive" /\ task # "done" /\ UNCHANGED <<driveVars, out>>
    BY <1>7 DEF TaskStep
  <2>2. ~responded /\ \A i \in DOMAIN events : ~Final(events[i])
    BY <2>1 DEF Shows
  <2>3. Wire = WireOf(out, events) /\ Wire' = WireOf(out', events') /\ Wire \in Seq(OutFrame)
    BY <1>0, <2>1, WireAfter, WireElements
  <2>4. ASSUME NEW e \in Event, events' = Append(events, e)
        PROVE  /\ Wire' = Append(Wire, FrameOf(e))
               /\ \A i \in DOMAIN events' : Final(events'[i]) => i = Len(events') /\ Final(e)
    <3>1. Wire' = Append(Wire, FrameOf(e))
      BY <1>0, <2>1, <2>3, <2>4, WireSteps
    <3>2. /\ Len(events') = Len(events) + 1
          /\ \A i \in DOMAIN events' : (i \in DOMAIN events /\ events'[i] = events[i])
                                       \/ (i = Len(events) + 1 /\ events'[i] = e)
      BY <1>0, <2>4, Appended
    <3> QED BY <2>2, <3>1, <3>2
  <2>5. Serial(out)' /\ (pc = "drive" /\ ~responded =>
          \A i \in DOMAIN out : out[i].at = cur.at => out[i].kind # "response")'
    BY <2>1 DEF Shows, Serial
  <2>6. CASE UNCHANGED <<events, log>>
    <3>1. Wire' = Wire
      BY <2>1, <2>3, <2>6
    <3>2. Faithful(Wire, log)' /\ \A i \in DOMAIN events' : ~Final(events'[i])
      BY <2>2, <2>6, <3>1, FaithfulNext DEF Shows
    <3>3. (\A i \in DOMAIN events : Final(events[i]) => i = Len(events) /\ task = "done")'
      BY <3>2 DEF Final
    <3> QED BY <2>1, <2>2, <2>5, <3>2, <3>3 DEF Shows
  <2>7. ASSUME NEW e \in Event, Final(e), events' = Append(events, e), task' = "done", UNCHANGED log
        PROVE  Shows'
    <3>1. FrameOf(e) \in OutFrame /\ FrameOf(e).kind = "response"
      BY <1>0, <2>7, OneFrame
    <3>2. Faithful(Append(Wire, FrameOf(e)), log)
      BY <2>3, <3>1, FaithfulResponse DEF Shows
    <3>3. Faithful(Wire, log)'
      BY <2>4, <2>7, <3>2, FaithfulNext
    <3>4. (\A i \in DOMAIN events : Final(events[i]) => i = Len(events) /\ task = "done")'
      BY <2>4, <2>7 DEF Final
    <3> QED BY <2>1, <2>2, <2>5, <3>3, <3>4 DEF Shows
  <2>8. ASSUME NEW e \in Event, ~Final(e), events' = Append(events, e),
               log' = Append(log, FrameOf(e))
        PROVE  Shows'
    <3>1. FrameOf(e) \in OutFrame /\ FrameOf(e).kind # "response"
      BY <1>0, <2>8, OneFrame
    <3>2. Faithful(Append(Wire, FrameOf(e)), Append(log, FrameOf(e)))
      BY <1>0, <2>3, <3>1, FaithfulEmit DEF Shows
    <3>3. Faithful(Wire, log)'
      BY <2>4, <2>8, <3>2, FaithfulNext
    <3>4. (\A i \in DOMAIN events : Final(events[i]) => i = Len(events) /\ task = "done")'
      BY <2>4, <2>8 DEF Final
    <3> QED BY <2>1, <2>2, <2>5, <3>3, <3>4 DEF Shows
  <2> QED BY <1>7, <2>6, <2>7, <2>8 DEF TaskStep
<1>8. CASE HostStep \/ RouteReply \/ RouteRequest \/ RouteCancelLookup \/ RouteCancelForward
  BY <1>1, <1>8 DEF HostStep, RouteReply, RouteRequest, RouteCancelLookup, RouteCancelForward
<1>9. CASE UNCHANGED vars
  BY <1>1, <1>9 DEF vars
<1> QED BY Steps, <1>3, <1>4, <1>5, <1>6, <1>7, <1>8, <1>9

\* The host reads what the tasks emitted, in that order and none of it lost; each request
\* has one response, the last of its frames, and the frames of two never mix.
THEOREM WireInOrder == Spec => []WireOrder
<1>1. Init => Shows
  <2> SUFFICES ASSUME Init PROVE Shows
    OBVIOUS
  <2>1. out = <<>> /\ events = <<>> /\ log = <<>> /\ pc = "idle" /\ responded = FALSE
    BY DEF Init
  <2>2. out \in Seq(OutFrame)
    BY <2>1
  <2>3. Wire = <<>>
    BY <2>1, <2>2, WireIdle
  <2>4. Emitted(Wire, Len(Wire)) = 0
    <3>1. {j \in 1..Len(Wire) : Wire[j].kind # "response"} = {}
      BY <2>3
    <3> QED BY <3>1, FS_EmptySet DEF Emitted
  <2>5. Faithful(Wire, log)
    BY <2>1, <2>3, <2>4 DEF Faithful
  <2> QED BY <2>1, <2>5 DEF Shows, Serial
<1>2. Types /\ Types' /\ Positions /\ Shows /\ [Next]_vars => Shows'
  BY ShowsStep
<1>3. Shows => WireOrder
  BY DEF Shows, WireOrder, Serial, Faithful
<1> QED BY <1>1, <1>2, <1>3, TypesHold, PositionsHold, PTL DEF Spec
=============================================================================
