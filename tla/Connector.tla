------------------------------ MODULE Connector ------------------------------
(***************************************************************************)
(* The connector path of the server (LOCAL_LLM_USE_CONNECTOR=1): the branch *)
(* of the dispatcher in src/acp/server.rs, the LocalOpenAiConnector of      *)
(* src/connector/local_openai.rs and its event stream.                      *)
(*                                                                         *)
(* Against AcpServer's path, three things differ.  A prompt runs in a task  *)
(* of its own that sends events on an unbounded channel; the dispatcher     *)
(* reads them to the end and is the only writer of stdout, mcp/* requests   *)
(* included.  A task that panics ends the stream without a terminal event.  *)
(* A cancel closes the session instead of re-arming its token.              *)
(*                                                                         *)
(* A session has one token for life, so a token is named by its session.    *)
(* The model and tier a session is configured with are Capability's subject. *)
(* Frames carry `at`, their position on stdin, which doubles as JSON-RPC id. *)
(***************************************************************************)
EXTENDS Naturals, Sequences, FiniteSets, Functions

CONSTANTS
  NoSid,        \* stands for "names no session"
  Sid,          \* ids session/new may mint
  HostKinds,    \* the kinds of frame this host writes
  Shown,        \* the kinds of update a turn emits
  MaxFrames,    \* bound: frames the host writes
  MaxRpc,       \* bound: mcp/* requests of the whole run
  MaxUpdates    \* bound: session/update frames of the whole run

\* The updates the bridge builds.
Updates == {"agent_message_chunk", "agent_thought_chunk", "tool_call",
            "tool_call_completed", "tool_call_failed"}

ASSUME ConnectorAssumption ==
  /\ Shown \subseteq Updates
  /\ NoSid \notin Sid /\ IsFiniteSet(Sid)
  /\ MaxFrames \in Nat /\ MaxRpc \in Nat /\ MaxUpdates \in Nat

VARIABLES
  inbox,         \* stdin: frames written by the host, not yet routed
  sent,          \* number of frames the host has written
  held,          \* router: {} or {the token its cancel lookup cloned}
  looked,        \* router: the lookup for the head of stdin is done
  queue,         \* bridge_tx/bridge_rx: forwarded frames
  connector,     \* the connector has been built
  sessions,      \* keys of the connector's session map
  cancelTokens,  \* keys of the token map shared with the router
  minted,        \* ids ever started
  tripped,       \* cancelled tokens
  pendingRequests, \* rpc ids with a registered oneshot sender
  nextRpc,       \* next_shim_id
  pc,            \* dispatcher: "idle", or "drive" while it reads the stream
  cur,           \* the prompt being driven
  responded,     \* a terminal event of that prompt was written
  task,          \* where the prompt's task is
  rpc,           \* the mcp/* request the task made last
  reply,         \* the receiving half of that request's oneshot
  events,        \* the event channel
  out,           \* stdout
  log,           \* what tasks emitted, in order (history)
  lastCancel     \* Sid -> position of the last routed cancel (history)

hostVars   == <<inbox, sent>>
routerVars == <<held, looked, lastCancel>>
tableVars  == <<connector, sessions, cancelTokens, minted>>
rpcVars    == <<pendingRequests, nextRpc, rpc, reply>>
driveVars  == <<pc, cur, responded>>
vars == <<hostVars, routerVars, queue, tableVars, tripped, rpcVars, driveVars,
          task, events, out, log>>

SessionKinds == {"config", "load", "prompt", "cancel"}
OtherKinds   == {"new", "bad_prompt", "prompt_notice", "bad_cancel", "reply"}
Frame ==
  [kind : SessionKinds, sid : Sid, at : Nat, rpc : Nat] \cup
  [kind : OtherKinds, sid : {NoSid}, at : Nat, rpc : Nat]
NoTurn == [at |-> 0, sid |-> NoSid]

Init ==
  /\ inbox = <<>> /\ sent = 0
  /\ held = {} /\ looked = FALSE /\ lastCancel = [s \in Sid |-> 0]
  /\ queue = <<>>
  /\ connector = FALSE /\ sessions = {} /\ cancelTokens = {} /\ minted = {}
  /\ tripped = {}
  /\ pendingRequests = {} /\ nextRpc = 1 /\ rpc = 0 /\ reply = "none"
  /\ pc = "idle" /\ cur = NoTurn /\ responded = FALSE
  /\ task = "done" /\ events = <<>> /\ out = <<>> /\ log = <<>>

(***************************************************************************)
(* Host and frame router, as in AcpServer.                                 *)
(***************************************************************************)
HostWrites(frame) ==
  /\ frame.kind \in HostKinds /\ sent < MaxFrames
  /\ inbox' = Append(inbox, frame)
  /\ sent' = sent + 1
  /\ UNCHANGED <<routerVars, queue, tableVars, tripped, rpcVars, driveVars,
                 task, events, out, log>>

HostSends(kind, s) ==
  HostWrites([kind |-> kind, sid |-> s, at |-> sent + 1, rpc |-> 0])

\* Bound: no more session/new than ids left to mint.
MayMint ==
  Len(SelectSeq(inbox \o queue, LAMBDA f : f.kind = "new"))
    < Cardinality(Sid \ minted)

\* The host may name a session it has closed.
HostRequests ==
  \/ MayMint /\ HostSends("new", NoSid)
  \/ \E s \in minted : \E kind \in SessionKinds : HostSends(kind, s)
  \/ \E kind \in OtherKinds \ {"new", "reply"} : HostSends(kind, NoSid)

\* The host answers a request it has read, possibly late or more than once.
HostReplies ==
  \E f \in Range(out) :
    /\ f.kind = "mcp"
    /\ HostWrites([kind |-> "reply", sid |-> NoSid, at |-> sent + 1,
                   rpc |-> f.rpc])

Routes(kinds) == inbox # <<>> /\ Head(inbox).kind \in kinds

RouteReply ==
  /\ Routes({"reply"})
  /\ LET r == Head(inbox).rpc IN
       /\ pendingRequests' = pendingRequests \ {r}
       /\ reply' = IF r \in pendingRequests /\ r = rpc THEN "value" ELSE reply
  /\ inbox' = Tail(inbox)
  /\ UNCHANGED <<sent, routerVars, queue, tableVars, tripped, nextRpc, rpc,
                 driveVars, task, events, out, log>>

RouteRequest ==
  /\ Routes((SessionKinds \cup OtherKinds) \ {"reply", "cancel"})
  /\ queue' = Append(queue, Head(inbox))
  /\ inbox' = Tail(inbox)
  /\ UNCHANGED <<sent, routerVars, tableVars, tripped, rpcVars, driveVars,
                 task, events, out, log>>

\* Fast path, first half: clone the session's token out of the map.
RouteCancelLookup ==
  /\ Routes({"cancel"}) /\ ~looked
  /\ held' = {Head(inbox).sid} \cap cancelTokens
  /\ looked' = TRUE
  /\ UNCHANGED <<hostVars, lastCancel, queue, tableVars, tripped, rpcVars,
                 driveVars, task, events, out, log>>

\* Second half: cancel the clone and forward the frame.
RouteCancelForward ==
  /\ Routes({"cancel"}) /\ looked
  /\ tripped' = tripped \cup held
  /\ held' = {} /\ looked' = FALSE
  /\ lastCancel' = [lastCancel EXCEPT ![Head(inbox).sid] = Head(inbox).at]
  /\ queue' = Append(queue, Head(inbox))
  /\ inbox' = Tail(inbox)
  /\ UNCHANGED <<sent, tableVars, rpcVars, driveVars, task, events, out, log>>

(***************************************************************************)
(* Dispatcher: one forwarded frame at a time.                              *)
(***************************************************************************)
Dispatches(kind) ==
  /\ pc = "idle"
  /\ queue # <<>> /\ Head(queue).kind = kind
  /\ queue' = Tail(queue)

Response(at, what) == [kind |-> "response", at |-> at, rpc |-> 0, what |-> what]
Respond(what) == out' = Append(out, Response(Head(queue).at, what))

\* A fresh id, with its token in the map the router reads.
start_session(s) ==
  /\ s \notin minted
  /\ cancelTokens' = cancelTokens \cup {s}
  /\ sessions' = sessions \cup {s}
  /\ minted' = minted \cup {s}

\* The connector is built by the first session/new.
DispatchNew ==
  /\ Dispatches("new")
  /\ connector' = TRUE
  /\ \E s \in Sid : start_session(s)
  /\ Respond("created")
  /\ UNCHANGED <<hostVars, routerVars, tripped, rpcVars, driveVars, task,
                 events, log>>

\* set_config is acknowledged whatever it found; load never finds a session.
DispatchConfigOrLoad ==
  /\ \/ Dispatches("config") /\ Respond("acknowledged")
     \/ Dispatches("load") /\ Respond("not_found")
  /\ UNCHANGED <<hostVars, routerVars, tableVars, tripped, rpcVars, driveVars,
                 task, events, log>>

\* Fault: the session outlives its cancel, tripped token and all.
DispatchCancel_KeepsSession ==
  /\ Dispatches("cancel")
  /\ tripped' = IF connector THEN tripped \cup ({Head(queue).sid} \cap cancelTokens)
                ELSE tripped
  /\ UNCHANGED <<hostVars, routerVars, tableVars, rpcVars, driveVars, task,
                 events, out, log>>

\* Both maps forget the session.
close_session(s) ==
  /\ sessions' = sessions \ {s}
  /\ cancelTokens' = cancelTokens \ {s}

\* Trip the token, then tear the session down.
DispatchCancel ==
  /\ Dispatches("cancel")
  /\ LET s == Head(queue).sid IN
       IF connector
       THEN tripped' = tripped \cup ({s} \cap cancelTokens) /\ close_session(s)
       ELSE UNCHANGED <<tripped, sessions, cancelTokens>>
  /\ UNCHANGED <<hostVars, routerVars, connector, minted, rpcVars, driveVars,
                 task, events, out, log>>

\* A cancel that does not parse, and a prompt without an id, leave no trace.
DispatchIgnored ==
  /\ Dispatches("bad_cancel") \/ Dispatches("prompt_notice")
  /\ UNCHANGED <<hostVars, routerVars, tableVars, tripped, rpcVars, driveVars,
                 task, events, out, log>>

\* Bad parameters, or no session was ever started.
RejectPrompt ==
  /\ Dispatches("bad_prompt") \/ (~connector /\ Dispatches("prompt"))
  /\ Respond("invalid_params")
  /\ UNCHANGED <<hostVars, routerVars, tableVars, tripped, rpcVars, driveVars,
                 task, events, log>>

\* prompt() looks the session up and spawns the task, whatever it found.
StartPrompt ==
  /\ connector /\ Dispatches("prompt")
  /\ LET f == Head(queue) IN
       /\ cur' = [at |-> f.at, sid |-> f.sid]
       /\ task' = IF f.sid \in sessions THEN "request" ELSE "unknown_session"
  /\ pc' = "drive" /\ responded' = FALSE
  /\ UNCHANGED <<hostVars, routerVars, tableVars, tripped, rpcVars, events,
                 out, log>>

\* notification_to_event, and event_to_notification back.
notification_to_event(update) ==
  CASE update = "agent_message_chunk" -> "AgentMessageDelta"
    [] update = "agent_thought_chunk" -> "AgentThoughtDelta"
    [] update = "tool_call" -> "ToolCallStarted"
    [] update = "tool_call_completed" -> "ToolCallCompleted"
    [] update = "tool_call_failed" -> "ToolCallFailed"
    [] OTHER -> "Diagnostic"

event_to_notification(event) ==
  CASE event = "AgentMessageDelta" -> {"agent_message_chunk"}
    [] event = "AgentThoughtDelta" -> {"agent_thought_chunk"}
    [] event = "ToolCallStarted" -> {"tool_call"}
    [] event = "ToolCallCompleted" -> {"tool_call_completed"}
    [] event = "ToolCallFailed" -> {"tool_call_failed"}
    [] OTHER -> {}

\* The frames the dispatcher writes for an event: one, or none.
FramesOf(e) ==
  CASE e.event \in {"TurnFinished", "Failed"} -> {Response(cur.at, e.what)}
    [] e.event = "OutboundFrame" ->
         {[kind |-> "mcp", at |-> cur.at, rpc |-> e.rpc, what |-> "mcp"]}
    [] OTHER -> {[kind |-> "update", at |-> cur.at, rpc |-> 0, what |-> u] :
                   u \in event_to_notification(e.event)}

WriteEvent ==
  /\ pc = "drive" /\ events # <<>>
  /\ LET e == Head(events) IN
       /\ IF FramesOf(e) = {} THEN UNCHANGED out
          ELSE \E f \in FramesOf(e) : out' = Append(out, f)
       /\ responded' = (responded \/ e.event \in {"TurnFinished", "Failed"})
  /\ events' = Tail(events)
  /\ UNCHANGED <<hostVars, routerVars, queue, tableVars, tripped, rpcVars, pc,
                 cur, task, log>>

\* Fault: the end of the stream is taken for the end of the answer.
EndOfStream_Silent ==
  /\ pc = "drive" /\ events = <<>> /\ task = "done"
  /\ pc' = "idle" /\ cur' = NoTurn /\ responded' = FALSE
  /\ UNCHANGED <<hostVars, routerVars, queue, tableVars, tripped, rpcVars,
                 task, events, out, log>>

\* The task dropped its sender: a prompt without terminal event gets an error.
EndOfStream ==
  /\ pc = "drive" /\ events = <<>> /\ task = "done"
  /\ out' = IF responded THEN out ELSE Append(out, Response(cur.at, "error"))
  /\ pc' = "idle" /\ cur' = NoTurn /\ responded' = FALSE
  /\ UNCHANGED <<hostVars, routerVars, queue, tableVars, tripped, rpcVars,
                 task, events, log>>

(***************************************************************************)
(* The prompt's task.                                                      *)
(***************************************************************************)
At(where) == pc = "drive" /\ task = where
Working == pc = "drive" /\ task \in {"request", "stream", "tools"}
Cancelled == cur.sid \in tripped
Send(e) == events' = Append(events, e)
Logs(kind, r, what) ==
  log' = Append(log, [kind |-> kind, at |-> cur.at, rpc |-> r, what |-> what])

\* Finish reasons of the backend and of the turn's own guards.
Degraded == {"context_overflow", "server_error", "auth", "not_found",
             "rate_limited", "timeout", "oom", "model_unloaded", "tls_cert",
             "unreachable", "unknown"}
Guarded == {"content_filter", "refusal", "schema_bleed", "error",
            "reasoning_budget_exhausted", "turn_timeout", "response_too_large",
            "stream_inactivity_timeout"}

from_finish_reason(reason) ==
  CASE reason = "length" -> "max_tokens"
    [] reason \in Degraded \cup Guarded \cup {"circuit_breaker"} -> "refusal"
    [] reason \in {"max_turn_requests", "cancelled"} -> reason
    [] OTHER -> "end_turn"

\* The JSON-RPC error a ShimError ends up as.
to_acp_jsonrpc_code(error) ==
  IF error \in {"UnknownSession", "Config"} THEN "invalid_params" ELSE "error"

Terminal(event, what) ==
  /\ Send([event |-> event, rpc |-> 0, what |-> what])
  /\ task' = "done"
  /\ UNCHANGED <<hostVars, routerVars, queue, tableVars, tripped, driveVars,
                 out, log>>

\* The bridge returned: a finish reason, or an error that is not Cancelled.
Finishes(reason) == Terminal("TurnFinished", from_finish_reason(reason))
Fails(error) == Terminal("Failed", to_acp_jsonrpc_code(error))

Goto(where) ==
  /\ task' = where
  /\ UNCHANGED <<hostVars, routerVars, queue, tableVars, tripped, driveVars,
                 events, out, log>>

UnknownSession ==
  /\ At("unknown_session")
  /\ Fails("UnknownSession")
  /\ UNCHANGED rpcVars

EmitUpdate ==
  /\ Working
  /\ Len(SelectSeq(log, LAMBDA f : f.kind = "update")) < MaxUpdates
  /\ \E u \in Shown :
       /\ Send([event |-> notification_to_event(u), rpc |-> 0, what |-> u])
       /\ Logs("update", 0, u)
  /\ UNCHANGED <<hostVars, routerVars, queue, tableVars, tripped, rpcVars,
                 driveVars, task, out>>

\* Response headers arrive.  Nothing here looks at the cancel token.
BackendAnswers == At("request") /\ Goto("stream") /\ UNCHANGED rpcVars

\* The request fails: whatever the kind, the bridge degrades it to a refusal.
BackendFails ==
  /\ At("request")
  /\ \E reason \in Degraded : Finishes(reason)
  /\ UNCHANGED rpcVars

StreamCancelled ==
  /\ At("stream") /\ Cancelled
  /\ Finishes("cancelled")
  /\ UNCHANGED rpcVars

StreamEnds ==
  /\ At("stream") /\ ~Cancelled
  /\ \/ \E reason \in Guarded \cup {"stop", "length"} : Finishes(reason)
     \/ Goto("tools")
  /\ UNCHANGED rpcVars

\* Fault: the transport writes the frame itself.
PrepareRpc_OwnWriter ==
  /\ At("tools") /\ nextRpc <= MaxRpc
  /\ rpc' = nextRpc /\ nextRpc' = nextRpc + 1
  /\ pendingRequests' = pendingRequests \cup {nextRpc}
  /\ reply' = "none"
  /\ out' = Append(out, [kind |-> "mcp", at |-> cur.at, rpc |-> nextRpc,
                         what |-> "mcp"])
  /\ Logs("mcp", nextRpc, "mcp")
  /\ task' = "await"
  /\ UNCHANGED <<hostVars, routerVars, queue, tableVars, tripped, driveVars,
                 events>>

OutboundFrame(r) == [event |-> "OutboundFrame", rpc |-> r, what |-> "mcp"]

\* prepare: fresh id, sender registered; the frame joins the events.
PrepareRpc ==
  /\ At("tools") /\ nextRpc <= MaxRpc
  /\ rpc' = nextRpc /\ nextRpc' = nextRpc + 1
  /\ pendingRequests' = pendingRequests \cup {nextRpc}
  /\ reply' = "none"
  /\ Send(OutboundFrame(nextRpc))
  /\ Logs("mcp", nextRpc, "mcp")
  /\ task' = "await"
  /\ UNCHANGED <<hostVars, routerVars, queue, tableVars, tripped, driveVars,
                 out>>

\* Biased select: cancellation before the reply before the timer; the arm that
\* wins takes the entry out afterwards, under the lock.
AwaitCancelled == At("await") /\ Cancelled /\ Goto("abort") /\ UNCHANGED rpcVars

AwaitReply ==
  /\ At("await") /\ ~Cancelled /\ reply # "none"
  /\ \E next \in {"tools", "request"} : Goto(next)
  /\ UNCHANGED rpcVars

AwaitTimeout ==
  At("await") /\ ~Cancelled /\ reply = "none" /\ Goto("expire") /\ UNCHANGED rpcVars

Unregister ==
  /\ pendingRequests' = pendingRequests \ {rpc}
  /\ UNCHANGED <<nextRpc, rpc, reply>>

Abort == At("abort") /\ Unregister /\ Finishes("cancelled")

Expire ==
  /\ At("expire") /\ Unregister
  /\ \E next \in {"tools", "request"} : Goto(next)

\* No further call: a budget or a breaker ends the turn from the tool loop.
LeaveTools ==
  /\ At("tools")
  /\ \E reason \in {"max_turn_requests", "circuit_breaker"} :
       Finishes(reason)
  /\ UNCHANGED rpcVars

\* The task unwinds: its sender is dropped, no event tells.
TaskPanics == Working /\ Goto("done") /\ UNCHANGED rpcVars

-----------------------------------------------------------------------------
Host == HostRequests \/ HostReplies
Router == RouteReply \/ RouteRequest \/ RouteCancelLookup \/ RouteCancelForward
Dispatcher ==
  DispatchNew \/ DispatchConfigOrLoad \/ DispatchCancel \/ DispatchIgnored
  \/ RejectPrompt \/ StartPrompt \/ WriteEvent \/ EndOfStream
Task ==
  UnknownSession \/ EmitUpdate \/ BackendAnswers \/ BackendFails
  \/ StreamCancelled \/ StreamEnds \/ PrepareRpc \/ AwaitCancelled
  \/ AwaitReply \/ AwaitTimeout \/ Abort \/ Expire \/ LeaveTools \/ TaskPanics
Next == Host \/ Router \/ Dispatcher \/ Task

Spec == Init /\ [][Next]_vars

\* A runnable task is polled; the request, the stream and the wait for a reply
\* have their deadlines (all on by default).  Nothing is asked of the host but
\* to read stdout.
FairSpec ==
  /\ Spec
  /\ WF_vars(Router) /\ WF_vars(Dispatcher)
  /\ WF_vars(UnknownSession) /\ WF_vars(BackendAnswers \/ BackendFails)
  /\ WF_vars(StreamCancelled \/ StreamEnds) /\ WF_vars(PrepareRpc \/ LeaveTools)
  /\ WF_vars(AwaitCancelled \/ AwaitReply \/ AwaitTimeout)
  /\ WF_vars(Abort) /\ WF_vars(Expire)

(***************************************************************************)
(* Properties.                                                             *)
(***************************************************************************)
Outcomes == {"created", "acknowledged", "not_found", "invalid_params", "error",
             "end_turn", "max_tokens", "refusal", "max_turn_requests",
             "cancelled"}
OutFrame ==
  [kind : {"response"}, at : Nat, rpc : {0}, what : Outcomes] \cup
  [kind : {"mcp"}, at : Nat, rpc : Nat, what : {"mcp"}] \cup
  [kind : {"update"}, at : Nat, rpc : {0}, what : Updates]

\* The frames on their way to the host, and how many of the first i of a sequence
\* are no responses.
FrameOf(e) == CHOOSE f \in FramesOf(e) : TRUE
Wire == out \o [i \in DOMAIN events |-> FrameOf(events[i])]
Emitted(frames, i) == Cardinality({j \in 1..i : frames[j].kind # "response"})

\* stdout shows what the tasks emitted, in that order and none of it lost: the
\* updates and mcp/* frames written, then those of the events still queued, are
\* the log.  Each request has one response, the last of its frames, and the
\* frames of two requests never mix.
WireOrder ==
  /\ Emitted(Wire, Len(Wire)) = Len(log)
  /\ \A i \in DOMAIN Wire :
       Wire[i].kind # "response" => Wire[i] = log[Emitted(Wire, i)]
  /\ \A i, j \in DOMAIN out : i < j =>
       \/ out[i].at < out[j].at
       \/ out[i].at = out[j].at /\ out[i].kind # "response"

\* A turn runs under a tripped token only when the host wrote a cancel for its
\* session after the prompt: no cancelled token waits for a later prompt.
CancelScope == pc = "drive" /\ Cancelled /\ cur.sid \in sessions
                 => lastCancel[cur.sid] > cur.at

\* Every prompt and every other request is answered, also when its session is
\* gone or its task panics.
EveryRequestAnswered ==
  \A a \in 1..MaxFrames :
    (\E f \in Range(queue) :
       f.at = a /\ f.kind \notin {"cancel", "bad_cancel", "prompt_notice"})
      ~> (\E f \in Range(out) : f.at = a /\ f.kind = "response")
=============================================================================
