------------------------------ MODULE AcpServer ------------------------------
(***************************************************************************)
(* The stdio server of src/acp/server.rs: the frame router, the dispatcher, *)
(* the prompt turn it awaits inline, the per-prompt drainer and the three   *)
(* shared tables (`sessions`, `cancel_tokens`, `pending_requests`).         *)
(*                                                                         *)
(* Three tasks and the host interleave:                                    *)
(*   host       writes frames to stdin, answers mcp/* requests it has read; *)
(*   router     takes stdin frames in order, completes pending requests,    *)
(*              fires the cancel fast path, forwards the rest;              *)
(*   dispatcher takes forwarded frames one at a time, and stays inside a    *)
(*              session/prompt until its response is written;               *)
(*   drainer    the single writer of session/update and mcp/* frames while  *)
(*              a turn runs.                                                *)
(*                                                                         *)
(* A turn is seen from the server: HTTP request, stream, tool round trips,  *)
(* end.  What the ReAct loop does between is the subject of ReactTurn.      *)
(*                                                                         *)
(* Frames carry `at`, their position on stdin; it doubles as the JSON-RPC   *)
(* id of a request.  A step that touches shared state only under one lock,  *)
(* or only state the dispatcher owns, is one action.                       *)
(***************************************************************************)
EXTENDS Naturals, Sequences, FiniteSets, Functions

CONSTANTS
  NoSid,       \* stands for "names no session"
  HostKinds,   \* the kinds of frame this host writes
  NewIds,      \* ids session/new may mint in this process
  OldIds,      \* ids minted by an earlier process, possibly on disk
  ChanCap,     \* capacity of the drainer channel (64 in the code)
  MaxFrames,   \* bound: frames the host writes
  MaxRpc,      \* bound: mcp/* requests of the whole run
  MaxUpdates   \* bound: session/update frames of the whole run

ASSUME AcpServerAssumption ==
  /\ IsFiniteSet(NewIds)
  /\ NewIds \cap OldIds = {}
  /\ NoSid \notin NewIds \cup OldIds
  /\ ChanCap \in Nat \ {0}
  /\ MaxFrames \in Nat
  /\ MaxRpc \in Nat
  /\ MaxUpdates \in Nat

Sid == NewIds \cup OldIds
NoToken == 0                      \* tokens and rpc ids count from 1

VARIABLES
  inbox,           \* stdin: frames written by the host, not yet routed
  sent,            \* number of frames the host has written
  hostClosed,      \* the host closed stdin
  held,            \* router: {} or the one token its cancel lookup cloned
  routerDone,      \* router task has exited
  queue,           \* bridge_tx/bridge_rx: forwarded frames
  sessions,        \* Sid -> the session's cancel token (NoToken: no session)
  cancelTokens,    \* Sid -> token in the router's fast-path map
  tripped,         \* cancelled tokens
  nextToken,
  disk,            \* ids whose envelope can be loaded
  pendingRequests, \* rpc ids with a registered oneshot sender, with owner
  nextRpc,         \* next_shim_id
  pc,              \* dispatcher
  cur,             \* the running turn: its request, session, token
  rpc,             \* the turn's current mcp/* request
  reply,           \* the receiving half of that request's oneshot
  outcome,         \* result of the finished turn
  chan,            \* the drainer channel
  writing,         \* the frame the drainer has received and not yet written
  drainer,         \* "up" or "dead" (panicked) while a turn runs
  written,         \* mcp/* requests that reached stdout
  updates,         \* session/update frames emitted so far
  responses,       \* responses on stdout, in order
  lastCancel,      \* Sid -> position of the last routed cancel (history)
  server           \* "up", "eof" (clean exit) or "failed" (run() returned Err)

hostVars   == <<inbox, sent, hostClosed>>
routerVars == <<held, routerDone, lastCancel>>
tableVars  == <<sessions, cancelTokens, tripped, nextToken, disk>>
rpcVars    == <<pendingRequests, nextRpc, rpc, reply>>
drainVars  == <<chan, writing, drainer, written, updates>>
turnVars   == <<pc, cur, outcome>>
vars == <<hostVars, routerVars, queue, tableVars, rpcVars, drainVars,
          turnVars, responses, server>>

NoTurn == [at |-> 0, sid |-> NoSid, tok |-> NoToken]
NoFrame == [kind |-> "none", rpc |-> 0, turn |-> 0]

FrameKinds == {"new", "load", "config", "prompt", "bad_prompt", "cancel", "bad_cancel",
               "control", "warmup", "reply"}
SessionKinds == {"load", "config", "prompt", "cancel"}  \* the kinds that name a session
Frame ==
  [kind : SessionKinds, sid : Sid, at : Nat, rpc : Nat] \cup
  [kind : FrameKinds \ SessionKinds, sid : {NoSid}, at : Nat, rpc : Nat]
OutFrame == [kind : {"update", "mcp"}, rpc : Nat, turn : Nat]
Outcomes == {"end", "cancelled", "error", "unknown_session",
             "created", "loaded", "not_found", "done"}
TurnPcs == {"request", "stream", "tools", "enqueue", "await", "abort",
            "expire", "join"}

Init ==
  /\ inbox = <<>> /\ sent = 0 /\ hostClosed = FALSE
  /\ held = {} /\ routerDone = FALSE
  /\ lastCancel = [s \in Sid |-> 0]
  /\ queue = <<>>
  /\ sessions = [s \in Sid |-> NoToken]
  /\ cancelTokens = [s \in Sid |-> NoToken]
  /\ tripped = {} /\ nextToken = 1
  /\ disk \in SUBSET OldIds
  /\ pendingRequests = {} /\ nextRpc = 1 /\ rpc = 0 /\ reply = "none"
  /\ chan = <<>> /\ writing = NoFrame /\ drainer = "up"
  /\ written = {} /\ updates = 0
  /\ pc = "idle" /\ cur = NoTurn /\ outcome = "end"
  /\ responses = <<>> /\ server = "up"

(***************************************************************************)
(* Host.                                                                   *)
(***************************************************************************)

\* Ids the host can name: those it was told, and those it kept from before.
Known == OldIds \cup {s \in NewIds : sessions[s] # NoToken}

HostWrites(frame) ==
  /\ frame.kind \in HostKinds
  /\ server = "up" /\ ~hostClosed
  /\ sent < MaxFrames
  /\ inbox' = Append(inbox, frame)
  /\ sent' = sent + 1
  /\ UNCHANGED <<hostClosed, routerVars, queue, tableVars, rpcVars, drainVars,
                 turnVars, responses, server>>

HostSends(kind, s) ==
  HostWrites([kind |-> kind, sid |-> s, at |-> sent + 1, rpc |-> 0])

\* Bound: no more session/new than ids left to mint.
MayMint ==
  Len(SelectSeq(inbox \o queue, LAMBDA f : f.kind = "new"))
    < Cardinality({s \in NewIds : sessions[s] = NoToken})

HostRequests ==
  \/ MayMint /\ HostSends("new", NoSid)
  \/ \E s \in Known : \E kind \in SessionKinds : HostSends(kind, s)
  \/ \E kind \in {"bad_prompt", "bad_cancel", "control", "warmup"} : HostSends(kind, NoSid)

\* The host answers a request it has read, possibly late or more than once.
HostReplies ==
  \E r \in written :
    HostWrites([kind |-> "reply", sid |-> NoSid, at |-> sent + 1, rpc |-> r])

HostCloses ==
  /\ server = "up" /\ ~hostClosed
  /\ hostClosed' = TRUE
  /\ UNCHANGED <<inbox, sent, routerVars, queue, tableVars, rpcVars, drainVars,
                 turnVars, responses, server>>

(***************************************************************************)
(* Frame router.                                                           *)
(***************************************************************************)

RouterTakes(kinds) ==
  /\ server = "up" /\ ~routerDone
  /\ inbox # <<>> /\ Head(inbox).kind \in kinds

\* A frame without a method: complete the pending request it names, if any.
\* The value reaches the turn only while the turn still holds the receiver.
RouteReply ==
  /\ RouterTakes({"reply"})
  /\ LET r == Head(inbox).rpc
         hit == {p \in pendingRequests : p.id = r}
     IN  /\ pendingRequests' = pendingRequests \ hit
         /\ reply' = IF hit # {} /\ r = rpc THEN "value" ELSE reply
  /\ inbox' = Tail(inbox)
  /\ UNCHANGED <<sent, hostClosed, routerVars, queue, tableVars, nextRpc, rpc,
                 drainVars, turnVars, responses, server>>

RouteRequest ==
  /\ RouterTakes(FrameKinds \ {"reply", "cancel"})
  /\ queue' = Append(queue, Head(inbox))
  /\ inbox' = Tail(inbox)
  /\ UNCHANGED <<sent, hostClosed, routerVars, tableVars, rpcVars, drainVars,
                 turnVars, responses, server>>

\* Fast path, first half: clone the session's token out of the map.
RouteCancelLookup ==
  /\ RouterTakes({"cancel"})
  /\ held = {}
  /\ held' = {cancelTokens[Head(inbox).sid]}
  /\ UNCHANGED <<hostVars, routerDone, lastCancel, queue, tableVars, rpcVars,
                 drainVars, turnVars, responses, server>>

\* Second half: cancel the clone, then forward the frame for the re-arm.
RouteCancelForward ==
  /\ RouterTakes({"cancel"})
  /\ held # {}
  /\ tripped' = tripped \cup (held \ {NoToken})
  /\ held' = {}
  /\ lastCancel' = [lastCancel EXCEPT ![Head(inbox).sid] = Head(inbox).at]
  /\ queue' = Append(queue, Head(inbox))
  /\ inbox' = Tail(inbox)
  /\ UNCHANGED <<sent, hostClosed, routerDone, sessions, cancelTokens,
                 nextToken, disk, rpcVars, drainVars, turnVars, responses,
                 server>>

RouteEof ==
  /\ server = "up" /\ ~routerDone
  /\ inbox = <<>> /\ hostClosed
  /\ routerDone' = TRUE
  /\ UNCHANGED <<hostVars, held, lastCancel, queue, tableVars, rpcVars,
                 drainVars, turnVars, responses, server>>

(***************************************************************************)
(* Dispatcher: one forwarded frame at a time.                              *)
(***************************************************************************)

\* Fault: a prompt spawned instead of awaited.
Dispatches_Spawned(kind) ==
  server = "up" /\ queue # <<>> /\ Head(queue).kind = kind

Dispatches(kind) ==
  /\ server = "up" /\ pc = "idle"
  /\ queue # <<>> /\ Head(queue).kind = kind

Respond(frame, what) ==
  responses' = Append(responses, [at |-> frame.at, outcome |-> what])

\* Fault: the fast-path map keeps the old token.
Arm_StateOnly(s) ==
  /\ sessions' = [sessions EXCEPT ![s] = nextToken]
  /\ nextToken' = nextToken + 1
  /\ UNCHANGED cancelTokens

\* A session gets a fresh token, in the fast-path map and in its state.
Arm(s) ==
  /\ sessions' = [sessions EXCEPT ![s] = nextToken]
  /\ cancelTokens' = [cancelTokens EXCEPT ![s] = nextToken]
  /\ nextToken' = nextToken + 1

DispatchNew ==
  /\ Dispatches("new")
  /\ \E s \in NewIds :
       /\ sessions[s] = NoToken
       /\ Arm(s)
  /\ Respond(Head(queue), "created")
  /\ queue' = Tail(queue)
  /\ UNCHANGED <<hostVars, routerVars, tripped, disk, rpcVars, drainVars,
                 turnVars, server>>

\* session/load replaces any live session of that id.
DispatchLoad ==
  /\ Dispatches("load")
  /\ LET s == Head(queue).sid IN
       \/ /\ s \in disk
          /\ Arm(s)
          /\ Respond(Head(queue), "loaded")
       \/ /\ s \notin disk
          /\ Respond(Head(queue), "not_found")
          /\ UNCHANGED <<sessions, cancelTokens, nextToken>>
  /\ queue' = Tail(queue)
  /\ UNCHANGED <<hostVars, routerVars, tripped, disk, rpcVars, drainVars,
                 turnVars, server>>

\* session/set_config_option: a live session is saved, best effort; an unknown
\* one is answered just the same.  Model and tier are in Capability.
DispatchConfig ==
  /\ Dispatches("config")
  /\ LET s == Head(queue).sid IN
       disk' \in IF sessions[s] = NoToken THEN {disk} ELSE {disk, disk \cup {s}}
  /\ Respond(Head(queue), "done")
  /\ queue' = Tail(queue)
  /\ UNCHANGED <<hostVars, routerVars, sessions, cancelTokens, tripped, nextToken,
                 rpcVars, drainVars, turnVars, server>>

\* initialize, session/set_mode and unknown methods are answered at once.
DispatchControl ==
  /\ Dispatches("control")
  /\ \E what \in {"done", "error"} : Respond(Head(queue), what)
  /\ queue' = Tail(queue)
  /\ UNCHANGED <<hostVars, routerVars, tableVars, rpcVars, drainVars, turnVars,
                 server>>

\* session/warmup, awaited inline: the frame is done with, and the next taken,
\* when the backend has loaded the model, failed or timed out.
DispatchWarmup ==
  /\ Dispatches("warmup")
  /\ Respond(Head(queue), "done")
  /\ queue' = Tail(queue)
  /\ UNCHANGED <<hostVars, routerVars, tableVars, rpcVars, drainVars, turnVars,
                 server>>

\* Fault: the tripped token is left in place.
DispatchCancel_NoRearm ==
  /\ Dispatches("cancel")
  /\ tripped' = tripped \cup ({sessions[Head(queue).sid]} \ {NoToken})
  /\ queue' = Tail(queue)
  /\ UNCHANGED <<hostVars, routerVars, sessions, cancelTokens, nextToken, disk,
                 rpcVars, drainVars, turnVars, responses, server>>

\* Turn-scoped cancel: trip, re-arm, drop the session's pending senders.
DispatchCancel ==
  /\ Dispatches("cancel")
  /\ LET s == Head(queue).sid
         mine == {p \in pendingRequests : p.sid = s}
     IN  IF sessions[s] = NoToken
         THEN /\ cancelTokens' = [cancelTokens EXCEPT ![s] = NoToken]
              /\ UNCHANGED <<sessions, tripped, nextToken, pendingRequests,
                             reply>>
         ELSE /\ tripped' = tripped \cup {sessions[s]}
              /\ Arm(s)
              /\ pendingRequests' = pendingRequests \ mine
              /\ reply' = IF \E p \in mine : p.id = rpc THEN "dropped" ELSE reply
  /\ queue' = Tail(queue)
  /\ UNCHANGED <<hostVars, routerVars, disk, nextRpc, rpc, drainVars, turnVars,
                 responses, server>>

\* Parameters of a cancel that do not parse end run(), and with it the process;
\* those of session/new and session/set_config_option too.
DispatchBadCancel ==
  /\ Dispatches("bad_cancel")
  /\ server' = "failed"
  /\ queue' = Tail(queue)
  /\ UNCHANGED <<hostVars, routerVars, tableVars, rpcVars, drainVars, turnVars,
                 responses>>

\* Fault: a prompt that fails early is only logged.
RejectPrompt_Silent ==
  /\ \/ Dispatches("bad_prompt")
     \/ Dispatches("prompt") /\ sessions[Head(queue).sid] = NoToken
  /\ queue' = Tail(queue)
  /\ UNCHANGED <<hostVars, routerVars, tableVars, rpcVars, drainVars, turnVars,
                 responses, server>>

\* A prompt that fails before its turn starts is answered and serving goes on.
RejectPrompt ==
  /\ \/ Dispatches("bad_prompt") /\ Respond(Head(queue), "error")
     \/ /\ Dispatches("prompt")
        /\ sessions[Head(queue).sid] = NoToken
        /\ Respond(Head(queue), "unknown_session")
  /\ queue' = Tail(queue)
  /\ UNCHANGED <<hostVars, routerVars, tableVars, rpcVars, drainVars, turnVars,
                 server>>

\* A session without a measured tier is probed first, its warm-up awaited inline.
StartTurn ==
  /\ Dispatches("prompt")
  /\ LET f == Head(queue) IN
       /\ sessions[f.sid] # NoToken
       /\ cur' = [at |-> f.at, sid |-> f.sid, tok |-> sessions[f.sid]]
  /\ pc' = "request"
  /\ chan' = <<>> /\ writing' = NoFrame /\ drainer' = "up"
  /\ queue' = Tail(queue)
  /\ UNCHANGED <<hostVars, routerVars, tableVars, rpcVars, written, updates,
                 outcome, responses, server>>

Shutdown ==
  /\ server = "up" /\ pc = "idle"
  /\ queue = <<>> /\ routerDone
  /\ server' = "eof"
  /\ UNCHANGED <<hostVars, routerVars, queue, tableVars, rpcVars, drainVars,
                 turnVars, responses>>

(***************************************************************************)
(* The turn, inside handle_session_prompt.                                 *)
(***************************************************************************)

InTurn(where) == server = "up" /\ pc = where
Cancelled == cur.tok \in tripped
Goto(where) == pc' = where /\ UNCHANGED <<cur, outcome>>

\* The bridge returned: save the session (best effort), drop the senders.
BridgeReturns(what) ==
  /\ pc' = "join" /\ outcome' = what /\ UNCHANGED cur
  /\ disk' \in {disk, disk \cup {cur.sid}}
  /\ UNCHANGED <<hostVars, routerVars, queue, sessions, cancelTokens, tripped,
                 nextToken, drainVars, responses, server>>

\* Fault: an unbounded channel.
EmitUpdate_Unbounded ==
  /\ server = "up" /\ pc \in {"request", "stream", "tools"}
  /\ updates < MaxUpdates
  /\ updates' = updates + 1
  /\ chan' = Append(chan, [kind |-> "update", rpc |-> 0, turn |-> cur.at])
  /\ UNCHANGED <<hostVars, routerVars, queue, tableVars, rpcVars, writing,
                 drainer, written, turnVars, responses, server>>

\* write_update: try_send, the frame is dropped on a full or closed channel.
EmitUpdate ==
  /\ server = "up" /\ pc \in {"request", "stream", "tools"}
  /\ updates < MaxUpdates
  /\ updates' = updates + 1
  /\ chan' = IF drainer = "up" /\ Len(chan) < ChanCap
             THEN Append(chan, [kind |-> "update", rpc |-> 0, turn |-> cur.at])
             ELSE chan
  /\ UNCHANGED <<hostVars, routerVars, queue, tableVars, rpcVars, writing,
                 drainer, written, turnVars, responses, server>>

\* Response headers arrive.  Nothing here looks at the cancel token.
BackendAnswers ==
  /\ InTurn("request")
  /\ Goto("stream")
  /\ UNCHANGED <<hostVars, routerVars, queue, tableVars, rpcVars, drainVars,
                 responses, server>>

\* The request fails: whatever the kind, the bridge degrades it to a refusal.
BackendFails ==
  /\ InTurn("request")
  /\ BridgeReturns("end")
  /\ UNCHANGED rpcVars

\* The select over the stream is biased: a tripped token wins.
StreamCancelled ==
  /\ InTurn("stream") /\ Cancelled
  /\ BridgeReturns("cancelled")
  /\ UNCHANGED rpcVars

StreamEnds ==
  /\ InTurn("stream") /\ ~Cancelled
  /\ \/ /\ BridgeReturns("end")
     \/ /\ Goto("tools")
        /\ UNCHANGED <<hostVars, routerVars, queue, tableVars, drainVars,
                       responses, server>>
  /\ UNCHANGED rpcVars

\* write_mcp_real, steps 1 and 2: fresh id, sender registered before any I/O.
RegisterRpc ==
  /\ InTurn("tools") /\ nextRpc <= MaxRpc
  /\ rpc' = nextRpc
  /\ nextRpc' = nextRpc + 1
  /\ pendingRequests' = pendingRequests \cup {[id |-> nextRpc, sid |-> cur.sid]}
  /\ reply' = "none"
  /\ Goto("enqueue")
  /\ UNCHANGED <<hostVars, routerVars, queue, tableVars, drainVars, responses,
                 server>>

\* Fault: try_send for mcp/* too, the frame is lost on a full channel.
EnqueueRpc_TrySend ==
  /\ InTurn("enqueue") /\ drainer = "up"
  /\ chan' = IF Len(chan) < ChanCap
             THEN Append(chan, [kind |-> "mcp", rpc |-> rpc, turn |-> cur.at])
             ELSE chan
  /\ Goto("await")
  /\ UNCHANGED <<hostVars, routerVars, queue, tableVars, rpcVars, writing,
                 drainer, written, updates, responses, server>>

\* Step 3: the request joins the ordered channel, waiting for room.
EnqueueRpc ==
  /\ InTurn("enqueue") /\ drainer = "up" /\ Len(chan) < ChanCap
  /\ chan' = Append(chan, [kind |-> "mcp", rpc |-> rpc, turn |-> cur.at])
  /\ Goto("await")
  /\ UNCHANGED <<hostVars, routerVars, queue, tableVars, rpcVars, writing,
                 drainer, written, updates, responses, server>>

Unregister == pendingRequests' = {p \in pendingRequests : p.id # rpc}

\* Enqueue timeout (no room) or closed channel (drainer gone): an error result,
\* then the next call of the batch or another round.
EnqueueFails ==
  /\ InTurn("enqueue")
  /\ drainer = "dead" \/ Len(chan) = ChanCap
  /\ Unregister
  /\ \E next \in {"tools", "request"} : Goto(next)
  /\ UNCHANGED <<hostVars, routerVars, queue, tableVars, nextRpc, rpc, reply,
                 drainVars, responses, server>>

\* Fault: the token is looked at only once a reply is there.
AwaitCancelled_AfterReply ==
  /\ InTurn("await") /\ Cancelled /\ reply # "none"
  /\ Goto("abort")
  /\ UNCHANGED <<hostVars, routerVars, queue, tableVars, rpcVars, drainVars,
                 responses, server>>

\* Step 4: biased select, cancellation before the reply before the timer.
\* The arm that wins removes the entry afterwards, under the lock.
AwaitCancelled ==
  /\ InTurn("await") /\ Cancelled
  /\ Goto("abort")
  /\ UNCHANGED <<hostVars, routerVars, queue, tableVars, rpcVars, drainVars,
                 responses, server>>

AwaitReply ==
  /\ InTurn("await") /\ ~Cancelled
  /\ reply # "none"
  /\ \E next \in {"tools", "request"} : Goto(next)
  /\ UNCHANGED <<hostVars, routerVars, queue, tableVars, rpcVars, drainVars,
                 responses, server>>

AwaitTimeout ==
  /\ InTurn("await") /\ ~Cancelled
  /\ reply = "none"
  /\ Goto("expire")
  /\ UNCHANGED <<hostVars, routerVars, queue, tableVars, rpcVars, drainVars,
                 responses, server>>

Abort ==
  /\ InTurn("abort")
  /\ Unregister
  /\ BridgeReturns("cancelled")
  /\ UNCHANGED <<nextRpc, rpc, reply>>

\* Fault: the timeout leaves its entry in the map.
Expire_KeepsEntry ==
  /\ InTurn("expire")
  /\ \E next \in {"tools", "request"} : Goto(next)
  /\ UNCHANGED <<hostVars, routerVars, queue, tableVars, rpcVars, drainVars,
                 responses, server>>

Expire ==
  /\ InTurn("expire")
  /\ Unregister
  /\ \E next \in {"tools", "request"} : Goto(next)
  /\ UNCHANGED <<hostVars, routerVars, queue, tableVars, nextRpc, rpc, reply,
                 drainVars, responses, server>>

\* The turn ends from the tool loop: budget or breaker.
LeaveTools ==
  /\ InTurn("tools")
  /\ BridgeReturns("end")
  /\ UNCHANGED rpcVars

\* Fault: the response does not wait for the drainer.
FinishTurn_NoJoin ==
  /\ InTurn("join")
  /\ responses' = Append(responses, [at |-> cur.at, outcome |-> outcome])
  /\ pc' = "idle" /\ cur' = NoTurn /\ outcome' = "end"
  /\ UNCHANGED <<hostVars, routerVars, queue, tableVars, rpcVars, drainVars,
                 server>>

\* Join the drainer, then write the response.
FinishTurn ==
  /\ InTurn("join")
  /\ drainer = "up" => chan = <<>> /\ writing = NoFrame
  /\ responses' = Append(responses,
       [at |-> cur.at, outcome |-> IF drainer = "up" THEN outcome ELSE "error"])
  /\ pc' = "idle" /\ cur' = NoTurn /\ outcome' = "end"
  /\ UNCHANGED <<hostVars, routerVars, queue, tableVars, rpcVars, drainVars,
                 server>>

(***************************************************************************)
(* Drainer task of the running turn.                                       *)
(***************************************************************************)

Draining == server = "up" /\ pc # "idle" /\ drainer = "up"

DrainerReceives ==
  /\ Draining /\ writing = NoFrame /\ chan # <<>>
  /\ writing' = Head(chan)
  /\ chan' = Tail(chan)
  /\ UNCHANGED <<hostVars, routerVars, queue, tableVars, rpcVars, drainer,
                 written, updates, turnVars, responses, server>>

DrainerWrites ==
  /\ Draining /\ writing # NoFrame
  /\ written' = IF writing.kind = "mcp" THEN written \cup {writing.rpc}
                                        ELSE written
  /\ writing' = NoFrame
  /\ UNCHANGED <<hostVars, routerVars, queue, tableVars, rpcVars, chan, drainer,
                 updates, turnVars, responses, server>>

\* The write panics: the receiver is dropped with everything queued.
DrainerPanics ==
  /\ Draining /\ writing # NoFrame
  /\ drainer' = "dead" /\ chan' = <<>> /\ writing' = NoFrame
  /\ UNCHANGED <<hostVars, routerVars, queue, tableVars, rpcVars, written,
                 updates, turnVars, responses, server>>

-----------------------------------------------------------------------------
Host == HostRequests \/ HostReplies \/ HostCloses

Router == RouteReply \/ RouteRequest \/ RouteCancelLookup
          \/ RouteCancelForward \/ RouteEof

AtOnce == DispatchNew \/ DispatchLoad \/ DispatchConfig \/ DispatchControl
          \/ DispatchCancel \/ DispatchBadCancel \/ RejectPrompt \/ Shutdown

Dispatcher == AtOnce \/ DispatchWarmup \/ StartTurn

Turn == EmitUpdate \/ BackendAnswers \/ BackendFails \/ StreamCancelled
        \/ StreamEnds \/ RegisterRpc \/ EnqueueRpc \/ EnqueueFails
        \/ AwaitCancelled \/ AwaitReply \/ AwaitTimeout \/ Abort \/ Expire
        \/ LeaveTools \/ FinishTurn

Drainer == DrainerReceives \/ DrainerWrites \/ DrainerPanics

Next == Host \/ Router \/ Dispatcher \/ Turn \/ Drainer

Spec == Init /\ [][Next]_vars

(***************************************************************************)
(* Fairness.  A runnable task is polled; the host reads stdout; the         *)
(* pre-stream cap bounds a request.  FairSpec grants nothing more: no timer, *)
(* no end of a stream, a warm-up or a probe, no answer from the host.        *)
(***************************************************************************)
TasksRun ==
  /\ WF_vars(Router) /\ WF_vars(AtOnce)
  /\ WF_vars(StreamCancelled) /\ WF_vars(RegisterRpc \/ LeaveTools)
  /\ WF_vars(EnqueueRpc) /\ WF_vars(drainer = "dead" /\ EnqueueFails)
  /\ WF_vars(AwaitCancelled) /\ WF_vars(AwaitReply)
  /\ WF_vars(Abort) /\ WF_vars(Expire) /\ WF_vars(FinishTurn)
HostReads == WF_vars(DrainerReceives) /\ WF_vars(DrainerWrites)
RequestBounded == WF_vars(BackendAnswers \/ BackendFails)
TimersFire ==
  /\ WF_vars(AwaitTimeout) /\ WF_vars(EnqueueFails) /\ WF_vars(StreamEnds)
  /\ WF_vars(DispatchWarmup) /\ WF_vars(StartTurn)

FairSpec == Spec /\ TasksRun /\ HostReads /\ RequestBounded

(***************************************************************************)
(* Properties.                                                             *)
(***************************************************************************)

Idle == pc = "idle"
Waiting == {"enqueue", "await", "abort", "expire"}

HostTypes ==
  inbox \in Seq(Frame) /\ sent \in Nat /\ hostClosed \in BOOLEAN
RouterTypes ==
  /\ held \in SUBSET Nat /\ routerDone \in BOOLEAN
  /\ lastCancel \in [Sid -> Nat] /\ queue \in Seq(Frame)
TableTypes ==
  /\ sessions \in [Sid -> Nat] /\ cancelTokens \in [Sid -> Nat]
  /\ tripped \in SUBSET Nat /\ nextToken \in Nat \ {0} /\ disk \in SUBSET Sid
RpcTypes ==
  /\ pendingRequests \in SUBSET [id : Nat, sid : Sid]
  /\ nextRpc \in Nat \ {0} /\ rpc \in Nat
  /\ reply \in {"none", "value", "dropped"}
DrainTypes ==
  /\ chan \in Seq(OutFrame) /\ Len(chan) <= ChanCap
  /\ writing \in OutFrame \cup {NoFrame} /\ drainer \in {"up", "dead"}
  /\ written \in SUBSET Nat /\ updates \in Nat
TurnTypes ==
  /\ pc \in TurnPcs \cup {"idle"} /\ outcome \in Outcomes
  /\ cur \in IF pc = "idle" THEN {NoTurn}
              ELSE [at : Nat, sid : Sid, tok : Nat]
OutputTypes ==
  /\ responses \in Seq([at : Nat, outcome : Outcomes])
  /\ server \in {"up", "eof", "failed"}

\* Types of all variables; among them that a turn runs exactly when the
\* dispatcher is not idle and that the drainer channel keeps its capacity.
TypeOK ==
  /\ HostTypes /\ RouterTypes /\ TableTypes /\ RpcTypes
  /\ DrainTypes /\ TurnTypes /\ OutputTypes

\* pending_requests holds at most the request the running turn waits for, and
\* nothing once the turn has left the wait: no leaked entry, no entry of
\* another session, and so no sender for session/cancel to drop under a waiter.
NoStrayWaiter ==
  /\ pendingRequests \subseteq {[id |-> rpc, sid |-> cur.sid]}
  /\ pendingRequests # {} => pc \in Waiting
  /\ reply # "dropped"

\* The ordering barrier: a frame still on its way to stdout belongs to the
\* running turn, whose response is not written yet.
UpdatesPrecedeResponse ==
  \A f \in Range(chan) \cup ({writing} \ {NoFrame}) :
    /\ ~Idle /\ f.turn = cur.at
    /\ \A i \in DOMAIN responses : responses[i].at # f.turn

\* Requests are answered once each, in the order the host wrote them, and a
\* running turn is not answered already.
ResponsesInOrder ==
  /\ \A i, j \in DOMAIN responses : i < j => responses[i].at < responses[j].at
  /\ ~Idle => \A i \in DOMAIN responses : responses[i].at < cur.at

\* The map the router's fast path reads and the session states agree, and no
\* two sessions share a token.
TokensCoherent ==
  /\ cancelTokens = sessions
  /\ \A s, t \in Sid : sessions[s] = sessions[t] => s = t \/ sessions[s] = NoToken

\* A turn is only ever cancelled by a cancel of its own session that the host
\* wrote after the prompt: neither an earlier cancel whose re-arm is pending
\* nor another session's cancel reaches it.
CancelScope ==
  ~Idle /\ Cancelled => lastCancel[cur.sid] > cur.at

\* A turn waiting for a reply has its request on the way to the host: unlike
\* session/update, an mcp/* frame is never dropped on a full channel.
AwaitedRequestSent ==
  pc = "await" /\ drainer = "up" =>
    rpc \in written \cup {f.rpc : f \in Range(chan) \cup {writing}}

\* Once timers fire and streams end (their guards are on by default), every
\* request the dispatcher is given is answered, unless run() failed.
EveryRequestAnswered ==
  TimersFire => \A a \in 1..MaxFrames :
    (\E f \in Range(queue) : f.at = a /\ f.kind \notin {"cancel", "bad_cancel"})
      ~> (server = "failed" \/ \E i \in DOMAIN responses : responses[i].at = a)

\* A turn whose token is tripped ends without help from the model, the host's
\* replies or a timer.
CancelEndsTurn == (~Idle /\ Cancelled) ~> Idle

\* Claimed by the fast path: a cancel the router has seen reaches the turn of
\* its session that is running, although it still waits in the queue.
NoLostCancel ==
  ~Idle /\ (\E f \in Range(queue) : f.kind = "cancel" /\ f.sid = cur.sid)
    => Cancelled
=============================================================================
