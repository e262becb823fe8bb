# TLA+ models of nwiro-acp

`nwiro-acp` is a shim between an ACP host (the Unreal Engine bridge, which speaks
line-delimited JSON-RPC on stdin/stdout) and an OpenAI-compatible local model
server.  It keeps sessions, streams the model's answer to the host as
`session/update` frames, runs the tools the model calls by asking the host
(`mcp/connect`, `mcp/message`), and stores each session in a file.

These modules model the parts that decide whether it works: what happens when
frames, timers, cancels, failing backends and crashes meet in an order no test
was written for.  TLC checks them on small instances; TLAPS proves the safety
properties and the two refinements for every instance.

## The system

| part | source | state | operations |
|---|---|---|---|
| ACP stdio server | `src/acp/server.rs` | `sessions`, `cancel_tokens`, `pending_requests`, the request queue, one drainer channel per turn | the router task (replies, fast-path cancel, forwarding), the single dispatcher (every method, end of input), a drainer task per turn |
| ReAct loop | `src/bridge/mod.rs`, `src/bridge/tools.rs` | the session's history; round, batch and streaks of the turn | prune, call the model, run a batch of tool calls, stop |
| chat completion | `src/openai/client.rs`, the overflow arm of `src/bridge/mod.rs` | attempt, deadlines, size of the tool set, `learned_tool_ceiling` | attempt, back off, retry, stream, trim tools and call again, degrade |
| session persistence | `src/persist.rs` | session files, temporary files, first-use set | save, sweep, load |
| configuration, warm-up, tool tier | `src/acp/server.rs`, `src/openai/client.rs`, `src/bridge/mod.rs` | client, `last_warmup`, model, tier and ceiling of each session | initialize, warm-up, set model, lazy probe, strip and cut the tools of a prompt |
| streamed output | `src/openai/client.rs` (think stripper), `src/bridge/mod.rs` (closure, coalescer, buffer), `src/bridge/emulated_parser.rs` | text held back | push, flush, scan, cut, show |
| connector runtime | `src/connector/*`, a branch of `src/acp/server.rs` | sessions and tokens of the flag-gated path, the event channel | start, configure, prompt, cancel, close |
| frame codec, messages, name tables, coercion | the rest of `src/` | none that outlives a call | encoding, tables |

The router owns stdin.  It resolves replies to `mcp/*` itself, trips a session's
token for `session/cancel` before it queues the frame, and queues everything
else; the dispatcher takes one frame at a time and awaits a whole turn.  During a
turn the bridge loop pushes updates and `mcp/*` requests into a bounded channel
that the drainer empties onto stdout; the response is written by the dispatcher
after the drainer has been joined.  The turn calls the client, and at its end the
history is saved.  Which tools and pictures the turn sends is decided from the tier
its session was given, by the last warm-up or by a probe of its own; what comes
back passes the stripper, the coalescer or the buffer, and the scanner on its way to
the drainer.  With `LOCAL_LLM_USE_CONNECTOR=1` the same bridge runs in a task of its own
and the dispatcher reads its events instead.

What is hard about it: the cancel token lives in two places and is replaced
while the router reads it; a reply races a timeout and a cancel; updates are
dropped when the channel is full but requests must not be; time-outs, attempts
and back-offs add up against a watchdog in the host; the history must stay well
formed (every call answered) whichever way a turn ends, and while it is pruned;
a file is written in steps and the process may end between any two; a tier is
measured for one model and used for another; a tag or an envelope is cut anywhere.
`PROJECT.json` lists each of these under `hazards`, at its line.

## Modules

| module | models | composed with |
|---|---|---|
| `AcpServer` | router, dispatcher, turn, drainer and host | the turn is the bridge's outline: it emits, calls out, ends |
| `AcpServerProofs` | theorems of `AcpServer` | extends it |
| `ModelRound` | one model call of a round with its overflow loop | the round of `ReactTurn` |
| `ReactTurn` | the loop over rounds and tool calls, the history over turns | a round trip of `AcpServer` is its `SendCall` ... `CallReturns` |
| `ModelRoundProofs`, `ReactTurnProofs` | theorems of `ModelRound` and `ReactTurn` | extend them |
| `Capability` | tiers, ceilings and pictures over warm-ups, configurations, saves and restarts | the handlers of `AcpServer` it gives an effect to |
| `CapabilityProofs` | theorems of `Capability` | extends it |
| `ReplyText` | the text of a reply: what is reasoning, what is an envelope | operators only |
| `DeliveredText` | what the user is promised of a reply | abstract |
| `StreamPipeline` | how a reply gets from the backend's stream to the host | implements `DeliveredText` |
| `ReplyTextProofs`, `StreamPipelineProofs` | facts about texts; theorems of `StreamPipeline` | extend them |
| `Connector` | the connector's sessions, prompt task and event stream | `AcpServer`'s other way of running a turn |
| `ConnectorProofs` | theorems of `Connector` | extends it |
| `DurableStore` | what the session files promise: atomic and bounded | abstract |
| `SessionStore` | how `persist.rs` keeps that promise, step by step | implements `DurableStore` |
| `SessionStoreProofs` | theorems of `SessionStore` | extends it |
| `MCAcpServer`, `MCModelRound`, `MCReactTurn`, `MCCapability`, `MCStreamPipeline`, `MCConnector`, `MCSessionStore` | values of the constants for TLC | |

Definitions whose comment starts with `Fault:` are not the code.  Each is a
plausible slip (a guard dropped, an entry kept, a sort the wrong way); replacing
the definition that follows it by the fault makes TLC report the property that
`PROJECT.json` names under `mutants`.

### AcpServer

`inbox` is stdin, `queue` the router's channel to the dispatcher, `chan` and
`writing` the drainer's channel and the frame in its hand.  `sessions[s]` and
`cancelTokens[s]` hold the number of the session's current token (the copies in
`SessionState` and in the router's map), `tripped` the tokens that are cancelled.
`pendingRequests` is the table of the router; `rpc`, `reply` and `pc` the request
the turn waits for.  The actions are the arms of the router (`RouteReply`,
`RouteCancelLookup` then `RouteCancelForward`, `RouteRequest`, `RouteEof`), the
dispatcher's handlers (`DispatchNew` ... `RejectPrompt`, `StartTurn`, `Shutdown`; every
method of the protocol has one, `DispatchControl` standing for those that answer at
once and leave this module's state alone),
the steps of a turn (stream, register, enqueue, await, abort, finish) and of the
drainer (`DrainerReceives`, `DrainerWrites`, `DrainerPanics`).  The router's cancel
is two actions because the code looks the token up, and queues the frame, with
the dispatcher free to run in between.

Abstracted: a frame is its kind, session, arrival number and request id; the
model's answer is any number of updates; tool loops are any number of requests.

* `NoStrayWaiter`: `pending_requests` holds the request the turn waits for and
  nothing else; `AwaitedRequestSent`: it never waits for a request that was dropped.
* `UpdatesPrecedeResponse`, `ResponsesInOrder`: nothing of a turn is written after
  its response; responses follow the requests, once each.
* `TokensCoherent`: both copies of a token agree and no two sessions share one;
  `CancelScope`: a running turn is cancelled only by a cancel of its own session
  that came after the one that re-armed it.
* `EveryRequestAnswered`, `CancelEndsTurn` (liveness): below.

`FairSpec` gives weak fairness to the router, the dispatcher, the drainer and the
steps of the turn (tokio runs every ready task), to the host reading its pipe,
and to the end of the backend's answer, which the pre-stream cap, the
inactivity and turn deadlines of `chat_completion_stream` bound (`ModelRound`
shows that).  It gives none to the host answering `mcp/*`, nor to what ends only by
a timer: the 30 s round trip, the enqueue, and a warm-up or the lazy probe at the
head of a prompt, which the dispatcher awaits itself.  `CancelEndsTurn` holds without
them, `EveryRequestAnswered` assumes the timers fire (`TimersFire`) and nothing of the
host.

### ModelRound

Time is in milliseconds, caps and connect timeouts in seconds as they are configured; it
passes inside the attempt.  `PROMPT_*` settings are drawn
from the sets `RawCaps` and `ConnectTimeouts` and go through the code's own clamps
(`effective_prestream_cap`, `effective_max_prestream_attempts`).  A call is a
sequence of attempts ended by a status, a JSON envelope, a time-out or headers;
then the stream with its biased select, deadlines and response cap; then the
bridge's arm: trim and call again, learn the ceiling, or degrade.  A tool set is
its size and the prompt `overhead + PerTool * tools` tokens.

* `FirstTokenInTime`: attempts, caps and back-offs of one call stay within the
  host's first-token watchdog, whatever the operator sets.  The bound is per call:
  an overflow retry starts another one.
* `SlowConnectNotRetried`: a host that is unreachable is not taken for a slow one.
* `LearnedWasServed`: a ceiling is remembered only if a call with it succeeded.
* `StreamedCallOnlyTrimmed`: once chunks of a call were handed to the bridge, no time-out,
  dropped connection, error or cancel makes the round send again, with one exception, an
  overflow reported inside the stream; that one costs a counted retry and tools, so an
  answer is torn at most `MAX_OVERFLOW_RETRIES` times (see "What the runs found").
* `TrimProgress`, `RoundEnds`: each trim drops at least one tool and keeps one, and the
  round ends.

Fairness: the round's own timers and steps; not the backend.

### ReactTurn

`history` is `state.history` (role, the calls a message makes, the call it answers);
the rest are the locals of `handle_session_prompt`.  `Prompt` opens a turn;
`RoundsExceeded`, `PayloadTooLarge`, `ModelRefused`, `ModelCancelled`, `AnswersText`,
`AnswersBleedWithCalls` and `AnswersCalls` are the ways a round goes, each with the
pruning at its head; `Connects`, `CallFailsHere`, `SendCall`, `CallReturns`,
`CallCancelled` run a batch, with both breakers in `Result`.  Sizes are counted in
messages, a call's signature (name and canonical arguments) is a value of `Sigs`.
Synthesised calls of an Emulated model are batches of one.

* `CallsAnswered`: between turns, every call in the history is answered right
  after the message that makes it; only a turn cancelled in a batch leaves its
  last message open (see the findings).  `ResultsHaveCalls`: no result without its
  call, and no call answered twice, whatever was pruned.
* `PromptKept`: pruning keeps the system message, the running prompt and all after.
* `StreaksExact`: the two counters are the length of the last run of identical
  calls with the same verdict, and the turn is over when one reaches its limit.
* `NoOrphanRows`: rows announced as pending are closed unless the turn is cancelled.
* `OneLateCall`: after a cancel at most one more frame leaves for the host.
* `TurnEnds`: fairness is on rounds and calls, because a model call and a round
  trip end by `ModelRound` and `AcpServer`.

### Capability

One handler is one action, for the dispatcher runs one at a time.  `client` is the
model of `Server.client`, `warmed` is `last_warmup`, `session` and `stored` the sessions and
their files (model, tier, learned ceiling, pictures in the history).  A model id is
its base name, its tag and its digest, because `normalize_model_id` compares ids after
removing a `sha256` digest and `:latest`; which names are fragile or see is a constant
(the patterns are tables).  `WarmupResults` is every outcome the backend can cause: a
request that fails, an error body, and a probe that is lost, refused, retried
without `tool_choice`, answered by a call, by a call in text or by prose.  A prompt
probes if it must, strips or cuts the tools, lists their names in the directives,
and may learn a ceiling.  `verdict`, `earned` and `since` only record what happened.

* `TierEarned`: no session, live or in its file, has a tier that was never measured
  for its model, whatever was configured, loaded and restarted in between.
* `NoStaleGrant`: tools come to a live session only from the latest warm-up of the
  process, and only if that was of its model.
* `StripExplained`: tools are stripped, unless forced, only in a process that tried a
  warm-up, and from a session configured since only if that found none or was of
  another model.
* `SurfaceBounded`: the names in the directives and the tools sent are the same; they stay
  within the family's ceiling and within the one the session had learned when the
  prompt began (`sent.learned`, whichever process learned it); and a ceiling leaves one
  tool.
* `PicturesReadable`: no picture of an earlier turn is sent, and none while the
  client's model does not see.  (The stronger claim fails, see the findings.)

### StreamPipeline, DeliveredText and ReplyText

A reply is a sequence over fourteen characters, each standing for a run the code
treats as one: the four that make think tags, braces, a quote, a tool's name, the
ends of a `tool_call` element, a Markdown header, a wall of schema, white space,
and other text.  `StreamPipeline` is the code's way: `Push` is the loop of
`ThinkStripper`, with the partial tag it holds; `OnChunk` the closure given to
`chat_completion_stream`; `push_content` ... `flush` the coalescer, where time and size
may call for a flush at any push; `JsonSpans` and `XmlSpans` the two scans of
`emulated_parser.rs`; `PostStream` what is shown of the buffer; `ToolRows` the rows.
`Overflow` is the retry after an overflow reported inside the stream.

`ReplyText` says by positions what the code finds by scanning: which characters are
`Visible`, which ranges are `Envelopes`.  `DeliveredText` promises, over whole texts,
that what is shown is at every moment a beginning of what is visible, that at the
end it is all of it, or all but envelopes, or nothing of an echo of the schemas; and
that this is so before a call's row shows.

* `Refinement`: `StreamPipeline` implements `DeliveredText`, however the reply is cut
  into deltas and whenever frames are flushed.
* `CausalOrder`: in a session that streams live, text and thoughts reach the host
  interleaved as they left the stripper, and none is missing at the end.

### Connector

`events` is the prompt task's unbounded channel, `task` its place, `pc` and `responded` the
dispatcher's loop over the event stream.  `notification_to_event` and
`event_to_notification` are the translation there and back; `from_finish_reason` and
`to_acp_jsonrpc_code` that of the end.  The host and the router are `AcpServer`'s, read
without end of input.  A token lives as long as its session and is named by it.

* `WireOrder`: with two tasks at work, stdout shows what the prompt's task emitted, in
  its order and none of it lost, then one response; two requests never mix.
* `CancelScope`: no tripped token waits for a later prompt.  Here a cancel closes the
  session, so the next prompt of that id is answered `-32602`, where the other path
  re-arms it.
* `EveryRequestAnswered`: also when the session is gone and when the task panics
  (in a request, a stream or between tool calls; the wait for a reply has nothing that can).

Fairness: the router, the dispatcher (the host reads stdout) and each wait of the
task, which the deadlines of the request, the stream and the round trip end.

### SessionStore and DurableStore

A session is its version.  `CreateTmp`, `WriteTmp`, `Rename` and the deletions of a
sweep are separate actions, each of which may fail, with `Crash` and `PowerCut`
between any two.  `DurableStore` has one action for a whole save.  Under
`Refinement` the unfinished steps show as nothing, so a crash leaves the old file
or the new one, a file disappears only when it is too old or `Keep` newer ones
exist, and a load restores exactly what was stored.  `DirBounded` and `WriteThrough`
relate the directory to memory between operations.

Whether a session is persisted at all is `resolve_storage_dir`: the kill switch
(`enabled`, chosen anew for every process), the state directory (`StateDir`) and the
working directory the request names.  Without a directory `session/new` makes a
session that is never written and `session/load` is refused; `WriteThrough` also says
that such a session has no file, and that a process which does not persist anchors
nothing.

Assumed: each write gets a later mtime than the ones before, time that files age
by passes between operations, and a power cut loses data that was never synced
but no directory entry.  The order of deletions in a sweep is left open.

## Runs

| run | instance | shows |
|---|---|---|
| `AcpServerSafety` | four host frames of every kind, one new and one stored session, one tool request at a time, channel of capacity 1, two updates | the seven safety properties |
| `AcpServerLiveness` | the same with one session, one update and without the requests answered at once, `FairSpec` | both liveness properties |
| `AcpServerLostCancel` | five frames of turns and cancels | violates `NoLostCancel` |
| `ModelRound` | caps of 0 (off) and 5 s, connect time-outs on both sides of the limit, five tools | all of `ModelRound`'s properties |
| `ReactTurn` | two prompts, three rounds, batches of two, both streak limits 2, pruning above three messages | all of `ReactTurn`'s properties |
| `ReactTurnDangling` | one prompt | violates `HistoryRepaired` |
| `Capability` | one session, three ids (two spellings of a fragile model, a revision that sees), three environments, two warm-ups, one failed save, two processes | all of `Capability`'s properties |
| `CapabilityBlind` | the same | violates `PicturesNeverBlind` |
| `StreamPipeline` | four kinds of session; replies of up to three pieces out of tags, partial tags, braces, envelopes, quotes, schema; one thought, one native call, one retry | `CausalOrder` and the refinement |
| `Connector` | one session, four frames of every kind, one tool request, one update of either of two kinds, `FairSpec` | its three properties |
| `SessionStore` | two sessions, a directory for one, three versions, five ticks, persistence on or off in each process, `StateDir` unset | its invariants and the refinement |
| `SessionStoreTwoShims` | two processes on one directory | violates `LeftoversDead` |

Why the bounds are enough.  Four frames hold the longest scenario that involves
one turn and the control frames around it (new, cancel, prompt, cancel); a
channel of one is full as soon as there is an update; one outstanding request is
what the code allows.  Two signatures and batches of two make every change of
signature and verdict, a breaker in the middle of a batch and one at its end;
two turns make pruning cross a turn boundary.  A directory for one file and two
sessions make the count cap bite on every save.  Two warm-ups are the one that earns
a tier and the one that takes it away, and sessions do not meet in `Capability` but
through `warmed`, so one is enough; two spellings of one model and a revision make
every result of the comparison.  Every delta boundary in a reply of up to twelve
characters is tried, which puts one inside each tag, string and envelope, and two
envelopes nested, overlapping or side by side fit.  In `Connector` four frames are
new, prompt, cancel and one more.  `CHECK_DEADLOCK FALSE` stands
where the input is bounded or the server has stopped at end of input.

## What the runs found

Every `violation` run contradicts a sentence of the repository; `PROJECT.json` has
the quotations.

* A cancel can be lost: the router trips the token the map holds when the frame
  is routed, and a dispatcher that is behind re-arms the session for an earlier
  cancel afterwards.
* A turn cancelled while a tool call is awaited leaves that call, and those after
  it, without results in the history that is saved and sent with the next prompt.
* The sweep of `*.tmp` leftovers is safe within a process only.
* A picture is sent to a session's text-only model when the client's model sees.

Some comments the models follow the code on, against their words.  No run is
spent on them:

* A context overflow reported inside a running stream is trimmed and retried like
  one before it (`src/bridge/mod.rs:1674`), so the turn streams twice into the same
  coalescer and buffer.  `src/openai/client.rs:301` says "Mid-stream and post-byte failures are
  never retried", `:1017` that such an error is "NOT retried — bytes may already have streamed
  this turn", and `src/bridge/mod.rs:1531-1533` that reusing the buffers is safe because they
  "stay empty on the failing attempt".  `StreamedCallOnlyTrimmed` therefore does not claim
  that nothing is sent after a chunk, which `OverflowRetry` with `callDeltas > 0` contradicts,
  but that nothing else does this; `DeliveredText` has `Restart` for it.
* The measured trim is said to over-trim (`src/bridge/mod.rs:770`); when the part of the
  prompt that is not tools is large it leaves too much, and relies on the retries.
* `src/bridge/mod.rs:1463` describes buffering gated by a prefix; the buffer takes all.
* A reply with several envelopes has all of them cut from what is shown and only the
  first one run.
* A warm-up refused for a broken template keeps its probed tier "as a diagnostic"
  (`src/openai/client.rs:1406`), and the server grants that tier to sessions.
* The probe's doc comment says inconclusive answers give no tools
  (`src/openai/client.rs:1535`); they give the emulated tier.
* A session that names no model keeps the tier it was probed for when the client's
  model changes; a learned ceiling outlives a change of model; `last_warmup` does not
  record the base URL; a misspelt forced tier turns the lazy probe off and is
  otherwise ignored.

## What is proved

`AcpServerProofs` proves, for any sessions, any number of frames, requests and
updates, and any channel capacity: `TypeCorrect`, `NoWaiterStrays`,
`ResponsesOrdered`, `UpdatesFirst`, `AwaitedSent`, `TokensAgree` and
`CancelStaysInScope`, that is `Spec => []P` for each invariant of `AcpServerSafety`.
The only assumption is `AcpServerAssumption`: `ChanCap`, `MaxFrames` and the other
bounds are natural numbers (`ChanCap` at least 1), the session ids to be created are
finitely many and none of the existing ones, and the sentinel is neither.

None of the properties is inductive.  `IInv` adds what they rest on, in named
parts: the types; `WaiterInv`, which ties `pendingRequests`, `rpc` and `reply` to the
place of the turn; `OrderInv`, by which arrival numbers grow along `responses`, the
running turn, `queue` and `inbox`; `DrainInv`, which says where the awaited frame is
and that a finished turn left nothing behind; `TokenInv`, by which both maps agree,
tokens below `nextToken` are unique, and a tripped current token has a cancel still
queued or routed later than the turn began.  There is a lemma for each
group of actions and each part, and `Inductive` combines them.  The properties
follow from the parts.

`ModelRoundProofs` proves, for any caps, connect timeouts, durations, prompts and tool
arrays (`ModelRoundAssumption`: they are natural numbers), every safety property of the run
`ModelRound`.  `CallBeatsWatchdog`: `AttemptsBounded` turns the integer division
of the budget into "a second attempt needs a cap of at most 120 s, a third of at
most 80 s"; `QuietInv` bounds the time spent by the attempts made and their clamped
backoffs; together they stay below 300 s for every cap that does.  `UnreachableNotRetried`
rests on `RetryInv` and on the cap being raised above the connect timeout
(`CapAboveConnect`).  `CeilingWasServed` and `TrimShrinks` rest on `TrimInv` (a pending
ceiling is the array being tried) and on `FitsBounded`, which needs nothing of the
backend's token counts; `StreamedCallFinal` on both, `RetryInv` for "no call that is being
sent or awaits its retry has streamed".  `TypeCorrect` includes the ranges of the counters; `Counted` makes
them inductive: a backoff has an attempt left, a stream is within its cap, and a call has
sent one request per attempt.

`ReactTurnProofs` proves, for any signatures, batches, limits and number of prompts
(`ReactTurnAssumption`), every safety property of the run `ReactTurn`.  `AtMostOneLateCall`
(`LateInv`: a late call is outstanding or ended its turn), `RowsClosed` (`PendingInv`: while a
batch runs exactly the calls from the current one on are pending) and `BreakersExact`
(`StreakInv`, with `RunOfAppend`: how the run at the end of a sequence grows or restarts when
an element is appended) are about one turn.  `EveryCallAnswered`, `NoStrayResults` and
`PromptSurvives` are about a history of any length, pruned any number of times.  Their
invariant is `HistoryInv`: the history is `Sound` (roles, the order of prompts, each result
behind its call and the only one); `Fresh`: no call still to be made has an answer already,
without which "no call is answered twice" is not inductive; while a batch runs the history
ends with the message that made it and the results of the calls before the current one
(`Open`); any other call is answered right behind its message, or its turn was cancelled.
`PruneCuts` says what a pruning keeps: the system message and all from some user message not
after the last one.  `CutSound` and `PrunedKeeps` say that such a cut parts no call from its
result.  The appends of a turn are `AppendSound` and `ResultsSound`.

`SessionStoreProofs` proves, for any sessions, versions, cap and age limit
(`SessionStoreAssumption`), all of the run `SessionStore`: `TypeCorrect` for any number of
processes, and `DirectoryBounded`, `WrittenThrough`, `LeftoversAreDead` and the refinement
`StoreImplementsDurable` under `OneShim`, that at most one process has the directory.
`src/persist.rs:354-356` names that assumption; without it the four are false, as the run
`SessionStoreTwoShims` shows.  `StoreInv` is the inductive invariant: `Clock`, mtimes are
distinct and none is from the future, by which "the `Keep` newest" means something; `Ready`,
a temporary file about to be renamed is the session as it stands and newer than every file;
`Anchors`; `Justified`, every file a sweep has still to delete is too old or has `Keep` newer
ones that the same sweep spares, by which the order of the deletions, and where a crash cuts
them off, does not matter; `Bounded` and `Current`, the two properties in the middle of an
operation.  For the refinement each action is mapped to `DurableStore`'s, or to a stutter.

`ConnectorProofs` proves the two invariants of the run `Connector`, for any number of
sessions, frames, `mcp/*` requests and updates.  `ConnectorAssumption` is as in `AcpServer`,
and that a turn shows only the five updates the bridge builds, for which
`event_to_notification` is the inverse of `notification_to_event` (`RoundTrip`).
`Positions` orders the frames over `inbox`, `queue`, the prompt under way and `out`.
`CancelsAreScoped` adds `ScopeInv`: a session that still exists under a tripped token has its
cancel in the queue, behind the prompt under way, so the dispatcher closes the session before
any later prompt; between the two halves of the router's fast path the cancel is still the
head of `inbox`.  `WireInOrder` adds `Shows`: between turns no event waits; a final event is
the last its task sends; until it is written stdout has no response to the prompt; and
what is on stdout followed by the frames of the waiting events is the log, response frames
apart (`Faithful`, with `EmittedAppend` counting frames, and `WireSteps`: sending appends to
that sequence, writing leaves it as it is).

`CapabilityProofs` proves all of the run `Capability` for any model ids, environments,
offers and number of warm-ups and processes (`CapabilityAssumption`: a family ceiling is
at least 1): `TypesHold`, `TiersAreEarned`, `StripsAreExplained`, `SurfaceIsBounded`,
`PicturesAreReadable` and `NoGrantIsStale`.  They rest on `RecordInv`: `last_warmup` is the
verdict of the latest warm-up, and was earned when it has tools; on `SinceInv`, which
ties the sessions configured since then to it; and on `SentInv`, which says of the
request just sent what the last three properties need.  `NormalizeExact` (two ids that
normalise alike are the same model) is where the comparison enters.

`StreamPipelineProofs` proves all of the run `StreamPipeline`, for replies of
any length cut anywhere, any sessions and any number of thoughts, calls and retries
(`StreamPipelineAssumption`).  The loop of `ThinkStripper` is the recursive function
`Push`; `PushIs` proves that it is its own next round (it exists because every round
shortens what is pending: `RestIs`, `LoopExists`, `LoopUnique`), and `PushType` by
induction on that length that what it keeps may begin a tag and no more.  `TypeCorrect`
adds that only one of text and thoughts is held.  `InCausalOrder` rests on `FlowInv`:
`Flow(co, Prose)`, the text and thoughts written followed by those held, is at every
moment exactly `released`.  Each operation of the coalescer is a lemma about `Flow`
(`TakeReasoning`, `TakeContent`, `FlushIs`, `PushReasoning`, `PushContent`); a flush at any
time leaves it as it is, and a push appends to it.  `ReplyTextProofs` has what they use of
`Pick`, `Trim`, prefixes and induction, all stated over sets of numbers or sequences
because the provers cannot instantiate an induction theorem with an operator.

`PipelineImplementsDelivered` proves the refinement `Spec => Refinement`: the reply the user
sees is one `DeliveredText` allows.  Its inductive invariant is `RInv` (theorem
`StrippedText`), the one above with two parts more.

* `TextInv`: what the stripper let through so far, and what it holds, are what `Push` makes of
  all the text sent.  This is the claim that the cuts do not matter: pushing a text and then a
  piece is pushing both at once.  `EitherWay` says that either no tag counts in a text, or a
  first one does and divides it.  The induction on the length of the text goes by those cases:
  `PushDull` and `PushFirst` give one round of the loop, `PushResumes` the join, where what is
  held back at the end of the one piece may become a tag with the next.  `PushVisible` says
  the same of the flush at the end: all that is let through is `Visible`.
* `ShownInv`: in a live session the text in the frames, written or held, is the text let
  through, behind that of requests lost to an overflow; in a buffered one no text is in the
  frames and the buffer is it.  The thoughts are in the frames in their order.

`SeenHolds` derives from it that what is written is at every moment a beginning of what will
be, so each step of an open reply is a `Stream` or a stutter.  At the end of a buffered reply,
`SpansAreEnvelopes` shows that every span cut from the text is an envelope of it: the brace
walk of `Balance` keeps count as `ReplyText`'s `Depth` and `InString` do (`WalkedIs`,
`BalanceIs`), and both scans only go forward (`Onward`), so what they collect was found at a
place of the text (`ScanFinds`).  Then what is shown at the end is allowed by one of
`Verbatim`, `Stripped` and `Refused`, and the rows are `Act`'s.

Only model-checked are the liveness properties: `EveryRequestAnswered` and `CancelEndsTurn` of
`AcpServerLiveness`, `RoundEnds`, `TurnEnds` and `Connector`'s `EveryRequestAnswered`.  Fairness
and ENABLED are outside what the provers handle.  Every other property of a passing run is
stated by a theorem.
