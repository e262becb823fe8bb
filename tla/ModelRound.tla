------------------------------ MODULE ModelRound ------------------------------
(***************************************************************************)
(* One request to the model: chat_completion_stream of src/openai/client.rs *)
(* (bounded, timed attempts before the stream; guards while it runs) inside *)
(* the context-overflow retry loop of src/bridge/mod.rs, which trims the    *)
(* tool array and calls it again, or degrades to a refusal.                 *)
(*                                                                         *)
(* Time is counted in milliseconds and only before the stream: `quiet` is   *)
(* how long the current call has kept the host without a token.             *)
(***************************************************************************)
EXTENDS Integers, FiniteSets

CONSTANTS
  RawCaps,          \* configured pre-stream caps (s), 0 disables
  ConnectTimeouts,  \* configured connect timeouts (s)
  Samples,          \* durations (ms) an attempt or a backoff may take
  MaxTools,         \* the tool array holds 0..MaxTools tools
  Overheads,        \* prompt tokens that are not tools
  PerTool,          \* prompt tokens of one tool
  Windows,          \* n_ctx of the loaded model
  MaxResponse       \* response cap, in deltas

ASSUME ModelRoundAssumption ==
  /\ RawCaps \subseteq Nat /\ ConnectTimeouts \subseteq Nat
  /\ Samples \subseteq Nat
  /\ MaxTools \in Nat /\ Overheads \subseteq Nat /\ PerTool \in Nat
  /\ Windows \subseteq Nat /\ MaxResponse \in Nat \ {0}

VARIABLES
  config,     \* the environment: cap and connect timeout (s)
  model,      \* the backend: prompt overhead, window, does it report n_keep
  phase, attempt, connected,
  kind,       \* tag of the last failure
  quiet,      \* ms of this call spent before the stream
  posts,      \* requests sent in this round
  deltas,     \* chunks this round handed to the bridge
  callDeltas, \* chunks of the current call
  tools,      \* length of tools_for_call
  retries,    \* overflow_retry_count
  pending, learned,   \* {} or the ceiling: pending_ceiling, learned_tool_ceiling
  cancelled

callVars == <<attempt, connected, quiet, callDeltas>>
toolVars == <<tools, retries, pending, learned>>
vars == <<config, model, phase, kind, posts, deltas, cancelled, callVars,
          toolVars>>

AtMost(a, b) == IF a <= b THEN a ELSE b
AtLeast(a, b) == IF a >= b THEN a ELSE b

(***************************************************************************)
(* The policy constants and helpers of client.rs.                          *)
(***************************************************************************)
MAX_PROMPT_ATTEMPTS == 3
PRESTREAM_TOTAL_BUDGET_SECS == 240
MAX_RETRY_BACKOFF_MS == 2000
MAX_OVERFLOW_RETRIES == 3
Watchdog == 300000            \* the host's first-token watchdog (ms)

\* Fault: the configured cap as it is.
effective_prestream_cap_Raw(raw, connect) == raw

effective_prestream_cap(raw, connect) ==
  IF raw = 0 THEN 0 ELSE AtLeast(raw, connect + 1)

\* Fault: a fixed number of attempts.
effective_max_prestream_attempts_Fixed(cap) == MAX_PROMPT_ATTEMPTS

effective_max_prestream_attempts(cap) ==
  IF cap = 0 THEN MAX_PROMPT_ATTEMPTS
  ELSE AtMost(AtLeast(PRESTREAM_TOTAL_BUDGET_SECS \div cap, 1),
              MAX_PROMPT_ATTEMPTS)

Transient == {"rate_limited", "timeout", "server_error"}
HttpKinds == Transient \cup {"auth", "context_overflow"}
EnvelopeKinds == {"model_unloaded", "context_overflow"}
StreamKinds == {"unknown", "server_error", "context_overflow"}
Kinds == HttpKinds \cup EnvelopeKinds \cup StreamKinds \cup
         {"none", "unreachable", "turn_timeout", "response_too_large"}

\* Durations up to a limit; without a limit, any that is explored.
UpTo(limit) == {0, limit} \cup {d \in Samples : d <= limit}
AttemptTimes == IF config.cap = 0 THEN {0} \cup Samples
                                  ELSE UpTo(config.cap * 1000)

\* Backoffs before retry number n (0 or 1): a Retry-After hint, or exponential
\* with jitter; both clamped.
retry_backoff(k, n) ==
  LET base == (IF k = "rate_limited" THEN 500 ELSE 250) * (IF n = 0 THEN 1 ELSE 2)
      hints == IF k = "rate_limited" THEN Samples ELSE {}
  IN  {AtMost(b, MAX_RETRY_BACKOFF_MS) : b \in {base + j : j \in UpTo(99)} \cup hints}

(***************************************************************************)
(* Sizing of the tool array.                                               *)
(***************************************************************************)
PromptTokens(n) == model.overhead + n * PerTool
Overflows == PromptTokens(tools) > model.window
TargetTokens == (model.window * 4) \div 5

overflow_target_from_nkeep(nkeep, cur) ==
  AtMost(AtLeast((cur * TargetTokens) \div AtLeast(nkeep, 1), 1), cur - 1)

\* Without a measured count, context_fit_ceiling estimates from the length of
\* the tool JSON, which says nothing certain about tokens.
Fits(cur) ==
  IF model.measured THEN {overflow_target_from_nkeep(PromptTokens(cur), cur)}
  ELSE {AtMost(AtLeast(f, 1), cur - 1) : f \in 1..cur}

Init ==
  /\ \E raw \in RawCaps, ct \in ConnectTimeouts :
       config = [cap |-> effective_prestream_cap(raw, ct), connect |-> ct]
  /\ \E o \in Overheads, w \in Windows, m \in BOOLEAN :
       model = [overhead |-> o, window |-> w, measured |-> m]
  /\ phase = "post" /\ attempt = 1 /\ connected = FALSE /\ kind = "none"
  /\ quiet = 0 /\ posts = 0 /\ deltas = 0 /\ callDeltas = 0
  /\ tools \in 0..MaxTools
  /\ retries = 0 /\ pending = {} /\ learned = {}
  /\ cancelled = FALSE

(***************************************************************************)
(* chat_completion_stream, before the stream.  Nothing here reads the       *)
(* cancel token.                                                           *)
(***************************************************************************)
\* The router fires the token at any time.
Cancel ==
  /\ ~cancelled
  /\ cancelled' = TRUE
  /\ UNCHANGED <<config, model, phase, kind, posts, deltas, callVars, toolVars>>

Post ==
  /\ phase = "post"
  /\ phase' = "sent" /\ posts' = posts + 1 /\ connected' = FALSE
  /\ UNCHANGED <<config, model, kind, deltas, cancelled, attempt, quiet,
                 callDeltas, toolVars>>

Connects ==
  /\ phase = "sent" /\ ~connected
  /\ connected' = TRUE
  /\ UNCHANGED <<config, model, phase, kind, posts, deltas, cancelled, attempt,
                 quiet, callDeltas, toolVars>>

\* An attempt ends after d ms; a transient kind is retried while attempts last.
AttemptEnds(k, d, retriable) ==
  /\ quiet' = quiet + d
  /\ kind' = k
  /\ phase' = IF retriable /\ attempt < effective_max_prestream_attempts(config.cap)
              THEN "backoff" ELSE "failed"
  /\ UNCHANGED <<config, model, posts, deltas, cancelled, attempt, connected,
                 callDeltas, toolVars>>

\* Refused, TLS failure, or the connect timeout: hard, never retried.
ConnectFails ==
  /\ phase = "sent" /\ ~connected
  /\ config.cap = 0 \/ config.connect < config.cap
  /\ \E d \in UpTo(config.connect * 1000) : AttemptEnds("unreachable", d, FALSE)

\* A status that is not 2xx; a stalled body keeps the status's kind.
HttpError ==
  /\ phase = "sent" /\ connected
  /\ \E k \in HttpKinds, d \in AttemptTimes :
       /\ k = "context_overflow" => Overflows
       /\ AttemptEnds(k, d, k \in Transient)

\* 200 with a JSON error envelope in place of a stream.
JsonEnvelope ==
  /\ phase = "sent" /\ connected
  /\ \E k \in EnvelopeKinds, d \in AttemptTimes :
       /\ k = "context_overflow" => Overflows
       /\ AttemptEnds(k, d, FALSE)

\* Fault: the cap bounds the connection only, not the wait for headers.
PreStreamTimeout_ConnectOnly ==
  /\ phase = "sent" /\ config.cap > 0 /\ ~connected
  /\ AttemptEnds("timeout", config.cap * 1000, TRUE)

\* The cap elapses before the headers.
PreStreamTimeout ==
  /\ phase = "sent" /\ config.cap > 0
  /\ connected \/ config.cap <= config.connect
  /\ AttemptEnds("timeout", config.cap * 1000, TRUE)

Backoff ==
  /\ phase = "backoff"
  /\ \E b \in retry_backoff(kind, attempt - 1) : quiet' = quiet + b
  /\ attempt' = attempt + 1 /\ phase' = "post"
  /\ UNCHANGED <<config, model, kind, posts, deltas, cancelled, connected,
                 callDeltas, toolVars>>

Headers ==
  /\ phase = "sent" /\ connected
  /\ \E d \in AttemptTimes : quiet' = quiet + d
  /\ phase' = "stream"
  /\ UNCHANGED <<config, model, kind, posts, deltas, cancelled, attempt,
                 connected, callDeltas, toolVars>>

(***************************************************************************)
(* The stream: a biased select, cancel before the guards before an event.   *)
(***************************************************************************)
Streaming == phase = "stream" /\ ~cancelled

StreamFails(k) ==
  /\ kind' = k /\ phase' = "failed"
  /\ UNCHANGED <<config, model, posts, cancelled, attempt, connected, quiet,
                 toolVars>>

StreamCancelled ==
  /\ phase = "stream" /\ cancelled
  /\ phase' = "cancelled"
  /\ UNCHANGED <<config, model, kind, posts, deltas, cancelled, callVars,
                 toolVars>>

\* The wall-clock deadline or the inactivity guard.
StreamGuard ==
  /\ Streaming
  /\ StreamFails("turn_timeout")
  /\ UNCHANGED <<deltas, callDeltas>>

\* A chunk reaches the bridge's closure; past the response cap the call ends.
Delta ==
  /\ Streaming
  /\ deltas' = deltas + 1 /\ callDeltas' = callDeltas + 1
  /\ \/ /\ callDeltas + 1 > MaxResponse
        /\ StreamFails("response_too_large")
     \/ /\ callDeltas + 1 <= MaxResponse
        /\ UNCHANGED <<config, model, phase, kind, posts, cancelled, attempt,
                       connected, quiet, toolVars>>

\* Fault: a transient error inside the stream is retried in the call.
StreamError_Retried ==
  /\ Streaming
  /\ IF attempt < effective_max_prestream_attempts(config.cap)
     THEN phase' = "backoff" /\ kind' = "server_error"
     ELSE phase' = "failed" /\ kind' = "server_error"
  /\ UNCHANGED <<config, model, posts, deltas, cancelled, callVars, toolVars>>

\* Transport drop, unparsable event, or an error object inside the stream,
\* tagged by its own text: a full context may show up here too.
StreamError ==
  /\ Streaming
  /\ \E k \in StreamKinds : StreamFails(k)
  /\ UNCHANGED <<deltas, callDeltas>>

\* [DONE] or end of body: the call succeeds and the pending ceiling is learned.
StreamDone ==
  /\ Streaming
  /\ phase' = "served"
  /\ learned' = IF pending # {} THEN pending ELSE learned
  /\ UNCHANGED <<config, model, kind, posts, deltas, cancelled, callVars, tools,
                 retries, pending>>

(***************************************************************************)
(* The bridge: trim and call again, or degrade.                            *)
(***************************************************************************)
\* Fault: no bound on the retries.
MayTrim_Unbounded == phase = "failed" /\ kind = "context_overflow" /\ tools > 1

\* Fault: the last tool may be trimmed away.
MayTrim_LastTool == /\ phase = "failed" /\ kind = "context_overflow"
                    /\ retries < MAX_OVERFLOW_RETRIES /\ tools > 0

MayTrim == /\ phase = "failed" /\ kind = "context_overflow"
           /\ retries < MAX_OVERFLOW_RETRIES /\ tools > 1

\* Fault: the ceiling is learned before the retried call succeeds.
OverflowRetry_LearnsEarly ==
  /\ MayTrim
  /\ \E n \in Fits(tools) : tools' = n /\ pending' = {n} /\ learned' = {n}
  /\ retries' = retries + 1
  /\ phase' = "post" /\ attempt' = 1 /\ connected' = FALSE
  /\ quiet' = 0 /\ callDeltas' = 0
  /\ UNCHANGED <<config, model, kind, posts, deltas, cancelled>>

OverflowRetry ==
  /\ MayTrim
  /\ \E n \in Fits(tools) : tools' = n /\ pending' = {n}
  /\ retries' = retries + 1
  /\ phase' = "post" /\ attempt' = 1 /\ connected' = FALSE
  /\ quiet' = 0 /\ callDeltas' = 0
  /\ UNCHANGED <<config, model, kind, posts, deltas, cancelled, learned>>

\* Out of retries, one tool left, no n_ctx in the text, or another kind: one
\* line to the user and a refusal.
Degrade ==
  /\ phase = "failed"
  /\ ~MayTrim \/ ~model.measured
  /\ phase' = "refused"
  /\ UNCHANGED <<config, model, kind, posts, deltas, cancelled, callVars,
                 toolVars>>

Ended == phase \in {"served", "refused", "cancelled"}
Done == Ended /\ UNCHANGED vars

Call == Post \/ Connects \/ ConnectFails \/ HttpError \/ JsonEnvelope
        \/ PreStreamTimeout \/ Backoff \/ Headers
Stream == StreamCancelled \/ StreamGuard \/ Delta \/ StreamError \/ StreamDone
Next == Cancel \/ Call \/ Stream \/ OverflowRetry \/ Degrade \/ Done

Spec == Init /\ [][Next]_vars

\* Only the code's own steps and its timers are fair: the backend may accept
\* a connection and never answer.
FairSpec ==
  /\ Spec
  /\ WF_vars(Post) /\ WF_vars(Backoff)
  /\ WF_vars(ConnectFails) /\ WF_vars(PreStreamTimeout)
  /\ WF_vars(StreamCancelled \/ StreamGuard)
  /\ WF_vars(OverflowRetry \/ Degrade)

(***************************************************************************)
(* Properties.                                                             *)
(***************************************************************************)
Phases == {"post", "sent", "backoff", "stream", "failed", "served", "refused",
           "cancelled"}

\* Types, and the ranges the loop bounds give: attempts, requests, trimmed
\* tools and response size.
TypeOK ==
  /\ config \in [cap : Nat, connect : Nat]
  /\ model \in [overhead : Nat, window : Nat, measured : BOOLEAN]
  /\ phase \in Phases /\ kind \in Kinds /\ connected \in BOOLEAN
  /\ attempt \in 1..effective_max_prestream_attempts(config.cap)
  /\ quiet \in Nat /\ deltas \in Nat /\ cancelled \in BOOLEAN
  /\ callDeltas \in 0..(MaxResponse + 1)
  /\ tools \in 0..MaxTools /\ retries \in 0..MAX_OVERFLOW_RETRIES
  /\ pending \in SUBSET (1..MaxTools) /\ learned \in SUBSET (1..MaxTools)
  /\ posts \in 0..((retries + 1) * MAX_PROMPT_ATTEMPTS)

\* However the attempts, their timeouts and the backoffs add up, a call whose
\* cap is below the host's watchdog streams or fails before the watchdog fires.
FirstTokenInTime ==
  config.cap > 0 /\ config.cap * 1000 < Watchdog => quiet < Watchdog

\* A connection that never opens is reported as unreachable, at once: it does
\* not become a transient timeout.
SlowConnectNotRetried ==
  phase = "backoff" => connected

\* Once chunks of a call reached the bridge, the round goes on sending for one
\* reason only: an overflow reported inside the stream, with fewer tools and one
\* of the counted retries.  Every other failure after a chunk is final, so the
\* text already streamed is followed by a second answer in that case alone.
StreamedCallOnlyTrimmed ==
  [][callDeltas > 0 /\ phase' \in {"post", "sent", "backoff"} =>
       /\ phase = "failed" /\ kind = "context_overflow"
       /\ tools' < tools /\ retries' = retries + 1]_vars

\* A ceiling is remembered for later turns only if a call with exactly that
\* many tools succeeded; then it is smaller than what the turn started with.
LearnedWasServed ==
  learned # {} => phase = "served" /\ learned = {tools} /\ retries > 0

\* The trim makes progress: fewer tools on every retry, and never none.
TrimProgress ==
  [][retries' # retries => tools' < tools /\ tools' >= 1]_vars

\* With a cap, a round ends whatever the backend does.
RoundEnds == config.cap > 0 ~> Ended
=============================================================================
