--------------------------- MODULE ModelRoundProofs ---------------------------
(***************************************************************************)
(* Theorems about ModelRound, for every configured cap and connect timeout, *)
(* every duration an attempt may take, every model and every tool array.    *)
(***************************************************************************)
EXTENDS ModelRound, TLAPS

-----------------------------------------------------------------------------
(* The policy helpers.                                                     *)

\* A configured cap leaves room for the connect timeout.
LEMMA CapAboveConnect ==
  ASSUME NEW raw \in Nat, NEW ct \in Nat
  PROVE  /\ effective_prestream_cap(raw, ct) \in Nat
         /\ \/ effective_prestream_cap(raw, ct) = 0
            \/ effective_prestream_cap(raw, ct) > ct
BY DEF effective_prestream_cap, AtLeast

\* The attempts a cap allows: a second one only up to 120 s, a third up to 80 s.
LEMMA AttemptsBounded ==
  ASSUME NEW cap \in Nat \ {0}
  PROVE  /\ effective_max_prestream_attempts(cap) \in 1..3
         /\ effective_max_prestream_attempts(cap) >= 2 => cap <= 120
         /\ effective_max_prestream_attempts(cap) >= 3 => cap <= 80
<1> DEFINE q == 240 \div cap
<1>1. q \in Nat /\ q * cap <= 240
  OBVIOUS
<1>2. q >= 2 => cap <= 120
  BY <1>1
<1>3. q >= 3 => cap <= 80
  BY <1>1
<1> HIDE DEF q
<1>4. effective_max_prestream_attempts(cap) = AtMost(AtLeast(q, 1), 3)
  BY DEF effective_max_prestream_attempts, MAX_PROMPT_ATTEMPTS,
         PRESTREAM_TOTAL_BUDGET_SECS, q
<1> QED BY <1>1, <1>2, <1>3, <1>4 DEF AtMost, AtLeast

\* A duration up to a limit is one.
LEMMA UpToBounded ==
  ASSUME NEW limit \in Nat, NEW d \in UpTo(limit)
  PROVE  d \in 0..limit
<1>1. d = 0 \/ d = limit \/ (d \in Samples /\ d <= limit)
  BY DEF UpTo
<1>2. Samples \subseteq Nat
  BY ModelRoundAssumption
<1>3. d \in Nat
  <2>1. CASE d = 0
    BY <2>1, SMT
  <2>2. CASE d = limit
    BY <2>2, Zenon
  <2>3. CASE d \in Samples
    BY <1>2, <2>3, Zenon
  <2> QED BY <1>1, <2>1, <2>2, <2>3
<1>4. d <= limit
  BY <1>1, <1>3
<1> QED BY <1>3, <1>4

\* No backoff is longer than the clamp.
LEMMA BackoffBounded ==
  ASSUME NEW k, NEW n, NEW b \in retry_backoff(k, n)
  PROVE  b \in 0..2000
<1> DEFINE base == (IF k = "rate_limited" THEN 500 ELSE 250) * (IF n = 0 THEN 1 ELSE 2)
<1>1. base \in Nat
  OBVIOUS
<1>2. UpTo(99) \subseteq Nat /\ Samples \subseteq Nat
  BY UpToBounded, ModelRoundAssumption
<1>3. PICK d \in Nat : b = AtMost(d, MAX_RETRY_BACKOFF_MS)
  BY <1>1, <1>2 DEF retry_backoff
<1> QED BY <1>3 DEF AtMost, MAX_RETRY_BACKOFF_MS

\* The trim keeps at least one tool and drops at least one.
LEMMA FitsBounded ==
  ASSUME NEW cur \in Nat, cur > 1, NEW n \in Fits(cur),
         model.overhead \in Nat, model.window \in Nat
  PROVE  n \in 1..(cur - 1)
<1>1. \A f \in Int : AtMost(AtLeast(f, 1), cur - 1) \in 1..(cur - 1)
  BY DEF AtMost, AtLeast
<1>2. CASE model.measured
  <2>1. TargetTokens \in Int
    BY DEF TargetTokens
  <2>2. AtLeast(PromptTokens(cur), 1) \in Nat \ {0}
    BY ModelRoundAssumption DEF PromptTokens, AtLeast
  <2>3. (cur * TargetTokens) \div AtLeast(PromptTokens(cur), 1) \in Int
    BY <2>1, <2>2
  <2>4. n = overflow_target_from_nkeep(PromptTokens(cur), cur)
    BY <1>2 DEF Fits
  <2> QED BY <1>1, <2>3, <2>4 DEF overflow_target_from_nkeep
<1>3. CASE ~model.measured
  <2>1. PICK f \in 1..cur : n = AtMost(AtLeast(f, 1), cur - 1)
    BY <1>3 DEF Fits
  <2> QED BY <1>1, <2>1
<1> QED BY <1>2, <1>3

-----------------------------------------------------------------------------
(* The environment never changes.                                          *)

EnvInv ==
  /\ config.cap \in Nat /\ config.connect \in Nat
  /\ config.cap = 0 \/ config.cap > config.connect
  /\ model.overhead \in Nat /\ model.window \in Nat

\* No step touches the configuration or the model.
LEMMA SameEnv ==
  ASSUME [Next]_vars
  PROVE  UNCHANGED <<config, model>>
BY DEF Next, Call, Stream, Cancel, Post, Connects, ConnectFails, HttpError,
       JsonEnvelope, PreStreamTimeout, Backoff, Headers, AttemptEnds,
       StreamCancelled, StreamGuard, Delta, StreamError, StreamDone, StreamFails,
       OverflowRetry, Degrade, Done, vars

\* It is well formed initially,
LEMMA InitEnv == Init => EnvInv
<1> SUFFICES ASSUME Init PROVE EnvInv
  OBVIOUS
<1>1. PICK raw \in RawCaps, ct \in ConnectTimeouts :
        config = [cap |-> effective_prestream_cap(raw, ct), connect |-> ct]
  BY DEF Init
<1>2. PICK o \in Overheads, w \in Windows, m \in BOOLEAN :
        model = [overhead |-> o, window |-> w, measured |-> m]
  BY DEF Init
<1>3. raw \in Nat /\ ct \in Nat /\ o \in Nat /\ w \in Nat
  BY <1>1, <1>2, ModelRoundAssumption
<1> QED BY <1>1, <1>2, <1>3, CapAboveConnect DEF EnvInv

\* and stays so.
LEMMA EnvHolds == Spec => []EnvInv
<1>1. EnvInv /\ [Next]_vars => EnvInv'
  BY SameEnv DEF EnvInv
<1> QED BY <1>1, InitEnv, PTL DEF Spec

-----------------------------------------------------------------------------
(* Before the stream.                                                      *)

\* While an attempt is made or awaited, the earlier attempts and their backoffs
\* are all that has passed; afterwards the attempt itself has been added.
Spent(n) == n * (config.cap * 1000) + (attempt - 1) * 2000

QuietInv ==
  /\ attempt \in Nat \ {0} /\ quiet \in Nat
  /\ phase \in Phases
  /\ config.cap > 0 =>
       /\ attempt <= effective_max_prestream_attempts(config.cap)
       /\ phase = "backoff" => attempt < effective_max_prestream_attempts(config.cap)
       /\ quiet <= Spent(IF phase \in {"post", "sent"} THEN attempt - 1 ELSE attempt)

\* An attempt adds at most the cap.
LEMMA AttemptStep ==
  ASSUME QuietInv, EnvInv, phase = "sent", NEW d \in Nat,
         config.cap > 0 => d <= config.cap * 1000,
         quiet' = quiet + d, UNCHANGED <<config, attempt>>,
         phase' \in {"backoff", "failed"},
         phase' = "backoff" => attempt < effective_max_prestream_attempts(config.cap)
  PROVE  QuietInv'
<1> USE DEF QuietInv, Spent, EnvInv, Phases
<1>1. UNCHANGED <<config, attempt>> /\ quiet' = quiet + d
  OBVIOUS
<1>2. config.cap > 0 =>
        quiet <= (attempt - 1) * (config.cap * 1000) + (attempt - 1) * 2000
  OBVIOUS
<1>3. (attempt - 1) * (config.cap * 1000) + config.cap * 1000
        = attempt * (config.cap * 1000)
  OBVIOUS
<1> DEFINE c == config.cap * 1000
           p == (attempt - 1) * c
           a == attempt * c
<1>4. c \in Int /\ p \in Int /\ a \in Int
  OBVIOUS
<1>5. config.cap > 0 => quiet' <= a + (attempt - 1) * 2000
  <2> HIDE DEF p, a, c
  <2> SUFFICES ASSUME config.cap > 0 PROVE quiet + d <= a + (attempt - 1) * 2000
    BY <1>1
  <2>1. quiet <= p + (attempt - 1) * 2000 /\ p + c = a /\ d <= c
    BY <1>2, <1>3 DEF p, a, c
  <2> QED BY <1>4, <2>1
<1> QED BY <1>1, <1>5

\* Every step preserves QuietInv.
LEMMA QuietStep == QuietInv /\ EnvInv /\ [Next]_vars => QuietInv'
<1> SUFFICES ASSUME QuietInv, EnvInv, [Next]_vars PROVE QuietInv'
  OBVIOUS
<1>1. ASSUME NEW d \in AttemptTimes
      PROVE  d \in Nat /\ (config.cap > 0 => d <= config.cap * 1000)
  <2>1. config.cap > 0 => d \in 0..(config.cap * 1000)
    BY UpToBounded DEF AttemptTimes, EnvInv
  <2>2. config.cap = 0 => d \in Nat
    BY ModelRoundAssumption DEF AttemptTimes
  <2> QED BY <2>1, <2>2 DEF EnvInv
<1>2. CASE Post BY <1>2 DEF Post, QuietInv, Spent, Phases
<1>3. CASE ConnectFails
  <2>1. PICK d \in UpTo(config.connect * 1000) : AttemptEnds("unreachable", d, FALSE)
    BY <1>3 DEF ConnectFails
  <2>2. d \in 0..(config.connect * 1000)
    BY UpToBounded DEF EnvInv
  <2>3. d \in Nat /\ (config.cap > 0 => d <= config.cap * 1000)
    BY <1>3, <2>2 DEF ConnectFails, EnvInv
  <2>4. phase = "sent" /\ quiet' = quiet + d /\ UNCHANGED <<config, attempt>>
        /\ phase' = "failed"
    BY <1>3, <2>1 DEF ConnectFails, AttemptEnds
  <2> QED BY <2>3, <2>4, AttemptStep
<1>4. CASE HttpError
  <2>1. PICK k \in HttpKinds, d \in AttemptTimes : AttemptEnds(k, d, k \in Transient)
    BY <1>4 DEF HttpError
  <2>2. /\ phase = "sent" /\ quiet' = quiet + d /\ UNCHANGED <<config, attempt>>
        /\ phase' \in {"backoff", "failed"}
        /\ phase' = "backoff" => attempt < effective_max_prestream_attempts(config.cap)
    BY <1>4, <2>1 DEF HttpError, AttemptEnds
  <2> QED BY <1>1, <2>2, AttemptStep
<1>5. CASE JsonEnvelope
  <2>1. PICK k \in EnvelopeKinds, d \in AttemptTimes : AttemptEnds(k, d, FALSE)
    BY <1>5 DEF JsonEnvelope
  <2>2. phase = "sent" /\ quiet' = quiet + d /\ UNCHANGED <<config, attempt>>
        /\ phase' = "failed"
    BY <1>5, <2>1 DEF JsonEnvelope, AttemptEnds
  <2> QED BY <1>1, <2>2, AttemptStep
<1>6. CASE PreStreamTimeout
  <2>1. PICK d \in Nat : d = config.cap * 1000
    BY DEF EnvInv
  <2>2. /\ phase = "sent" /\ quiet' = quiet + d /\ UNCHANGED <<config, attempt>>
        /\ phase' \in {"backoff", "failed"}
        /\ phase' = "backoff" => attempt < effective_max_prestream_attempts(config.cap)
    BY <1>6, <2>1 DEF PreStreamTimeout, AttemptEnds
  <2> QED BY <2>1, <2>2, AttemptStep
<1>7. CASE Backoff
  <2>1. PICK b \in retry_backoff(kind, attempt - 1) : quiet' = quiet + b
    BY <1>7 DEF Backoff
  <2>2. b \in 0..2000
    BY <2>1, BackoffBounded
  <2>3. /\ phase = "backoff" /\ phase' = "post" /\ attempt' = attempt + 1
        /\ UNCHANGED config
    BY <1>7 DEF Backoff
  <2>4. PICK c \in Nat : c = config.cap * 1000
    BY DEF EnvInv
  <2>5. PICK p \in Int : p = attempt * c
    BY <2>4 DEF QuietInv
  <2>6. config.cap > 0 =>
          /\ quiet <= p + (attempt - 1) * 2000
          /\ attempt < effective_max_prestream_attempts(config.cap)
    BY <2>3, <2>4, <2>5 DEF QuietInv, Spent
  <2>7. config.cap > 0 => quiet' <= p + attempt * 2000
    BY <2>1, <2>2, <2>6 DEF QuietInv
  <2>8. config.cap > 0 => attempt' <= effective_max_prestream_attempts(config.cap)
    BY <2>3, <2>6, AttemptsBounded DEF QuietInv, EnvInv
  <2> QED BY <2>1, <2>2, <2>3, <2>4, <2>5, <2>7, <2>8 DEF QuietInv, Spent, Phases
<1>8. CASE Headers
  <2>1. PICK d \in AttemptTimes : quiet' = quiet + d
    BY <1>8 DEF Headers
  <2>2. /\ phase = "sent" /\ phase' = "stream" /\ UNCHANGED <<config, attempt>>
    BY <1>8 DEF Headers
  <2>3. PICK c \in Nat : c = config.cap * 1000
    BY DEF EnvInv
  <2>4. PICK p \in Int : p = (attempt - 1) * c
    BY <2>3 DEF QuietInv
  <2>5. p + c = attempt * c
    BY <2>4 DEF QuietInv
  <2>6. config.cap > 0 => quiet <= p + (attempt - 1) * 2000 /\ d <= c
    BY <1>1, <2>2, <2>3, <2>4 DEF QuietInv, Spent
  <2>7. config.cap > 0 => quiet' <= (p + c) + (attempt - 1) * 2000
    BY <1>1, <2>1, <2>6 DEF QuietInv
  <2> QED BY <1>1, <2>1, <2>2, <2>3, <2>5, <2>7 DEF QuietInv, Spent, Phases
<1>9. CASE OverflowRetry
  <2>1. config.cap > 0 => 1 <= effective_max_prestream_attempts(config.cap)
    BY AttemptsBounded DEF EnvInv
  <2> QED BY <1>9, <2>1 DEF OverflowRetry, QuietInv, Spent, EnvInv, Phases
<1>10. CASE \/ Cancel \/ Connects \/ StreamCancelled \/ StreamGuard \/ Delta
            \/ StreamError \/ StreamDone \/ Degrade \/ UNCHANGED vars
  <2>1. /\ UNCHANGED <<config, attempt, quiet>>
        /\ \/ phase' = phase
           \/ /\ phase \in {"stream", "failed"}
              /\ phase' \in {"failed", "cancelled", "served", "refused"}
    BY <1>10 DEF Cancel, Connects, StreamCancelled, StreamGuard, Delta, StreamError,
                 StreamDone, StreamFails, Streaming, Degrade, callVars, vars
  <2> QED BY <2>1 DEF QuietInv, Spent, Phases
<1> QED BY <1>2, <1>3, <1>4, <1>5, <1>6, <1>7, <1>8, <1>9, <1>10
        DEF Next, Call, Stream, Done

\* QuietInv holds initially.
LEMMA InitQuiet == Init => QuietInv
<1> SUFFICES ASSUME Init PROVE QuietInv
  OBVIOUS
<1>1. EnvInv
  BY InitEnv
<1>2. config.cap > 0 => 1 <= effective_max_prestream_attempts(config.cap)
  BY <1>1, AttemptsBounded DEF EnvInv
<1> QED BY <1>1, <1>2 DEF Init, QuietInv, Spent, EnvInv, Phases

\* Whatever cap is configured, as long as it is below the host's watchdog, no
\* sum of attempts, timeouts and backoffs of one call reaches the watchdog.
THEOREM CallBeatsWatchdog == Spec => []FirstTokenInTime
<1>1. EnvInv /\ QuietInv => FirstTokenInTime
  <2> SUFFICES ASSUME EnvInv, QuietInv, config.cap > 0, config.cap * 1000 < Watchdog
               PROVE  quiet < Watchdog
    BY DEF FirstTokenInTime
  <2> DEFINE m == effective_max_prestream_attempts(config.cap)
  <2>1. config.cap \in Nat \ {0} /\ config.cap < 300
    BY DEF EnvInv, Watchdog
  <2>2. m \in 1..3 /\ (m >= 2 => config.cap <= 120) /\ (m >= 3 => config.cap <= 80)
    BY <2>1, AttemptsBounded
  <2>3. attempt \in 1..3 /\ attempt <= m /\ quiet \in Nat
    BY <2>2 DEF QuietInv
  <2>4. quiet <= Spent(attempt - 1) \/ quiet <= Spent(attempt)
    BY DEF QuietInv
  <2> HIDE DEF m
  <2>5. CASE attempt = 1
    BY <2>1, <2>3, <2>4, <2>5 DEF Spent, Watchdog
  <2>6. CASE attempt = 2
    BY <2>1, <2>2, <2>3, <2>4, <2>6 DEF Spent, Watchdog
  <2>7. CASE attempt = 3
    BY <2>1, <2>2, <2>3, <2>4, <2>7 DEF Spent, Watchdog
  <2> QED BY <2>3, <2>5, <2>6, <2>7
<1> QED BY <1>1, EnvHolds, InitQuiet, QuietStep, PTL DEF Spec

-----------------------------------------------------------------------------
(* What may be retried.                                                    *)

\* An attempt that is retried had connected, and has streamed nothing yet.
RetryInv ==
  /\ SlowConnectNotRetried
  /\ phase \in {"post", "sent", "backoff"} => callDeltas = 0

\* Every step preserves RetryInv.
LEMMA RetryStep == EnvInv /\ RetryInv /\ [Next]_vars => RetryInv'
<1> SUFFICES ASSUME EnvInv, RetryInv, [Next]_vars PROVE RetryInv'
  OBVIOUS
<1> USE DEF RetryInv, SlowConnectNotRetried, callVars
<1>1. CASE PreStreamTimeout
  <2>1. connected
    BY <1>1 DEF PreStreamTimeout, EnvInv
  <2> QED BY <1>1, <2>1 DEF PreStreamTimeout, AttemptEnds
<1>2. CASE ConnectFails
  <2>1. phase' = "failed"
    BY <1>2 DEF ConnectFails, AttemptEnds
  <2> QED BY <2>1
<1>3. CASE HttpError BY <1>3 DEF HttpError, AttemptEnds
<1>4. CASE JsonEnvelope
  <2>1. phase' = "failed"
    BY <1>4 DEF JsonEnvelope, AttemptEnds
  <2> QED BY <2>1
<1>5. CASE Post \/ Connects \/ Backoff \/ Headers
  BY <1>5 DEF Post, Connects, Backoff, Headers
<1>6. CASE StreamCancelled \/ StreamGuard \/ Delta \/ StreamError \/ StreamDone
  BY <1>6 DEF StreamCancelled, StreamGuard, Delta, StreamError, StreamDone,
              StreamFails, Streaming
<1>7. CASE Cancel \/ OverflowRetry \/ Degrade \/ UNCHANGED vars
  BY <1>7 DEF Cancel, OverflowRetry, Degrade, vars
<1> QED BY <1>1, <1>2, <1>3, <1>4, <1>5, <1>6, <1>7
        DEF Next, Call, Stream, Done

\* RetryInv holds in every behaviour.
LEMMA RetryHolds == Spec => []RetryInv
<1>1. Init => RetryInv
  BY DEF Init, RetryInv, SlowConnectNotRetried
<1> QED BY <1>1, EnvHolds, RetryStep, PTL DEF Spec

\* An address that never answers the connect is reported, not retried as a
\* timeout, whatever cap and connect timeout are configured.
THEOREM UnreachableNotRetried == Spec => []SlowConnectNotRetried
<1>1. RetryInv => SlowConnectNotRetried
  BY DEF RetryInv
<1> QED BY <1>1, RetryHolds, PTL

-----------------------------------------------------------------------------
(* The trim.                                                               *)

\* The ceiling still to be confirmed is the array being tried; nothing is
\* learned before a call is served, and then it is that ceiling.
TrimInv ==
  /\ tools \in Nat /\ retries \in Nat
  /\ pending # {} => pending = {tools} /\ retries > 0
  /\ LearnedWasServed

\* What one overflow retry does to the tool array.
LEMMA Trimmed ==
  ASSUME EnvInv, TrimInv, OverflowRetry
  PROVE  /\ tools' \in 1..(tools - 1) /\ tools \in Nat
         /\ pending' = {tools'} /\ retries' = retries + 1 /\ learned' = learned
<1>1. PICK n \in Fits(tools) : tools' = n /\ pending' = {n}
  BY DEF OverflowRetry
<1>2. tools > 1 /\ tools \in Nat
  BY DEF OverflowRetry, MayTrim, TrimInv
<1>3. n \in 1..(tools - 1)
  BY <1>2, FitsBounded DEF EnvInv
<1> QED BY <1>1, <1>2, <1>3 DEF OverflowRetry

\* Every step preserves TrimInv.
LEMMA TrimStep == EnvInv /\ TrimInv /\ [Next]_vars => TrimInv'
<1> SUFFICES ASSUME EnvInv, TrimInv, [Next]_vars PROVE TrimInv'
  OBVIOUS
<1>1. CASE OverflowRetry
  <2>1. learned' = {}
    BY <1>1, Trimmed DEF OverflowRetry, MayTrim, TrimInv, LearnedWasServed
  <2>2. tools' \in Nat /\ retries' \in Nat /\ retries' > 0 /\ pending' = {tools'}
    BY <1>1, Trimmed DEF TrimInv
  <2> QED BY <2>1, <2>2 DEF TrimInv, LearnedWasServed
<1>2. CASE StreamDone
  BY <1>2 DEF StreamDone, Streaming, TrimInv, LearnedWasServed
<1>3. ASSUME ~OverflowRetry, ~StreamDone
      PROVE  /\ UNCHANGED <<tools, retries, pending, learned>>
             /\ phase = "served" => phase' = "served"
  BY <1>3 DEF Next, Call, Stream, Cancel, Post, Connects, ConnectFails, HttpError,
       JsonEnvelope, PreStreamTimeout, Backoff, Headers, AttemptEnds,
       StreamCancelled, StreamGuard, Delta, StreamError, StreamFails, Streaming,
       Degrade, Done, vars, toolVars
<1>4. CASE ~OverflowRetry /\ ~StreamDone
  BY <1>3, <1>4 DEF TrimInv, LearnedWasServed
<1> QED BY <1>1, <1>2, <1>4

\* TrimInv holds in every behaviour.
LEMMA TrimHolds == Spec => []TrimInv
<1>1. Init => TrimInv
  BY ModelRoundAssumption DEF Init, TrimInv, LearnedWasServed
<1> QED BY <1>1, EnvHolds, TrimStep, PTL DEF Spec

\* A ceiling is learned only from a call that was served with exactly that many
\* tools, however the trims and failures before it went.
THEOREM CeilingWasServed == Spec => []LearnedWasServed
<1>1. TrimInv => LearnedWasServed
  BY DEF TrimInv
<1> QED BY <1>1, TrimHolds, PTL

\* Every overflow retry sends fewer tools and at least one, for any token count
\* the backend reports and any estimate made without one.
THEOREM TrimShrinks == Spec => TrimProgress
<1>1. EnvInv /\ TrimInv /\ [Next]_vars
        => [retries' # retries => tools' < tools /\ tools' >= 1]_vars
  <2> SUFFICES ASSUME EnvInv, TrimInv, Next, retries' # retries
               PROVE  tools' < tools /\ tools' >= 1
    BY DEF vars
  <2>1. OverflowRetry
    BY DEF Next, Call, Stream, Cancel, Post, Connects, ConnectFails, HttpError,
           JsonEnvelope, PreStreamTimeout, Backoff, Headers, AttemptEnds,
           StreamCancelled, StreamGuard, Delta, StreamError, StreamDone,
           StreamFails, Degrade, Done, vars, toolVars
  <2> QED BY <2>1, Trimmed
<1> QED BY <1>1, EnvHolds, TrimHolds, PTL DEF Spec, TrimProgress

\* A call that streamed is followed by another request only as a trimmed
\* overflow retry: no other failure, cancel or timer sends the round back.
THEOREM StreamedCallFinal == Spec => StreamedCallOnlyTrimmed
<1> DEFINE Resends == callDeltas > 0 /\ phase' \in {"post", "sent", "backoff"}
           Trims == /\ phase = "failed" /\ kind = "context_overflow"
                    /\ tools' < tools /\ retries' = retries + 1
<1>1. EnvInv /\ TrimInv /\ RetryInv /\ [Next]_vars => [Resends => Trims]_vars
  <2> SUFFICES ASSUME EnvInv, TrimInv, RetryInv, Next, Resends PROVE Trims
    OBVIOUS
  <2>1. phase \notin {"post", "sent", "backoff"}
    BY DEF RetryInv
  <2>2. OverflowRetry
    BY <2>1 DEF Next, Call, Stream, Cancel, Post, Connects, ConnectFails, HttpError,
           JsonEnvelope, PreStreamTimeout, Backoff, Headers, AttemptEnds,
           StreamCancelled, StreamGuard, Delta, StreamError, StreamDone,
           StreamFails, Streaming, Degrade, Done, vars
  <2>3. tools' < tools /\ retries' = retries + 1
    BY <2>2, Trimmed
  <2> QED BY <2>2, <2>3 DEF OverflowRetry, MayTrim
<1> QED BY <1>1, EnvHolds, TrimHolds, RetryHolds, PTL
        DEF Spec, StreamedCallOnlyTrimmed
-----------------------------------------------------------------------------
(* Types and the ranges of the loop counters.                              *)

\* What makes the ranges inductive: a retry has an attempt left, a running stream is
\* within its cap, and a call has sent one request per attempt made.
Counted ==
  /\ phase = "backoff" => attempt < effective_max_prestream_attempts(config.cap)
  /\ phase = "stream" => callDeltas <= MaxResponse
  /\ posts <= retries * MAX_PROMPT_ATTEMPTS
                + (IF phase = "post" THEN attempt - 1 ELSE attempt)

\* One to three attempts, cap or no cap.
LEMMA AttemptRange ==
  ASSUME NEW cap \in Nat
  PROVE  effective_max_prestream_attempts(cap) \in 1..3
<1>1. CASE cap = 0
  BY <1>1 DEF effective_max_prestream_attempts, MAX_PROMPT_ATTEMPTS
<1>2. CASE cap # 0
  <2>1. cap \in Nat \ {0}
    BY <1>2
  <2> QED BY <2>1, AttemptsBounded
<1> QED BY <1>1, <1>2

\* A step of a call that leaves the tool array alone, by what it does to the counters.
LEMMA CallStep ==
  ASSUME TypeOK, Counted, UNCHANGED <<config, model, tools, retries, pending>>,
         phase' \in Phases, kind' \in Kinds, connected' \in BOOLEAN, cancelled' \in BOOLEAN,
         quiet' \in Nat, deltas' \in Nat, callDeltas' \in 0..(MaxResponse + 1),
         learned' \in {learned, pending},
         phase' = "stream" => callDeltas' <= MaxResponse,
         \/ /\ UNCHANGED <<attempt, posts>> /\ (phase = "post" <=> phase' = "post")
            /\ phase' = "backoff" => attempt < effective_max_prestream_attempts(config.cap)
         \/ UNCHANGED attempt /\ posts' = posts + 1 /\ phase = "post" /\ phase' = "sent"
         \/ attempt' = attempt + 1 /\ UNCHANGED posts /\ phase = "backoff" /\ phase' = "post"
  PROVE  TypeOK' /\ Counted'
<1>1. /\ attempt \in Nat /\ posts \in Nat /\ retries \in Nat
      /\ effective_max_prestream_attempts(config.cap) \in 1..3
  BY AttemptRange DEF TypeOK, MAX_OVERFLOW_RETRIES
<1>2. config' = config /\ retries' = retries
  OBVIOUS
<1>3. attempt' \in 1..effective_max_prestream_attempts(config'.cap)
  BY <1>1, <1>2 DEF TypeOK, Counted
<1>4. Counted'
  BY <1>1, <1>2 DEF Counted, MAX_PROMPT_ATTEMPTS
<1>5. posts' \in 0..((retries' + 1) * MAX_PROMPT_ATTEMPTS)
  <2>1. attempt' \in 1..3 /\ posts' \in Nat
    BY <1>1, <1>2, <1>3
  <2>2. posts' <= retries' * MAX_PROMPT_ATTEMPTS
                   + (IF phase' = "post" THEN attempt' - 1 ELSE attempt')
    BY <1>4 DEF Counted
  <2>3. retries' \in Nat
    BY <1>1, <1>2
  <2> DEFINE p == posts'
             q == retries'
             b == attempt'
             c == IF phase' = "post" THEN b - 1 ELSE b
  <2>4. p \in Nat /\ q \in Nat /\ b \in 1..3 /\ p <= q * MAX_PROMPT_ATTEMPTS + c
    BY <2>1, <2>2, <2>3
  <2>5. c \in 0..3
    BY <2>4
  <2> HIDE DEF p, q, b, c
  <2>6. p \in 0..((q + 1) * MAX_PROMPT_ATTEMPTS)
    BY <2>4, <2>5 DEF MAX_PROMPT_ATTEMPTS
  <2> QED BY <2>6 DEF p, q
<1>6. learned' \in SUBSET (1..MaxTools)
  BY DEF TypeOK
<1> QED BY <1>3, <1>4, <1>5, <1>6 DEF TypeOK

\* Every step keeps the types and the ranges.
LEMMA RangeStep == TypeOK /\ Counted /\ EnvInv /\ RetryInv /\ [Next]_vars => TypeOK' /\ Counted'
<1> SUFFICES ASSUME TypeOK, Counted, EnvInv, RetryInv, [Next]_vars PROVE TypeOK' /\ Counted'
  OBVIOUS
<1> USE DEF callVars, toolVars
<1>0. /\ phase \in Phases /\ kind \in Kinds /\ connected \in BOOLEAN /\ cancelled \in BOOLEAN
      /\ quiet \in Nat /\ deltas \in Nat /\ callDeltas \in 0..(MaxResponse + 1)
      /\ phase = "stream" => callDeltas <= MaxResponse
      /\ phase = "backoff" => attempt < effective_max_prestream_attempts(config.cap)
      /\ MaxResponse \in Nat
  BY ModelRoundAssumption DEF TypeOK, Counted
<1>1. AttemptTimes \subseteq Nat
  <2>1. config.cap * 1000 \in Nat
    BY DEF EnvInv
  <2>2. UpTo(config.cap * 1000) \subseteq Nat
    BY <2>1, UpToBounded
  <2>3. {0} \cup Samples \subseteq Nat
    BY ModelRoundAssumption
  <2> QED BY <2>2, <2>3, Zenon DEF AttemptTimes
<1>2. ASSUME NEW k \in Kinds, NEW d \in Nat, phase = "sent",
             kind' = k, quiet' = quiet + d, phase' \in {"backoff", "failed"},
             phase' = "backoff" => attempt < effective_max_prestream_attempts(config.cap),
             UNCHANGED <<config, model, posts, deltas, cancelled, attempt, connected,
                         callDeltas, toolVars>>
      PROVE  TypeOK' /\ Counted'
  <2>1. quiet' \in Nat
    BY <1>0, <1>2
  <2> QED BY <1>0, <1>2, <2>1, CallStep DEF Phases
<1>3. CASE Cancel
  <2>1. /\ cancelled' \in BOOLEAN
        /\ UNCHANGED <<config, model, phase, kind, posts, deltas, callVars, toolVars>>
    BY <1>3 DEF Cancel
  <2> QED BY <1>0, <2>1, CallStep
<1>4. CASE Post
  <2>1. /\ phase = "post" /\ phase' = "sent" /\ posts' = posts + 1 /\ connected' = FALSE
        /\ UNCHANGED <<config, model, kind, deltas, cancelled, attempt, quiet, callDeltas, toolVars>>
    BY <1>4 DEF Post
  <2> QED BY <1>0, <2>1, CallStep DEF Phases
<1>5. CASE Connects
  <2>1. /\ connected' = TRUE
        /\ UNCHANGED <<config, model, phase, kind, posts, deltas, cancelled, attempt,
                       quiet, callDeltas, toolVars>>
    BY <1>5 DEF Connects
  <2> QED BY <1>0, <2>1, CallStep
<1>6. CASE ConnectFails
  <2>1. config.connect * 1000 \in Nat
    BY DEF EnvInv
  <2>2. PICK d \in UpTo(config.connect * 1000) : AttemptEnds("unreachable", d, FALSE)
    BY <1>6 DEF ConnectFails
  <2>3. d \in Nat
    BY <2>1, UpToBounded
  <2>4. "unreachable" \in Kinds
    BY DEF Kinds
  <2>5. phase = "sent" /\ phase' = "failed"
    BY <1>6, <2>2 DEF ConnectFails, AttemptEnds
  <2> QED BY <1>2, <2>2, <2>3, <2>4, <2>5 DEF AttemptEnds
<1>7. CASE HttpError
  <2>1. PICK k \in HttpKinds, d \in AttemptTimes : AttemptEnds(k, d, k \in Transient)
    BY <1>7 DEF HttpError
  <2>2. k \in Kinds /\ d \in Nat
    BY <1>1, <2>1 DEF Kinds
  <2>3. /\ phase = "sent" /\ phase' \in {"backoff", "failed"}
        /\ phase' = "backoff" => attempt < effective_max_prestream_attempts(config.cap)
    BY <1>7, <2>1 DEF HttpError, AttemptEnds
  <2> QED BY <1>2, <2>1, <2>2, <2>3 DEF AttemptEnds
<1>8. CASE JsonEnvelope
  <2>1. PICK k \in EnvelopeKinds, d \in AttemptTimes : AttemptEnds(k, d, FALSE)
    BY <1>8 DEF JsonEnvelope
  <2>2. k \in Kinds /\ d \in Nat
    BY <1>1, <2>1 DEF Kinds
  <2>3. phase = "sent" /\ phase' = "failed"
    BY <1>8, <2>1 DEF JsonEnvelope, AttemptEnds
  <2> QED BY <1>2, <2>1, <2>2, <2>3 DEF AttemptEnds
<1>9. CASE PreStreamTimeout
  <2>1. config.cap * 1000 \in Nat
    BY DEF EnvInv
  <2>2. "timeout" \in Kinds
    BY DEF Kinds, HttpKinds, Transient
  <2>3. AttemptEnds("timeout", config.cap * 1000, TRUE) /\ phase = "sent"
    BY <1>9 DEF PreStreamTimeout
  <2>4. /\ phase' \in {"backoff", "failed"}
        /\ phase' = "backoff" => attempt < effective_max_prestream_attempts(config.cap)
    BY <2>3 DEF AttemptEnds
  <2> QED BY <1>2, <2>1, <2>2, <2>3, <2>4 DEF AttemptEnds
<1>10. CASE Backoff
  <2>1. PICK b \in retry_backoff(kind, attempt - 1) : quiet' = quiet + b
    BY <1>10 DEF Backoff
  <2>2. quiet' \in Nat
    BY <1>0, <2>1, BackoffBounded
  <2>3. /\ phase = "backoff" /\ attempt' = attempt + 1 /\ phase' = "post"
        /\ UNCHANGED <<config, model, kind, posts, deltas, cancelled, connected, callDeltas, toolVars>>
    BY <1>10 DEF Backoff
  <2> QED BY <1>0, <2>2, <2>3, CallStep DEF Phases
<1>11. CASE Headers
  <2>1. PICK d \in AttemptTimes : quiet' = quiet + d
    BY <1>11 DEF Headers
  <2>2. quiet' \in Nat
    BY <1>0, <1>1, <2>1
  <2>3. /\ phase = "sent" /\ phase' = "stream"
        /\ UNCHANGED <<config, model, kind, posts, deltas, cancelled, attempt, connected,
                       callDeltas, toolVars>>
    BY <1>11 DEF Headers
  <2>4. callDeltas = 0
    BY <2>3 DEF RetryInv
  <2> QED BY <1>0, <2>2, <2>3, <2>4, CallStep DEF Phases
<1>12. CASE StreamCancelled
  <2>1. /\ phase = "stream" /\ phase' = "cancelled"
        /\ UNCHANGED <<config, model, kind, posts, deltas, cancelled, callVars, toolVars>>
    BY <1>12 DEF StreamCancelled
  <2> QED BY <1>0, <2>1, CallStep DEF Phases
<1>13. CASE StreamGuard \/ StreamError
  <2>1. PICK k \in Kinds : StreamFails(k)
    BY <1>13 DEF StreamGuard, StreamError, Kinds
  <2>2. phase = "stream" /\ UNCHANGED <<deltas, callDeltas>>
    BY <1>13 DEF StreamGuard, StreamError, Streaming
  <2> QED BY <1>0, <2>1, <2>2, CallStep DEF StreamFails, Phases
<1>14. CASE Delta
  <2>1. /\ phase = "stream" /\ deltas' = deltas + 1 /\ callDeltas' = callDeltas + 1
        /\ UNCHANGED <<config, model, posts, cancelled, attempt, connected, quiet, toolVars>>
        /\ \/ kind' \in Kinds /\ phase' = "failed"
           \/ callDeltas + 1 <= MaxResponse /\ UNCHANGED <<phase, kind>>
    BY <1>14 DEF Delta, Streaming, StreamFails, Kinds
  <2> QED BY <1>0, <2>1, CallStep DEF Phases
<1>15. CASE StreamDone
  <2>1. /\ phase = "stream" /\ phase' = "served" /\ learned' \in {learned, pending}
        /\ UNCHANGED <<config, model, kind, posts, deltas, cancelled, callVars, tools, retries, pending>>
    BY <1>15 DEF StreamDone, Streaming
  <2> QED BY <1>0, <2>1, CallStep DEF Phases
<1>16. CASE Degrade
  <2>1. /\ phase = "failed" /\ phase' = "refused"
        /\ UNCHANGED <<config, model, kind, posts, deltas, cancelled, callVars, toolVars>>
    BY <1>16 DEF Degrade
  <2> QED BY <1>0, <2>1, CallStep DEF Phases
<1>17. CASE UNCHANGED vars
  BY <1>0, <1>17, CallStep DEF vars
<1>18. CASE OverflowRetry
  <2>1. PICK n \in Fits(tools) : tools' = n /\ pending' = {n}
    BY <1>18 DEF OverflowRetry
  <2>2. /\ tools > 1 /\ retries < MAX_OVERFLOW_RETRIES
        /\ retries' = retries + 1 /\ phase' = "post" /\ attempt' = 1 /\ connected' = FALSE
        /\ quiet' = 0 /\ callDeltas' = 0
        /\ UNCHANGED <<config, model, kind, posts, deltas, cancelled, learned>>
        /\ phase = "failed"
    BY <1>18 DEF OverflowRetry, MayTrim
  <2>3. tools \in Nat /\ tools <= MaxTools /\ MaxTools \in Nat
    BY ModelRoundAssumption DEF TypeOK
  <2>4. n \in 1..(tools - 1)
    BY <2>2, <2>3, FitsBounded DEF EnvInv
  <2>5. tools' \in 0..MaxTools /\ pending' \in SUBSET (1..MaxTools)
    BY <2>1, <2>3, <2>4
  <2>6. /\ effective_max_prestream_attempts(config.cap) \in 1..3 /\ attempt \in 1..3
        /\ retries \in Nat /\ posts \in Nat
    BY AttemptRange DEF TypeOK, MAX_OVERFLOW_RETRIES
  <2>7. attempt' \in 1..effective_max_prestream_attempts(config'.cap)
    BY <2>2, <2>6
  <2>8. posts <= retries * 3 + 3
    BY <2>2, <2>6 DEF Counted, MAX_PROMPT_ATTEMPTS
  <2>9. retries' \in 0..MAX_OVERFLOW_RETRIES
        /\ posts' \in 0..((retries' + 1) * MAX_PROMPT_ATTEMPTS)
        /\ posts' <= retries' * MAX_PROMPT_ATTEMPTS
    BY <2>2, <2>6, <2>8 DEF MAX_OVERFLOW_RETRIES, MAX_PROMPT_ATTEMPTS
  <2>10. Counted'
    BY <2>2, <2>6, <2>9 DEF Counted, MAX_PROMPT_ATTEMPTS, MAX_OVERFLOW_RETRIES
  <2>11. /\ config' \in [cap : Nat, connect : Nat]
         /\ model' \in [overhead : Nat, window : Nat, measured : BOOLEAN]
         /\ learned' \in SUBSET (1..MaxTools)
    BY <2>2 DEF TypeOK
  <2>12. /\ phase' \in Phases /\ kind' \in Kinds /\ quiet' \in Nat /\ deltas' \in Nat
         /\ callDeltas' \in 0..(MaxResponse + 1)
    BY <1>0, <2>2 DEF Phases
  <2>13. connected' \in BOOLEAN /\ cancelled' \in BOOLEAN
    BY <1>0, <2>2, Zenon
  <2>14. TypeOK'
    BY <2>5, <2>7, <2>9, <2>11, <2>12, <2>13, Zenon DEF TypeOK
  <2> QED BY <2>10, <2>14
<1> QED BY <1>3, <1>4, <1>5, <1>6, <1>7, <1>8, <1>9, <1>10, <1>11, <1>12, <1>13, <1>14,
           <1>15, <1>16, <1>17, <1>18 DEF Next, Call, Stream, Done

\* Every variable keeps its type and every counter its range: at most three attempts a
\* call, at most four calls a round and so twelve requests, at most one chunk over the cap.
THEOREM TypeCorrect == Spec => []TypeOK
<1>1. Init => TypeOK /\ Counted
  <2> SUFFICES ASSUME Init PROVE TypeOK /\ Counted
    OBVIOUS
  <2>1. PICK raw \in RawCaps, ct \in ConnectTimeouts :
          config = [cap |-> effective_prestream_cap(raw, ct), connect |-> ct]
    BY DEF Init
  <2>2. raw \in Nat /\ ct \in Nat
    BY ModelRoundAssumption
  <2>3. config \in [cap : Nat, connect : Nat] /\ config.cap \in Nat
    BY <2>1, <2>2, CapAboveConnect
  <2>4. model \in [overhead : Nat, window : Nat, measured : BOOLEAN]
    BY ModelRoundAssumption DEF Init
  <2>5. attempt = 1 /\ effective_max_prestream_attempts(config.cap) \in 1..3
    BY <2>3, AttemptRange DEF Init
  <2>6. MaxResponse \in Nat /\ MaxTools \in Nat /\ "none" \in Kinds
    BY ModelRoundAssumption DEF Kinds
  <2>7. /\ phase = "post" /\ kind = "none" /\ connected = FALSE /\ quiet = 0 /\ posts = 0
        /\ deltas = 0 /\ callDeltas = 0 /\ tools \in 0..MaxTools /\ retries = 0
        /\ pending = {} /\ learned = {} /\ cancelled = FALSE
    BY DEF Init
  <2>8. posts \in 0..((retries + 1) * MAX_PROMPT_ATTEMPTS)
    BY <2>7 DEF MAX_PROMPT_ATTEMPTS
  <2>9. Counted
    BY <2>5, <2>7 DEF Counted, MAX_PROMPT_ATTEMPTS
  <2>10. /\ phase \in Phases /\ kind \in Kinds /\ quiet \in Nat /\ deltas \in Nat
         /\ callDeltas \in 0..(MaxResponse + 1)
         /\ attempt \in 1..effective_max_prestream_attempts(config.cap)
    BY <2>5, <2>6, <2>7 DEF Phases
  <2>11. /\ retries \in 0..MAX_OVERFLOW_RETRIES
         /\ pending \in SUBSET (1..MaxTools) /\ learned \in SUBSET (1..MaxTools)
    BY <2>7 DEF MAX_OVERFLOW_RETRIES
  <2>12. connected \in BOOLEAN /\ cancelled \in BOOLEAN
    BY <2>7, Zenon
  <2>13. TypeOK
    BY <2>3, <2>4, <2>7, <2>8, <2>10, <2>11, <2>12, Zenon DEF TypeOK
  <2> QED BY <2>9, <2>13
<1> QED BY <1>1, EnvHolds, RetryHolds, RangeStep, PTL DEF Spec
=============================================================================
