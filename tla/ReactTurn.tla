------------------------------ MODULE ReactTurn ------------------------------
(***************************************************************************)
(* The ReAct loop of src/bridge/mod.rs (handle_session_prompt): prune the   *)
(* history, call the model, run the tool calls it returns one after the     *)
(* other through src/bridge/tools.rs, feed the results back, until the      *)
(* model stops calling, a limit or a circuit breaker ends the turn, or the  *)
(* user cancels.  The history outlives the turn; everything else is local.  *)
(*                                                                         *)
(* The model call itself is ModelRound; here it answers, is refused or is   *)
(* cancelled.  A message has a role, the calls it makes and the call it     *)
(* answers; sizes are counted in messages, and call ids are taken to be     *)
(* unique.  Definitions marked Fault are not the code: each is a plausible  *)
(* slip, kept to show that the properties would notice it.                  *)
(***************************************************************************)
EXTENDS Naturals, Sequences, FiniteSets, FiniteSetsExt, Functions

CONSTANTS
  Sigs,          \* call signatures: tool name and canonical arguments
  Buffered,      \* tool content is buffered and the schema-bleed guard is on
  MaxBatch,      \* calls in one answer
  MaxToolRounds, ErrorLimit, SuccessLimit,   \* the configured limits
  PruneAt,       \* prune threshold, in messages
  Backstop,      \* twice the warn threshold, in messages
  MaxTurns       \* bound: prompts of the session

ASSUME ReactTurnAssumption ==
  /\ Buffered \in BOOLEAN
  /\ MaxBatch \in Nat \ {0} /\ MaxToolRounds \in Nat \ {0}
  /\ ErrorLimit \in Nat \ {0} /\ SuccessLimit \in Nat \ {0}
  /\ PruneAt \in Nat \ {0} /\ Backstop \in Nat \ {0} /\ MaxTurns \in Nat

VARIABLES
  history,     \* state.history
  turn,        \* prompts so far
  pc,          \* "idle", "round", "call" or "await"
  round,       \* tool_round
  batch,       \* signatures of the calls being run
  idx,         \* call_idx
  connected,   \* mcp_connection_id is set
  lastSig, errors, successes,     \* the breakers' streaks
  pending,     \* calls shown as pending and not yet closed
  cancelled,   \* the turn's token is tripped
  outcome,     \* finish reason of the last turn
  results,     \* <<signature, is_error>> of the turn's results (history variable)
  late,        \* mcp frames sent to the host after the token tripped
  aborted      \* turns that ended cancelled

loopVars == <<round, batch, idx, connected>>
streakVars == <<lastSig, errors, successes, results>>
vars == <<history, turn, pc, loopVars, streakVars, pending, cancelled, outcome,
          late, aborted>>

Call(r, k) == <<turn, r, k>>                  \* the k-th call of round r
CallIds(r, calls) == {Call(r, k) : k \in DOMAIN calls}
System == [role |-> "system", turn |-> 0, calls |-> {}, answers |-> <<>>]
User == [role |-> "user", turn |-> turn + 1, calls |-> {}, answers |-> <<>>]
Assistant(calls) ==
  [role |-> "assistant", turn |-> turn, calls |-> calls, answers |-> <<>>]
Tool(call) == [role |-> "tool", turn |-> turn, calls |-> {}, answers |-> call]

Init ==
  /\ history \in {<<>>, <<System>>}
  /\ turn = 0 /\ pc = "idle"
  /\ round = 0 /\ batch = <<>> /\ idx = 1 /\ connected = FALSE
  /\ lastSig = {} /\ errors = 0 /\ successes = 0 /\ results = <<>>
  /\ pending = {} /\ cancelled = FALSE /\ outcome = "none"
  /\ late = 0 /\ aborted = {}

\* A prompt appends the user message and starts with fresh locals.
Prompt ==
  /\ pc = "idle" /\ turn < MaxTurns
  /\ turn' = turn + 1
  /\ history' = Append(history, User)
  /\ pc' = "round"
  /\ round' = 0 /\ batch' = <<>> /\ idx' = 1 /\ connected' = FALSE
  /\ lastSig' = {} /\ errors' = 0 /\ successes' = 0 /\ results' = <<>>
  /\ pending' = {} /\ cancelled' = FALSE /\ late' = 0
  /\ UNCHANGED <<outcome, aborted>>

\* The router trips the token at any time.
Cancel ==
  /\ pc # "idle" /\ ~cancelled
  /\ cancelled' = TRUE
  /\ UNCHANGED <<history, turn, pc, loopVars, streakVars, pending, outcome, late,
                 aborted>>

Return(what) == pc' = "idle" /\ outcome' = what

(***************************************************************************)
(* prune_history_atomic: drop whole exchanges, oldest first, from the first *)
(* message that is not the system's, never past the latest user message.    *)
(***************************************************************************)
Users(h) == {i \in DOMAIN h : h[i].role = "user"}
PruneStart(h) == Min({i \in DOMAIN h : h[i].role # "system"})

\* Fault: the walk may take the prompt being answered.
Cuts_PastPrompt(h) == {PruneStart(h), Len(h) + 1} \cup {u \in Users(h) : u > PruneStart(h)}

\* Where the walk may stop, and where it does.
Cuts(h) == {PruneStart(h)} \cup {u \in Users(h) : u > PruneStart(h)}

\* Fault: it stops at the first message that is enough.
Cut_AnyMessage(h) ==
  Min({c \in PruneStart(h)..Max(Cuts(h)) :
         c = Max(Cuts(h)) \/ Len(h) - (c - PruneStart(h)) <= PruneAt})

Cut(h) ==
  LET enough == {c \in Cuts(h) : Len(h) - (c - PruneStart(h)) <= PruneAt}
  IN  IF enough = {} THEN Max(Cuts(h)) ELSE Min(enough)

Pruned(h) ==
  IF Len(h) <= PruneAt \/ Users(h) = {} THEN h
  ELSE SubSeq(h, 1, PruneStart(h) - 1) \o SubSeq(h, Cut(h), Len(h))

(***************************************************************************)
(* One round: limits, prune, backstop, model call, what to do with it.      *)
(***************************************************************************)
\* Fault: one round too many.
StartsRound_OneMore == pc = "round" /\ round <= MaxToolRounds

StartsRound == pc = "round" /\ round < MaxToolRounds

RoundsExceeded ==
  /\ pc = "round" /\ round >= MaxToolRounds
  /\ Return("max_turn_requests")
  /\ UNCHANGED <<history, turn, loopVars, streakVars, pending, cancelled, late,
                 aborted>>

\* The payload is past the backstop even after pruning: an untagged error.
PayloadTooLarge ==
  /\ StartsRound /\ Len(Pruned(history)) > Backstop
  /\ history' = Pruned(history)
  /\ Return("error")
  /\ UNCHANGED <<turn, loopVars, streakVars, pending, cancelled, late, aborted>>

ModelCalled == StartsRound /\ Len(Pruned(history)) <= Backstop

\* Overflow, HTTP or stream failure: one line to the user, nothing to repair.
ModelRefused ==
  /\ ModelCalled
  /\ history' = Pruned(history)
  /\ Return("refused")
  /\ UNCHANGED <<turn, loopVars, streakVars, pending, cancelled, late, aborted>>

ModelCancelled ==
  /\ ModelCalled /\ cancelled
  /\ history' = Pruned(history)
  /\ Return("cancelled")
  /\ aborted' = aborted \cup {turn}
  /\ UNCHANGED <<turn, loopVars, streakVars, pending, cancelled, late>>

Answers(calls) ==
  /\ ModelCalled /\ ~cancelled
  /\ history' = Append(Pruned(history), Assistant(calls))

\* No tool call: the content is the answer, or a refusal line stands in for it
\* (schema echoed as text, budget spent on reasoning).
AnswersText ==
  /\ Answers({})
  /\ \E what \in {"stop", "reasoning_budget_exhausted"} \cup
                 (IF Buffered THEN {"schema_bleed"} ELSE {}) : Return(what)
  /\ UNCHANGED <<turn, loopVars, streakVars, pending, cancelled, late, aborted>>

\* Fault: the first of them is left out.
Stubs_SkipsOne(r, calls, k) ==
  [i \in 1..(Len(calls) - k) |-> Tool(Call(r, k + i))]

\* Stub results for the calls of round r from the k-th on.
Stubs(r, calls, k) ==
  [i \in 1..(Len(calls) - k + 1) |-> Tool(Call(r, k + i - 1))]

Batches == UNION {[1..n -> Sigs] : n \in 1..MaxBatch}

\* Schema text beside native calls: none is run, each gets a stub.
AnswersBleedWithCalls ==
  /\ Buffered
  /\ \E calls \in Batches :
       /\ ModelCalled /\ ~cancelled
       /\ history' = Append(Pruned(history), Assistant(CallIds(round + 1, calls)))
                       \o Stubs(round + 1, calls, 1)
  /\ Return("schema_bleed")
  /\ UNCHANGED <<turn, loopVars, streakVars, pending, cancelled, late, aborted>>

\* Calls to run, native or one recovered from the content: all are announced
\* before the first runs.
AnswersCalls ==
  /\ \E calls \in Batches :
       /\ Answers(CallIds(round + 1, calls))
       /\ batch' = calls
       /\ pending' = CallIds(round + 1, calls)
  /\ round' = round + 1 /\ idx' = 1 /\ pc' = "call"
  /\ UNCHANGED <<turn, connected, streakVars, cancelled, outcome, late,
                 aborted>>

(***************************************************************************)
(* One call of the batch.                                                  *)
(***************************************************************************)
Sig == batch[idx]
Repeated == lastSig = {Sig}

\* Fault: any failing call counts.
ErrorStreak_AnyCall(err) == IF ~err THEN 0 ELSE errors + 1

\* The streaks, one failing or one succeeding, of identical calls.
ErrorStreak(err) == IF ~err THEN 0 ELSE IF Repeated THEN errors + 1 ELSE 1
SuccessStreak(err) == IF err THEN 0 ELSE IF Repeated THEN successes + 1 ELSE 1
Trips(err) ==
  ErrorStreak(err) >= ErrorLimit \/ SuccessStreak(err) >= SuccessLimit

\* Fault: the calls a breaker skips keep their rows.
Rest_None == {}

This == Call(round, idx)
Rest == {Call(round, k) : k \in (idx + 1)..Len(batch)}

\* A result: streaks, terminal event, history; a breaker closes the rest of
\* the batch with stubs and failed events and says why.
Result(err) ==
  /\ lastSig' = {Sig}
  /\ errors' = ErrorStreak(err) /\ successes' = SuccessStreak(err)
  /\ results' = Append(results, <<Sig, err>>)
  /\ IF Trips(err)
     THEN /\ history' = (history \o <<Tool(This)>>) \o Stubs(round, batch, idx + 1)
                                \o <<Assistant({})>>
          /\ pending' = pending \ ({This} \cup Rest)
          /\ Return("circuit_breaker")
          /\ UNCHANGED <<batch, idx>>
     ELSE /\ history' = Append(history, Tool(This))
          /\ pending' = pending \ {This}
          /\ IF idx < Len(batch)
             THEN pc' = "call" /\ idx' = idx + 1 /\ UNCHANGED batch
             ELSE pc' = "round" /\ idx' = 1 /\ batch' = <<>>
          /\ UNCHANGED outcome
  /\ UNCHANGED <<turn, round, cancelled, late, aborted>>

\* mcp/connect, once per turn.
Connects ==
  /\ pc = "call" /\ ~connected /\ ~cancelled
  /\ connected' = TRUE
  /\ UNCHANGED <<history, turn, pc, round, batch, idx, streakVars, pending,
                 cancelled, outcome, late, aborted>>

\* No frame of this call reaches the host: the connect failed, the arguments
\* are not a JSON object, or the channel has no room.
CallFailsHere ==
  /\ pc = "call"
  /\ Result(TRUE)
  /\ UNCHANGED connected

\* mcp/message is queued for the host whatever the token says, mcp/connect too.
SendCall ==
  /\ pc = "call" /\ connected
  /\ pc' = "await"
  /\ late' = IF cancelled THEN late + 1 ELSE late
  /\ UNCHANGED <<history, turn, loopVars, streakVars, pending, cancelled, outcome,
                 aborted>>

\* Fault: the result is taken before the token is looked at.
CallReturns_Unbiased ==
  /\ pc = "await"
  /\ \E err \in BOOLEAN : Result(err)
  /\ UNCHANGED connected

CallReturns ==
  /\ pc = "await" /\ ~cancelled
  /\ \E err \in BOOLEAN : Result(err)
  /\ UNCHANGED connected

\* Fault: only mcp/connect is awaited with the token.
CallCancelled_ConnectOnly ==
  /\ cancelled
  /\ pc = "call" /\ ~connected /\ late' \in {late, late + 1}
  /\ Return("cancelled")
  /\ aborted' = aborted \cup {turn}
  /\ UNCHANGED <<history, turn, loopVars, streakVars, pending, cancelled>>

\* The await of mcp/connect or mcp/message prefers the token; the turn is left
\* as it stands.
CallCancelled ==
  /\ cancelled
  /\ \/ pc = "await" /\ UNCHANGED late
     \/ pc = "call" /\ ~connected /\ late' \in {late, late + 1}
  /\ Return("cancelled")
  /\ aborted' = aborted \cup {turn}
  /\ UNCHANGED <<history, turn, loopVars, streakVars, pending, cancelled>>

Finished == pc = "idle" /\ turn = MaxTurns /\ UNCHANGED vars

Round == RoundsExceeded \/ PayloadTooLarge \/ ModelRefused \/ ModelCancelled
         \/ AnswersText \/ AnswersBleedWithCalls \/ AnswersCalls
RunCall == Connects \/ CallFailsHere \/ SendCall \/ CallReturns \/ CallCancelled
Next == Prompt \/ Cancel \/ Round \/ RunCall \/ Finished

Spec == Init /\ [][Next]_vars

\* A model call ends (ModelRound) and so does a round trip (AcpServer).
FairSpec == Spec /\ WF_vars(Round) /\ WF_vars(RunCall)

(***************************************************************************)
(* Properties.                                                             *)
(***************************************************************************)
CallId == (1..MaxTurns) \X (1..MaxToolRounds) \X (1..MaxBatch)
Message == [role : {"system", "user", "assistant", "tool"}, turn : 0..MaxTurns,
            calls : SUBSET CallId, answers : CallId \cup {<<>>}]
Ends == {"none", "max_turn_requests", "error", "refused", "cancelled", "stop",
         "reasoning_budget_exhausted", "schema_bleed", "circuit_breaker"}

\* Types, and the place in the batch while a call runs.
TypeOK ==
  /\ history \in Seq(Message) /\ turn \in 0..MaxTurns
  /\ pc \in {"idle", "round", "call", "await"}
  /\ round \in 0..MaxToolRounds /\ batch \in Batches \cup {<<>>}
  /\ pc \in {"call", "await"} => idx \in DOMAIN batch
  /\ connected \in BOOLEAN /\ cancelled \in BOOLEAN
  /\ lastSig \in SUBSET Sigs /\ errors \in 0..ErrorLimit
  /\ successes \in 0..SuccessLimit
  /\ pending \subseteq CallId /\ outcome \in Ends
  /\ late \in Nat /\ aborted \subseteq 1..MaxTurns

\* Results to an assistant message with calls follow it directly.
AnsweredAt(i) ==
  {history[j].answers : j \in {j \in DOMAIN history :
     /\ j > i
     /\ \A k \in (i + 1)..j : history[k].role = "tool"}}

\* Every call in the history is answered right after the message that makes
\* it, whichever way the turn ended; only the last batch of a turn that was
\* cancelled is left open.
CallsAnswered ==
  pc = "idle" =>
    \A i \in DOMAIN history :
      history[i].calls # {} =>
        history[i].calls = AnsweredAt(i) \/ history[i].turn \in aborted

\* No result without its call: pruning never parts the two, and no call is
\* answered twice.
ResultsHaveCalls ==
  \A j \in DOMAIN history : history[j].role = "tool" =>
    /\ \E i \in 1..(j - 1) :
         /\ history[j].answers \in history[i].calls
         /\ \A k \in (i + 1)..j : history[k].role = "tool"
    /\ \A k \in DOMAIN history \ {j} : history[k].answers # history[j].answers

\* However long the session, pruning keeps the system message, the prompt being
\* answered and everything after it.
Kept(i) ==
  \/ history[i] = System
  \/ \E u \in 1..i : history[u].role = "user" /\ history[u].turn = turn
PromptKept ==
  [][turn' = turn =>
       \A i \in DOMAIN history : Kept(i) => history[i] \in Range(history')]_vars

\* The streaks are the lengths of the last run of identical calls with the same
\* verdict, and none gets past its limit: the turn is over when one reaches it.
RunLength ==
  Cardinality({i \in DOMAIN results :
    \A k \in i..Len(results) : results[k] = results[Len(results)]})
StreaksExact ==
  results # <<>> =>
    LET last == results[Len(results)] IN
      /\ lastSig = {last[1]}
      /\ errors = (IF last[2] THEN RunLength ELSE 0)
      /\ successes = (IF last[2] THEN 0 ELSE RunLength)
      /\ pc # "idle" => errors < ErrorLimit /\ successes < SuccessLimit

\* A call shown as pending is closed when the turn ends, unless it is cancelled.
NoOrphanRows == pc = "idle" /\ outcome # "cancelled" => pending = {}

\* Once the token is tripped at most one more call leaves for the host.
OneLateCall == late <= 1

\* A turn ends, whatever the model keeps asking for.
TurnEnds == pc # "idle" ~> pc = "idle"

\* Claimed of every return path, cancel included: the history is repaired.
HistoryRepaired ==
  pc = "idle" =>
    \A i \in DOMAIN history :
      history[i].calls # {} => history[i].calls = AnsweredAt(i)
=============================================================================
