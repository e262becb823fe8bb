--------------------------- MODULE ReactTurnProofs ---------------------------
(***************************************************************************)
(* Theorems about the bookkeeping of the ReAct loop in ReactTurn, for every *)
(* set of call signatures, batch size, limit and number of prompts.         *)
(***************************************************************************)
EXTENDS ReactTurn, SequenceTheorems, FiniteSetTheorems, TLAPS

\* The part of the type invariant the proofs need.
Types ==
  /\ turn \in Nat /\ round \in Nat
  /\ pc \in {"idle", "round", "call", "await"}
  /\ cancelled \in BOOLEAN
  /\ pc \in {"call", "await"} => batch \in Seq(Sigs) /\ idx \in 1..Len(batch)
  /\ results \in Seq(Sigs \X BOOLEAN)

-----------------------------------------------------------------------------
(* Batches, results and the steps that produce them.                       *)

\* A batch is a sequence with a first call.
LEMMA BatchSeq ==
  ASSUME NEW calls \in Batches
  PROVE  calls \in Seq(Sigs) /\ Len(calls) \in Nat /\ 1 \in 1..Len(calls)
<1>1. PICK n \in 1..MaxBatch : calls \in [1..n -> Sigs]
  BY DEF Batches
<1>2. n \in Nat /\ n >= 1
  BY <1>1, ReactTurnAssumption
<1>3. calls \in Seq(Sigs)
  BY <1>1, <1>2
<1>4. Len(calls) = n
  BY <1>1, <1>2, <1>3
<1> QED BY <1>2, <1>3, <1>4

\* A call returned with a verdict: the only steps that touch the streaks during
\* a turn.
Returned(err) == pc \in {"call", "await"} /\ ~(pc = "await" /\ cancelled)
                 /\ Result(err) /\ UNCHANGED connected

\* The two actions that produce a result.
LEMMA ResultSteps ==
  ASSUME CallFailsHere \/ CallReturns
  PROVE  \E err \in BOOLEAN : Returned(err)
BY DEF CallFailsHere, CallReturns, Returned

Quiet == /\ UNCHANGED streakVars
         /\ pc = "idle" => pc' = "idle"

\* Every other step of a turn leaves the streaks alone.
LEMMA QuietSteps ==
  ASSUME Cancel \/ RoundsExceeded \/ PayloadTooLarge \/ ModelRefused
         \/ ModelCancelled \/ AnswersText \/ AnswersBleedWithCalls \/ AnswersCalls
         \/ Connects \/ SendCall \/ CallCancelled \/ UNCHANGED vars
  PROVE  Quiet
<1> USE DEF Quiet, Return
<1>1. CASE Cancel BY <1>1 DEF Cancel
<1>2. CASE RoundsExceeded BY <1>2 DEF RoundsExceeded
<1>3. CASE PayloadTooLarge BY <1>3 DEF PayloadTooLarge
<1>4. CASE ModelRefused BY <1>4 DEF ModelRefused
<1>5. CASE ModelCancelled BY <1>5 DEF ModelCancelled
<1>6. CASE AnswersText BY <1>6 DEF AnswersText
<1>7. CASE AnswersBleedWithCalls BY <1>7 DEF AnswersBleedWithCalls
<1>8. CASE AnswersCalls
  BY <1>8 DEF AnswersCalls, Answers, ModelCalled, StartsRound
<1>9. CASE Connects BY <1>9 DEF Connects
<1>10. CASE SendCall BY <1>10 DEF SendCall
<1>11. CASE CallCancelled BY <1>11 DEF CallCancelled
<1>12. CASE UNCHANGED vars BY <1>12 DEF vars, streakVars
<1> QED BY <1>1, <1>2, <1>3, <1>4, <1>5, <1>6, <1>7, <1>8, <1>9, <1>10,
           <1>11, <1>12

\* The steps of the specification, sorted that way.
LEMMA Steps ==
  ASSUME [Next]_vars
  PROVE  \/ Prompt
         \/ \E err \in BOOLEAN : Returned(err)
         \/ Cancel \/ RoundsExceeded \/ PayloadTooLarge \/ ModelRefused
         \/ ModelCancelled \/ AnswersText \/ AnswersBleedWithCalls \/ AnswersCalls
         \/ Connects \/ SendCall \/ CallCancelled \/ UNCHANGED vars
BY ResultSteps DEF Next, Round, RunCall, Finished

-----------------------------------------------------------------------------
(* Types.                                                                  *)

\* Every step preserves the types.
LEMMA TypesStep == Types /\ [Next]_vars => Types'
<1> SUFFICES ASSUME Types, [Next]_vars PROVE Types'
  OBVIOUS
<1> USE DEF Types, Return, streakVars, loopVars
<1>1. CASE Prompt
  <2>1. turn' = turn + 1 /\ round' = 0 /\ pc' = "round" /\ results' = <<>>
    BY <1>1 DEF Prompt
  <2>2. cancelled' \in BOOLEAN
    BY <1>1, Zenon DEF Prompt
  <2> QED BY <2>1, <2>2
<1>2. CASE \E err \in BOOLEAN : Returned(err)
  <2>1. PICK err \in BOOLEAN : Returned(err)
    BY <1>2
  <2>2. UNCHANGED <<turn, round, cancelled>>
        /\ results' = Append(results, <<batch[idx], err>>)
    BY <2>1 DEF Returned, Result, Sig
  <2>3. batch \in Seq(Sigs) /\ idx \in 1..Len(batch)
    BY <2>1 DEF Returned
  <2>4. results' \in Seq(Sigs \X BOOLEAN)
    BY <2>2, <2>3
  <2>5. pc' = "idle" \/ pc' = "round"
        \/ (pc' = "call" /\ batch' = batch /\ idx' = idx + 1 /\ idx < Len(batch))
    BY <2>1 DEF Returned, Result
  <2>6. pc' \in {"call", "await"} => batch' \in Seq(Sigs) /\ idx' \in 1..Len(batch')
    BY <2>3, <2>5
  <2> QED BY <2>2, <2>4, <2>5, <2>6
<1>3. CASE Cancel BY <1>3 DEF Cancel
<1>4. CASE RoundsExceeded BY <1>4 DEF RoundsExceeded
<1>5. CASE PayloadTooLarge BY <1>5 DEF PayloadTooLarge
<1>6. CASE ModelRefused BY <1>6 DEF ModelRefused
<1>7. CASE ModelCancelled BY <1>7 DEF ModelCancelled
<1>8. CASE AnswersText BY <1>8 DEF AnswersText
<1>9. CASE AnswersBleedWithCalls BY <1>9 DEF AnswersBleedWithCalls
<1>10. CASE AnswersCalls
  <2>1. PICK calls \in Batches : batch' = calls
    BY <1>10 DEF AnswersCalls
  <2>2. UNCHANGED <<turn, cancelled, results>> /\ idx' = 1 /\ round' = round + 1
        /\ pc' = "call"
    BY <1>10 DEF AnswersCalls
  <2> QED BY <2>1, <2>2, BatchSeq
<1>11. CASE Connects BY <1>11 DEF Connects
<1>12. CASE SendCall BY <1>12 DEF SendCall
<1>13. CASE CallCancelled BY <1>13 DEF CallCancelled
<1>14. CASE UNCHANGED vars BY <1>14 DEF vars
<1> QED BY Steps, <1>1, <1>2, <1>3, <1>4, <1>5, <1>6, <1>7, <1>8, <1>9, <1>10,
           <1>11, <1>12, <1>13, <1>14

\* The types hold in every behaviour.
LEMMA TypesInv == Spec => []Types
<1>1. ASSUME Init PROVE Types
  <2>1. turn = 0 /\ round = 0 /\ pc = "idle" /\ results = <<>>
    BY <1>1 DEF Init
  <2>2. cancelled \in BOOLEAN
    BY <1>1, Zenon DEF Init
  <2> QED BY <2>1, <2>2 DEF Types
<1> QED BY <1>1, TypesStep, PTL DEF Spec

-----------------------------------------------------------------------------
(* Calls sent after the token tripped.                                     *)

\* A late call is outstanding or was the last of its turn: while the next call
\* is being prepared none has gone out yet.
LateInv ==
  /\ late \in {0, 1}
  /\ ~cancelled => late = 0
  /\ late = 1 => pc \in {"await", "idle"}

\* Every step preserves LateInv.
LEMMA LateStep == Types /\ LateInv /\ [Next]_vars => LateInv'
<1> SUFFICES ASSUME Types, LateInv, [Next]_vars PROVE LateInv'
  OBVIOUS
<1> USE DEF LateInv, Types, Return
<1>1. CASE Prompt
  BY <1>1 DEF Prompt
<1>2. CASE \E err \in BOOLEAN : Returned(err)
  <2>1. late = 0
    BY <1>2 DEF Returned
  <2>2. UNCHANGED late
    BY <1>2 DEF Returned, Result
  <2> QED BY <2>1, <2>2
<1>3. CASE Cancel BY <1>3 DEF Cancel
<1>4. CASE RoundsExceeded BY <1>4 DEF RoundsExceeded
<1>5. CASE PayloadTooLarge BY <1>5 DEF PayloadTooLarge
<1>6. CASE ModelRefused BY <1>6 DEF ModelRefused
<1>7. CASE ModelCancelled BY <1>7 DEF ModelCancelled
<1>8. CASE AnswersText BY <1>8 DEF AnswersText
<1>9. CASE AnswersBleedWithCalls BY <1>9 DEF AnswersBleedWithCalls
<1>10. CASE AnswersCalls
  BY <1>10 DEF AnswersCalls, Answers, ModelCalled, StartsRound
<1>11. CASE Connects BY <1>11 DEF Connects
<1>12. CASE SendCall BY <1>12 DEF SendCall
<1>13. CASE CallCancelled BY <1>13 DEF CallCancelled
<1>14. CASE UNCHANGED vars BY <1>14 DEF vars
<1> QED BY Steps, <1>1, <1>2, <1>3, <1>4, <1>5, <1>6, <1>7, <1>8, <1>9, <1>10,
           <1>11, <1>12, <1>13, <1>14

\* Once the user has cancelled, at most one more tool call leaves for the host,
\* whatever the sizes of the batches and the configured limits.
THEOREM AtMostOneLateCall == Spec => []OneLateCall
<1>1. Init => LateInv
  BY DEF Init, LateInv
<1>2. LateInv => OneLateCall
  BY DEF LateInv, OneLateCall
<1> QED BY <1>1, <1>2, TypesInv, LateStep, PTL DEF Spec

-----------------------------------------------------------------------------
(* Rows of pending calls.                                                  *)

\* While a batch runs exactly the calls from the current one on are pending;
\* between batches none is.
PendingInv ==
  /\ pc \in {"call", "await"} =>
       pending = {Call(round, k) : k \in idx..Len(batch)}
  /\ pc = "round" => pending = {}
  /\ NoOrphanRows

\* Every step preserves PendingInv.
LEMMA PendingStep == Types /\ PendingInv /\ [Next]_vars => PendingInv'
<1> SUFFICES ASSUME Types, PendingInv, [Next]_vars PROVE PendingInv'
  OBVIOUS
<1> USE DEF PendingInv, NoOrphanRows, Return, loopVars
<1>1. CASE Prompt
  BY <1>1 DEF Prompt
<1>2. CASE \E err \in BOOLEAN : Returned(err)
  <2>1. PICK err \in BOOLEAN : Returned(err)
    BY <1>2
  <2>2. idx \in 1..Len(batch) /\ Len(batch) \in Nat /\ UNCHANGED <<turn, round>>
    BY <2>1 DEF Returned, Result, Types
  <2>3. pending = {Call(round, k) : k \in idx..Len(batch)}
    BY <2>1 DEF Returned
  <2>4. \A k \in idx..Len(batch) : k = idx \/ k \in (idx + 1)..Len(batch)
    BY <2>2
  <2>5. CASE Trips(err)
    <3>1. pending' = pending \ ({This} \cup Rest) /\ pc' = "idle"
      BY <2>1, <2>5 DEF Returned, Result
    <3>2. pending' = {}
      BY <2>3, <2>4, <3>1 DEF This, Rest
    <3> QED BY <3>1, <3>2
  <2>6. CASE ~Trips(err)
    <3>1. pending' = pending \ {This}
      BY <2>1, <2>6 DEF Returned, Result
    <3>2. \A k \in (idx + 1)..Len(batch) :
            k \in idx..Len(batch) /\ Call(round, k) # Call(round, idx)
      BY <2>2 DEF Call
    <3>3. pending' = {Call(round, k) : k \in (idx + 1)..Len(batch)}
      BY <2>3, <2>4, <3>1, <3>2 DEF This
    <3>4. CASE idx < Len(batch)
      <4>1. pc' = "call" /\ idx' = idx + 1 /\ batch' = batch
        BY <2>1, <2>6, <3>4 DEF Returned, Result
      <4> QED BY <2>2, <3>3, <4>1 DEF Call
    <3>5. CASE ~(idx < Len(batch))
      <4>1. pc' = "round"
        BY <2>1, <2>6, <3>5 DEF Returned, Result
      <4>2. (idx + 1)..Len(batch) = {}
        BY <2>2, <3>5
      <4> QED BY <3>3, <4>1, <4>2
    <3> QED BY <3>4, <3>5
  <2> QED BY <2>5, <2>6
<1>3. CASE Cancel BY <1>3 DEF Cancel, Call
<1>4. CASE RoundsExceeded BY <1>4 DEF RoundsExceeded
<1>5. CASE PayloadTooLarge BY <1>5 DEF PayloadTooLarge, StartsRound
<1>6. CASE ModelRefused BY <1>6 DEF ModelRefused, ModelCalled, StartsRound
<1>7. CASE ModelCancelled BY <1>7 DEF ModelCancelled
<1>8. CASE AnswersText
  BY <1>8 DEF AnswersText, Answers, ModelCalled, StartsRound
<1>9. CASE AnswersBleedWithCalls
  BY <1>9 DEF AnswersBleedWithCalls, ModelCalled, StartsRound
<1>10. CASE AnswersCalls
  <2>1. PICK calls \in Batches :
          batch' = calls /\ pending' = CallIds(round + 1, calls)
    BY <1>10 DEF AnswersCalls
  <2>2. round' = round + 1 /\ idx' = 1 /\ pc' = "call" /\ turn' = turn
    BY <1>10 DEF AnswersCalls
  <2>3. DOMAIN calls = 1..Len(calls)
    BY BatchSeq
  <2> QED BY <2>1, <2>2, <2>3 DEF CallIds, Call
<1>11. CASE Connects BY <1>11 DEF Connects, Call
<1>12. CASE SendCall BY <1>12 DEF SendCall, Call
<1>13. CASE CallCancelled BY <1>13 DEF CallCancelled
<1>14. CASE UNCHANGED vars BY <1>14 DEF vars, Call
<1> QED BY Steps, <1>1, <1>2, <1>3, <1>4, <1>5, <1>6, <1>7, <1>8, <1>9, <1>10,
           <1>11, <1>12, <1>13, <1>14

\* Whichever way a turn ends, a tripped breaker in the middle of a batch
\* included, no call stays shown as pending unless the user cancelled.
THEOREM RowsClosed == Spec => []NoOrphanRows
<1>1. Init => PendingInv
  BY DEF Init, PendingInv, NoOrphanRows
<1>2. PendingInv => NoOrphanRows
  BY DEF PendingInv
<1> QED BY <1>1, <1>2, TypesInv, PendingStep, PTL DEF Spec

-----------------------------------------------------------------------------
(* The streaks of the breakers.                                            *)

\* The length of the run at the end of a sequence of results.
Run(s) == Cardinality({i \in DOMAIN s : \A k \in i..Len(s) : s[k] = s[Len(s)]})

\* An element equal to the last one lengthens the run, any other starts it anew.
LEMMA RunOfAppend ==
  ASSUME NEW S, NEW s \in Seq(S), NEW x \in S
  PROVE  /\ s # <<>> => Run(s) \in Nat
         /\ s # <<>> /\ s[Len(s)] = x => Run(Append(s, x)) = Run(s) + 1
         /\ s = <<>> \/ s[Len(s)] # x => Run(Append(s, x)) = 1
<1> DEFINE n == Len(s)
           t == Append(s, x)
           R == {i \in DOMAIN s : \A k \in i..Len(s) : s[k] = s[Len(s)]}
           T == {i \in DOMAIN t : \A k \in i..Len(t) : t[k] = t[Len(t)]}
<1>1. /\ n \in Nat /\ Len(t) = n + 1 /\ t[n + 1] = x
      /\ DOMAIN s = 1..n /\ DOMAIN t = 1..(n + 1)
      /\ \A i \in 1..n : t[i] = s[i]
  OBVIOUS
<1>2. IsFiniteSet(R)
  <2>1. R \subseteq 1..n
    BY <1>1
  <2>2. IsFiniteSet(1..n)
    BY <1>1, FS_Interval
  <2> QED BY <2>1, <2>2, FS_Subset
<1>3. Cardinality(R) \in Nat
  BY <1>2, FS_CardinalityType
<1>4. n + 1 \in T
  <2>1. \A k \in (n + 1)..(n + 1) : k = n + 1
    BY <1>1
  <2> QED BY <1>1, <2>1
<1>5. ASSUME s # <<>>, s[n] = x PROVE Cardinality(T) = Cardinality(R) + 1
  <2>1. n >= 1
    BY <1>1, <1>5
  <2>2. \A i \in 1..n : i \in T <=> i \in R
    <3> TAKE i \in 1..n
    <3>1. \A k \in i..(n + 1) : k \in i..n \/ k = n + 1
      BY <1>1
    <3>2. \A k \in i..n : k \in i..(n + 1) /\ k \in 1..n
      BY <1>1
    <3> QED BY <1>1, <1>5, <3>1, <3>2
  <2>3. T = R \cup {n + 1}
    <3>1. \A i \in 1..(n + 1) : i \in 1..n \/ i = n + 1
      BY <1>1
    <3> QED BY <1>1, <1>4, <2>2, <3>1
  <2>4. n + 1 \notin R
    BY <1>1
  <2> QED BY <1>2, <2>3, <2>4, FS_AddElement
<1>6. ASSUME s = <<>> \/ s[n] # x PROVE Cardinality(T) = 1
  <2>1. T = {n + 1}
    <3>1. ASSUME NEW i \in T, i # n + 1 PROVE FALSE
      <4>1. i \in 1..n /\ n \in i..(n + 1) /\ n \in 1..n
        BY <1>1, <3>1
      <4>2. t[n] = x /\ t[n] = s[n]
        BY <1>1, <3>1, <4>1
      <4>3. s # <<>>
        BY <4>1
      <4> QED BY <1>6, <4>2, <4>3
    <3> QED BY <1>4, <3>1
  <2> QED BY <2>1, FS_Singleton
<1> QED BY <1>1, <1>3, <1>5, <1>6 DEF Run

\* The breakers' counters are the run the turn's results end with; before the
\* first result they are clear, and during a turn they are below their limits.
StreakInv ==
  /\ results = <<>> => lastSig = {} /\ errors = 0 /\ successes = 0
  /\ results # <<>> =>
       LET last == results[Len(results)] IN
         /\ lastSig = {last[1]}
         /\ errors = (IF last[2] THEN Run(results) ELSE 0)
         /\ successes = (IF last[2] THEN 0 ELSE Run(results))
  /\ pc # "idle" => errors < ErrorLimit /\ successes < SuccessLimit

\* Every step preserves StreakInv.
LEMMA StreakStep == Types /\ StreakInv /\ [Next]_vars => StreakInv'
<1> SUFFICES ASSUME Types, StreakInv, [Next]_vars PROVE StreakInv'
  OBVIOUS
<1>1. CASE Prompt
  BY <1>1, ReactTurnAssumption DEF Prompt, StreakInv
<1>2. CASE \E err \in BOOLEAN : Returned(err)
  <2>1. PICK err \in BOOLEAN : Returned(err)
    BY <1>2
  <2> DEFINE x == <<batch[idx], err>>
  <2>2. x \in Sigs \X BOOLEAN
    BY <2>1 DEF Returned, Types
  <2>3. /\ results' = Append(results, x) /\ lastSig' = {batch[idx]}
        /\ errors' = ErrorStreak(err) /\ successes' = SuccessStreak(err)
    BY <2>1 DEF Returned, Result, Sig
  <2>4. results \in Seq(Sigs \X BOOLEAN)
    BY DEF Types
  <2>5. results' # <<>> /\ results'[Len(results')] = x
    BY <2>2, <2>3, <2>4
  <2> DEFINE Exact == /\ errors' = (IF err THEN Run(results') ELSE 0)
                      /\ successes' = (IF err THEN 0 ELSE Run(results'))
  <2>6. ASSUME results = <<>> PROVE Exact
    <3>1. ~Repeated
      BY <2>6 DEF StreakInv, Repeated
    <3>2. Run(results') = 1
      BY <2>2, <2>3, <2>4, <2>6, RunOfAppend
    <3>3. errors' = (IF err THEN 1 ELSE 0) /\ successes' = (IF err THEN 0 ELSE 1)
      BY <2>3, <3>1 DEF ErrorStreak, SuccessStreak
    <3> QED BY <3>2, <3>3
  <2>7. ASSUME results # <<>> PROVE Exact
    <3> DEFINE last == results[Len(results)]
    <3>1. last \in Sigs \X BOOLEAN
      BY <2>4, <2>7
    <3>2. PICK s \in Sigs, e \in BOOLEAN : last = <<s, e>>
      BY <3>1
    <3>3. /\ lastSig = {s} /\ errors = (IF e THEN Run(results) ELSE 0)
          /\ successes = (IF e THEN 0 ELSE Run(results))
      BY <2>7, <3>2 DEF StreakInv
    <3>4. Repeated <=> s = batch[idx]
      BY <3>3 DEF Repeated, Sig
    <3>5. Run(results) \in Nat
      BY <2>2, <2>4, <2>7, RunOfAppend
    <3>6. CASE s = batch[idx] /\ e = err
      <4>1. Run(results') = Run(results) + 1
        BY <2>2, <2>3, <2>4, <2>7, <3>2, <3>6, RunOfAppend
      <4> QED BY <2>3, <3>3, <3>4, <3>6, <4>1 DEF ErrorStreak, SuccessStreak
    <3>7. CASE ~(s = batch[idx] /\ e = err)
      <4>1. last # x
        BY <3>2, <3>7
      <4>2. Run(results') = 1
        BY <2>2, <2>3, <2>4, <4>1, RunOfAppend
      <4> QED BY <2>3, <3>3, <3>4, <3>5, <3>7, <4>2 DEF ErrorStreak, SuccessStreak
    <3> QED BY <3>6, <3>7
  <2>8. ASSUME pc' # "idle" PROVE errors' < ErrorLimit /\ successes' < SuccessLimit
    <3>1. ~Trips(err)
      BY <2>1, <2>8 DEF Returned, Result, Return
    <3>2. ~(errors' >= ErrorLimit) /\ ~(successes' >= SuccessLimit)
      BY <2>3, <3>1 DEF Trips
    <3>3. results' \in Seq(Sigs \X BOOLEAN)
      BY <2>2, <2>3, <2>4
    <3>4. Run(results') \in Nat
      BY <2>2, <2>5, <3>3, RunOfAppend
    <3>5. errors' \in Nat /\ successes' \in Nat
      BY <2>6, <2>7, <3>4
    <3> QED BY <3>2, <3>5, ReactTurnAssumption
  <2>9. x[1] = batch[idx] /\ x[2] = err
    OBVIOUS
  <2> QED BY <2>3, <2>5, <2>6, <2>7, <2>8, <2>9 DEF StreakInv
<1>3. CASE Quiet
  BY <1>3 DEF Quiet, streakVars, StreakInv, Run
<1> QED BY Steps, QuietSteps, <1>1, <1>2, <1>3

\* StreakInv holds in every behaviour.
LEMMA StreakInvHolds == Spec => []StreakInv
<1>1. Init => StreakInv
  BY DEF Init, StreakInv
<1> QED BY <1>1, TypesInv, StreakStep, PTL DEF Spec

\* The breakers count exactly the run of identical calls with the same verdict
\* the turn's results end with, and a turn goes on only below both limits.
THEOREM BreakersExact == Spec => []StreaksExact
<1>1. Types /\ StreakInv => StreaksExact
  <2> SUFFICES ASSUME Types, StreakInv, results # <<>>
               PROVE  LET last == results[Len(results)] IN
                        /\ lastSig = {last[1]}
                        /\ errors = (IF last[2] THEN RunLength ELSE 0)
                        /\ successes = (IF last[2] THEN 0 ELSE RunLength)
                        /\ pc # "idle" => errors < ErrorLimit
                                          /\ successes < SuccessLimit
    BY DEF StreaksExact
  <2>1. RunLength = Run(results)
    BY DEF RunLength, Run
  <2> QED BY <2>1 DEF StreakInv
<1> QED BY <1>1, TypesInv, StreakInvHolds, PTL

-----------------------------------------------------------------------------
(* The history.                                                            *)

\* The system message comes first, only the assistant calls, only tools answer, and
\* the prompts are in order.
Shaped(h) ==
  \A i \in DOMAIN h :
    /\ h[i].role = "system" => i = 1 /\ h[i] = System
    /\ h[i].calls # {} => h[i].role = "assistant"
    /\ h[i].role = "tool" <=> h[i].answers # <<>>
Ordered(h) ==
  \A i, j \in Users(h) : i < j => h[i].turn < h[j].turn

ToolsFrom(h, i, j) == \A k \in (i + 1)..j : h[k].role = "tool"

\* ResultsHaveCalls, of any sequence.
Paired(h) ==
  \A j \in DOMAIN h : h[j].role = "tool" =>
    /\ \E i \in 1..(j - 1) : h[j].answers \in h[i].calls /\ ToolsFrom(h, i, j)
    /\ \A k \in DOMAIN h \ {j} : h[k].answers # h[j].answers

\* The results that follow message i directly are those of its calls.
Whole(h, i) ==
  /\ \A c \in h[i].calls : \E j \in DOMAIN h : j > i /\ h[j].answers = c /\ ToolsFrom(h, i, j)
  /\ \A j \in DOMAIN h : j > i /\ ToolsFrom(h, i, j) => h[j].answers \in h[i].calls

Sound(h) == Shaped(h) /\ Ordered(h) /\ Paired(h)

\* Message b made the calls of round r; the first k of them are answered, in order,
\* and nothing else follows.
Open(h, b, r, calls, k) ==
  /\ b \in DOMAIN h /\ Len(h) = b + k
  /\ h[b] = Assistant(CallIds(r, calls))
  /\ \A j \in 1..k : h[b + j] = Tool(Call(r, j))

Running == pc \in {"call", "await"}
Base == Len(history) + 1 - idx

\* Every call made is answered, or its turn was cancelled.
Settled(h, stopped) ==
  \A i \in DOMAIN h : h[i].calls # {} => Whole(h, i) \/ h[i].turn \in stopped

\* No call still to be made has an answer.
Fresh ==
  \A t, r, k \in Nat :
    \/ t > turn
    \/ t = turn /\ pc # "idle" /\ (r > round \/ (r = round /\ Running /\ k >= idx))
    => \A j \in DOMAIN history : history[j].answers # <<t, r, k>>

\* Between batches every call is answered, or its turn was cancelled; while a batch
\* runs, the calls up to the current one are.
HistoryInv ==
  /\ Sound(history)
  /\ \A i \in Users(history) : history[i].turn <= turn
  /\ Fresh
  /\ Running => Open(history, Base, round, batch, idx - 1)
  /\ \A i \in DOMAIN history : history[i].calls # {} =>
       Whole(history, i) \/ history[i].turn \in aborted \/ (Running /\ i = Base)

-----------------------------------------------------------------------------
(* prune_history_atomic.                                                   *)

\* A set of numbers has a least element,
LEMMA MinOf ==
  ASSUME NEW S, S \subseteq Nat, S # {}
  PROVE  Min(S) \in S /\ \A x \in S : Min(S) <= x
<1> DEFINE R == OpToRel(<, Nat)
<1>1. IsWellFoundedOn(R, Nat)
  BY NatLessThanWellFounded
<1>2. PICK n \in S : \A k \in S : ~(<<k, n>> \in R)
  <2> HIDE DEF R
  <2> QED BY <1>1, WFMin
<1>3. \A k \in S : n <= k
  <2> TAKE k \in S
  <2>1. n \in Nat /\ k \in Nat
    OBVIOUS
  <2>2. ~(k < n)
    BY <1>2, <2>1 DEF OpToRel
  <2> QED BY <2>1, <2>2
<1> QED BY <1>3 DEF Min

\* and a greatest if it is bounded.
LEMMA MaxOf ==
  ASSUME NEW n \in Nat, NEW S, S \subseteq 1..n, S # {}
  PROVE  Max(S) \in S /\ \A x \in S : Max(S) >= x
<1> DEFINE T == {n - x : x \in S}
<1>0. \A x \in S : x \in Int /\ x <= n
  <2> TAKE x \in S
  <2>1. x \in 1..n
    OBVIOUS
  <2> QED BY <2>1
<1>1. T \subseteq Nat /\ T # {}
  <2>1. \A x \in S : n - x \in Nat
    BY <1>0
  <2>2. PICK x : x \in S
    OBVIOUS
  <2> QED BY <2>1, <2>2
<1>2. PICK m \in T : \A y \in T : m <= y
  <2> HIDE DEF T
  <2> QED BY <1>1, MinOf
<1>3. PICK x \in S : m = n - x
  BY <1>2
<1>4. \A y \in S : x >= y
  <2> TAKE y \in S
  <2>1. m <= n - y
    BY <1>2
  <2> QED BY <1>0, <1>3, <2>1
<1> QED BY <1>4 DEF Max

\* What is left when the messages from a to c - 1 go: c is a prompt, not past the
\* last one, and only the system message is before a.
CutAt(h, g, a, c) ==
  /\ a \in 1..Len(h) /\ c \in 1..Len(h) /\ a < c
  /\ h[c].role = "user" /\ h[a].role # "system"
  /\ \A u \in Users(h) : (\A v \in Users(h) : v <= u) => c <= u
  /\ \A i \in 1..(a - 1) : h[i].role = "system"
  /\ Len(g) = Len(h) - (c - a) /\ DOMAIN g = 1..Len(g)
  /\ \A i \in 1..(a - 1) : g[i] = h[i]
  /\ \A i \in a..Len(g) : g[i] = h[i + (c - a)]

\* Pruning takes nothing or that.
LEMMA PruneCuts ==
  ASSUME NEW M, NEW h \in Seq(M)
  PROVE  /\ Pruned(h) \in Seq(M)
         /\ Pruned(h) = h \/ \E a, c \in 1..Len(h) : CutAt(h, Pruned(h), a, c)
<1> DEFINE n == Len(h)
           a == PruneStart(h)
           c == Cut(h)
           g == Pruned(h)
<1>1. n \in Nat /\ DOMAIN h = 1..n
  OBVIOUS
<1>2. CASE Len(h) <= PruneAt \/ Users(h) = {}
  BY <1>2 DEF Pruned
<1>3. CASE ~(Len(h) <= PruneAt \/ Users(h) = {})
  <2>1. g = SubSeq(h, 1, a - 1) \o SubSeq(h, c, n)
    BY <1>3 DEF Pruned
  <2> DEFINE NonSystem == {i \in DOMAIN h : h[i].role # "system"}
  <2>2. Users(h) \subseteq NonSystem /\ NonSystem \subseteq 1..n
    BY <1>1 DEF Users
  <2>3. a \in NonSystem /\ \A i \in NonSystem : a <= i
    <3>1. NonSystem # {} /\ NonSystem \subseteq Nat
      BY <1>1, <1>3, <2>2
    <3> HIDE DEF NonSystem
    <3>2. a = Min(NonSystem)
      BY DEF PruneStart, NonSystem
    <3> QED BY <3>1, <3>2, MinOf
  <2>4. \A i \in 1..(a - 1) : h[i].role = "system"
    BY <1>1, <2>3
  <2>5. a \in Cuts(h) /\ Cuts(h) \subseteq 1..n /\ \A x \in Cuts(h) : x = a \/ (x \in Users(h) /\ x > a)
    BY <2>2, <2>3 DEF Cuts
  <2>6. c \in Cuts(h)
    <3> DEFINE enough == {x \in Cuts(h) : Len(h) - (x - PruneStart(h)) <= PruneAt}
    <3>1. Max(Cuts(h)) \in Cuts(h)
      BY <1>1, <2>5, MaxOf
    <3>2. enough # {} => Min(enough) \in Cuts(h)
      <4>1. enough \subseteq Cuts(h) /\ enough \subseteq Nat
        BY <1>1, <2>5
      <4> HIDE DEF enough
      <4> QED BY <4>1, MinOf
    <3>3. c = IF enough = {} THEN Max(Cuts(h)) ELSE Min(enough)
      BY DEF Cut
    <3> HIDE DEF enough
    <3> QED BY <3>1, <3>2, <3>3
  <2>7. a \in 1..n /\ c \in 1..n /\ a <= c
    BY <2>2, <2>3, <2>5, <2>6
  <2> HIDE DEF a, c, g
  <2>8. /\ SubSeq(h, 1, a - 1) \in Seq(M) /\ Len(SubSeq(h, 1, a - 1)) = a - 1
        /\ \A i \in 1..(a - 1) : SubSeq(h, 1, a - 1)[i] = h[i]
    BY <1>1, <2>7
  <2>9. /\ SubSeq(h, c, n) \in Seq(M) /\ Len(SubSeq(h, c, n)) = n - c + 1
        /\ \A i \in 1..(n - c + 1) : SubSeq(h, c, n)[i] = h[i + c - 1]
    BY <1>1, <2>7
  <2>10. /\ g \in Seq(M) /\ Len(g) = n - (c - a) /\ DOMAIN g = 1..Len(g)
         /\ \A i \in 1..(a - 1) : g[i] = h[i]
         /\ \A i \in a..Len(g) : g[i] = h[i + (c - a)]
    <3> DEFINE p == SubSeq(h, 1, a - 1)
               q == SubSeq(h, c, n)
    <3> HIDE DEF p, q
    <3>1. p \in Seq(M) /\ q \in Seq(M) /\ g = p \o q /\ Len(p) = a - 1 /\ Len(q) = n - c + 1
      BY <2>1, <2>8, <2>9 DEF p, q
    <3>2. g \in Seq(M) /\ Len(g) = n - (c - a)
      <4>1. g \in Seq(M) /\ Len(g) = Len(p) + Len(q)
        BY <3>1, ConcatProperties
      <4> QED BY <1>1, <2>7, <3>1, <4>1
    <3>3. \A i \in 1..Len(g) : g[i] = IF i <= a - 1 THEN p[i] ELSE q[i - (a - 1)]
      <4>1. /\ Len(g) = Len(p) + Len(q)
            /\ \A i \in 1..(Len(p) + Len(q)) : g[i] = IF i <= Len(p) THEN p[i] ELSE q[i - Len(p)]
        BY <3>1, ConcatProperties
      <4> QED BY <3>1, <4>1
    <3>4. \A i \in 1..(a - 1) : g[i] = h[i]
      BY <1>1, <2>7, <2>8, <3>2, <3>3 DEF p
    <3>5. \A i \in a..Len(g) : g[i] = h[i + (c - a)]
      <4> TAKE i \in a..Len(g)
      <4>1. g[i] = q[i - (a - 1)] /\ i - (a - 1) \in 1..(n - c + 1)
        BY <1>1, <2>7, <3>2, <3>3
      <4>2. q[i - (a - 1)] = h[(i - (a - 1)) + c - 1]
        BY <2>9, <4>1 DEF q
      <4>3. (i - (a - 1)) + c - 1 = i + (c - a)
        BY <1>1, <2>7
      <4> QED BY <4>1, <4>2, <4>3
    <3> QED BY <3>2, <3>4, <3>5
  <2>11. CASE c = a
    <3>1. g = h
      BY <1>1, <2>7, <2>10, <2>11
    <3> QED BY <2>10, <3>1 DEF g
  <2>12. CASE c # a
    <3>1. h[c].role = "user" /\ c > a
      BY <2>5, <2>6, <2>12 DEF a, c, Users
    <3>2. \A u \in Users(h) : (\A v \in Users(h) : v <= u) => c <= u
      BY <2>5, <2>6, <2>12 DEF a, c
    <3>3. CutAt(h, g, a, c)
      BY <2>3, <2>4, <2>7, <2>10, <3>1, <3>2 DEF CutAt
    <3> QED BY <2>7, <2>10, <3>3 DEF g
  <2> QED BY <2>11, <2>12
<1> QED BY <1>2, <1>3

\* Pruning shifts a result and its call by as much, and so the results between them.
LEMMA CutShifts ==
  ASSUME NEW M, NEW h \in Seq(M), NEW g, NEW a, NEW c, CutAt(h, g, a, c),
         NEW i \in a..Len(g), NEW j \in Nat, j <= Len(g)
  PROVE  ToolsFrom(g, i, j) <=> ToolsFrom(h, i + (c - a), j + (c - a))
<1> DEFINE d == c - a
<1>1. a \in Nat /\ a >= 1 /\ d \in Nat /\ Len(g) \in Int /\ i \in Int
  BY DEF CutAt
<1>2. \A k \in (i + 1)..j : g[k] = h[k + d] /\ k + d \in (i + d + 1)..(j + d)
  BY <1>1 DEF CutAt
<1>3. \A k \in (i + d + 1)..(j + d) : k - d \in (i + 1)..j /\ (k - d) + d = k
  BY <1>1
<1>4. ASSUME ToolsFrom(h, i + d, j + d) PROVE ToolsFrom(g, i, j)
  BY <1>2, <1>4 DEF ToolsFrom
<1>5. ASSUME ToolsFrom(g, i, j) PROVE ToolsFrom(h, i + d, j + d)
  <2> SUFFICES ASSUME NEW k \in (i + d + 1)..(j + d) PROVE h[k].role = "tool"
    BY DEF ToolsFrom
  <2> DEFINE l == k - d
  <2>1. l \in (i + 1)..j /\ l + d = k
    BY <1>3
  <2> HIDE DEF l, d
  <2>2. g[l].role = "tool" /\ g[l] = h[l + d]
    BY <1>2, <1>5, <2>1 DEF ToolsFrom
  <2> QED BY <2>1, <2>2
<1> QED BY <1>4, <1>5

\* Each message that is left was there; a result never loses its call, for the walk
\* stops at a prompt, and calls with all their results keep them.
LEMMA CutSound ==
  ASSUME NEW M, NEW h \in Seq(M), NEW g, NEW a, NEW c, CutAt(h, g, a, c), Sound(h)
  PROVE  /\ Sound(g)
         /\ \A i \in DOMAIN g : \E k \in DOMAIN h :
              g[i] = h[k] /\ (g[i].calls # {} /\ Whole(h, k) => Whole(g, i))
<1> DEFINE d == c - a
           n == Len(h)
           Old(i) == IF i < a THEN i ELSE i + d
<1>1. /\ a \in Nat /\ a >= 1 /\ c \in Nat /\ c > a /\ c <= n /\ d \in Nat /\ d >= 1
      /\ n \in Nat /\ Len(g) = n - d /\ DOMAIN g = 1..Len(g) /\ DOMAIN h = 1..n
      /\ h[c].role = "user" /\ a + d = c
      /\ \A i \in 1..(a - 1) : h[i].role = "system"
  BY DEF CutAt
<1>2. \A i \in DOMAIN g : Old(i) \in DOMAIN h /\ g[i] = h[Old(i)] /\ Old(i) \in Int /\ i \in Int
  <2> TAKE i \in DOMAIN g
  <2>1. CASE i < a
    <3>1. i \in 1..(a - 1)
      BY <1>1, <2>1
    <3>2. g[i] = h[i]
      BY <3>1 DEF CutAt
    <3> QED BY <1>1, <2>1, <3>2
  <2>2. CASE ~(i < a)
    <3>1. i \in a..Len(g)
      BY <1>1, <2>2
    <3>2. g[i] = h[i + (c - a)]
      BY <3>1 DEF CutAt
    <3> QED BY <1>1, <2>2, <3>2
  <2> QED BY <2>1, <2>2
<1>3. \A i, j \in DOMAIN g : i < j => Old(i) < Old(j)
  BY <1>1
<1>4. \A i \in DOMAIN g : g[i].role # "system" => i \in a..Len(g) /\ Old(i) = i + d
  <2> TAKE i \in DOMAIN g
  <2>1. CASE i < a
    <3>1. i \in 1..(a - 1) /\ Old(i) = i
      BY <1>1, <2>1
    <3> QED BY <1>1, <1>2, <3>1
  <2>2. CASE ~(i < a)
    BY <1>1, <2>2
  <2> QED BY <2>1, <2>2
<1>5. \A i \in a..Len(g) : i \in DOMAIN g /\ i + d \in DOMAIN h /\ g[i] = h[i + d] /\ i + d >= c
  BY <1>1 DEF CutAt
<1>6. Shaped(g)
  <2> SUFFICES ASSUME NEW i \in DOMAIN g
               PROVE  /\ g[i].role = "system" => i = 1 /\ g[i] = System
                      /\ g[i].calls # {} => g[i].role = "assistant"
                      /\ g[i].role = "tool" <=> g[i].answers # <<>>
    BY DEF Shaped
  <2>1. Old(i) = 1 => i = 1
    BY <1>1
  <2> QED BY <1>2, <2>1 DEF Sound, Shaped
<1>7. Ordered(g)
  <2> SUFFICES ASSUME NEW i \in Users(g), NEW j \in Users(g), i < j
               PROVE  g[i].turn < g[j].turn
    BY DEF Ordered
  <2> HIDE DEF Old
  <2>1. Old(i) \in Users(h) /\ Old(j) \in Users(h) /\ Old(i) < Old(j)
    BY <1>2, <1>3 DEF Users
  <2> QED BY <1>2, <2>1 DEF Sound, Ordered, Users
<1>8. Paired(g)
  <2> SUFFICES ASSUME NEW j \in DOMAIN g, g[j].role = "tool"
               PROVE  /\ \E i \in 1..(j - 1) : g[j].answers \in g[i].calls /\ ToolsFrom(g, i, j)
                      /\ \A k \in DOMAIN g \ {j} : g[k].answers # g[j].answers
    BY DEF Paired
  <2>1. j \in a..Len(g) /\ Old(j) = j + d
    BY <1>4
  <2> DEFINE y == j + d
  <2>2. /\ y \in DOMAIN h /\ g[j] = h[y] /\ y >= c /\ j \in Nat
        /\ y = j + d /\ y \in Nat
    BY <1>1, <1>5, <2>1
  <2> HIDE DEF y
  <2>3. PICK x \in 1..(y - 1) : h[y].answers \in h[x].calls /\ ToolsFrom(h, x, y)
    BY <2>2 DEF Sound, Paired
  <2>4. x >= c
    <3>1. c \notin (x + 1)..y
      BY <1>1, <2>3 DEF ToolsFrom
    <3> QED BY <1>1, <2>2, <2>3, <3>1
  <2> DEFINE i == x - d
  <2>5. i \in a..Len(g) /\ i \in 1..(j - 1) /\ i + d = x
    BY <1>1, <2>1, <2>2, <2>3, <2>4
  <2> HIDE DEF i
  <2>6. g[i] = h[x]
    BY <1>5, <2>5
  <2>7. ToolsFrom(g, i, j)
    <3>1. j <= Len(g)
      BY <1>1, <2>1
    <3> QED BY <2>2, <2>3, <2>5, <3>1, CutShifts
  <2>8. ASSUME NEW k \in DOMAIN g \ {j} PROVE g[k].answers # g[j].answers
    <3>1. Old(k) # y /\ Old(k) \in DOMAIN h /\ g[k] = h[Old(k)]
      <4>1. k < j \/ j < k
        BY <1>1, <2>2
      <4>2. Old(k) # Old(j)
        BY <1>2, <1>3, <4>1
      <4> QED BY <1>2, <2>1, <2>2, <4>2
    <3> HIDE DEF Old, d
    <3> QED BY <2>2, <3>1 DEF Sound, Paired
  <2> QED BY <2>2, <2>3, <2>5, <2>6, <2>7, <2>8
<1>9. ASSUME NEW i \in DOMAIN g, g[i].calls # {}, Whole(h, Old(i)) PROVE Whole(g, i)
  <2>1. g[i].role # "system"
    BY <1>6, <1>9 DEF Shaped
  <2>2. i \in a..Len(g) /\ Old(i) = i + d /\ i \in Nat
    BY <1>1, <1>4, <2>1
  <2>3. g[i] = h[i + d] /\ Whole(h, i + d)
    BY <1>5, <1>9, <2>2
  <2>4. ASSUME NEW e \in g[i].calls
        PROVE  \E j \in DOMAIN g : j > i /\ g[j].answers = e /\ ToolsFrom(g, i, j)
    <3>1. PICK x \in DOMAIN h : x > i + d /\ h[x].answers = e /\ ToolsFrom(h, i + d, x)
      BY <2>3, <2>4 DEF Whole
    <3> DEFINE j == x - d
    <3>2. j \in a..Len(g) /\ j > i /\ j + d = x /\ j \in Nat /\ j <= Len(g)
      BY <1>1, <2>2, <3>1
    <3> HIDE DEF j
    <3>3. g[j] = h[x] /\ j \in DOMAIN g
      BY <1>5, <3>2
    <3>4. ToolsFrom(g, i, j)
      BY <2>2, <3>1, <3>2, CutShifts
    <3> QED BY <3>1, <3>2, <3>3, <3>4
  <2>5. ASSUME NEW j \in DOMAIN g, j > i, ToolsFrom(g, i, j)
        PROVE  g[j].answers \in g[i].calls
    <3>1. j \in a..Len(g) /\ j \in Nat /\ j <= Len(g)
      BY <1>1, <2>2, <2>5
    <3>2. j + d \in DOMAIN h /\ g[j] = h[j + d] /\ j + d > i + d
      BY <1>1, <1>5, <2>2, <2>5, <3>1
    <3>3. ToolsFrom(h, i + d, j + d)
      BY <2>2, <2>5, <3>1, CutShifts
    <3> QED BY <2>3, <3>2, <3>3 DEF Whole
  <2> QED BY <2>4, <2>5 DEF Whole
<1> QED BY <1>2, <1>6, <1>7, <1>8, <1>9 DEF Sound

-----------------------------------------------------------------------------
(* Messages at the end of the history.                                     *)

\* A message that is no result leaves what is before it as it was.
LEMMA AppendSound ==
  ASSUME NEW M, NEW h \in Seq(M), NEW m \in M, Sound(h),
         m.role \in {"user", "assistant"}, m.answers = <<>>,
         m.calls # {} => m.role = "assistant",
         m.role = "user" => \A u \in Users(h) : h[u].turn < m.turn
  PROVE  LET g == Append(h, m) IN
           /\ Sound(g)
           /\ \A i \in DOMAIN h : Whole(h, i) => Whole(g, i)
<1> DEFINE g == Append(h, m)
           n == Len(h)
<1>1. /\ n \in Nat /\ DOMAIN h = 1..n /\ DOMAIN g = 1..(n + 1)
      /\ \A i \in 1..n : g[i] = h[i]
      /\ g[n + 1] = m
  BY AppendProperties
<1> HIDE DEF g, n
<1>2. \A i \in 1..(n + 1) : i \in 1..n \/ i = n + 1
  BY <1>1
<1>3. \A i \in 1..n : \A j \in 1..n : ToolsFrom(g, i, j) <=> ToolsFrom(h, i, j)
  BY <1>1 DEF ToolsFrom
<1>4. \A i \in 1..n : ~ToolsFrom(g, i, n + 1)
  <2> SUFFICES ASSUME NEW i \in 1..n PROVE ~ToolsFrom(g, i, n + 1)
    OBVIOUS
  <2>1. n + 1 \in (i + 1)..(n + 1)
    BY <1>1
  <2>2. m.role # "tool"
    OBVIOUS
  <2> QED BY <1>1, <2>1, <2>2 DEF ToolsFrom
<1>5. Shaped(g)
  BY <1>1, <1>2 DEF Sound, Shaped
<1>6. Ordered(g)
  <2> SUFFICES ASSUME NEW i \in Users(g), NEW j \in Users(g), i < j
               PROVE  g[i].turn < g[j].turn
    BY DEF Ordered
  <2>1. i \in 1..(n + 1) /\ j \in 1..(n + 1)
    BY <1>1 DEF Users
  <2>2. i \in 1..n
    BY <1>1, <2>1
  <2>3. i \in Users(h)
    BY <1>1, <2>2 DEF Users
  <2>4. CASE j \in 1..n
    BY <1>1, <2>2, <2>3, <2>4 DEF Users, Sound, Ordered
  <2>5. CASE j = n + 1
    BY <1>1, <2>2, <2>3, <2>5 DEF Users
  <2> QED BY <1>2, <2>1, <2>4, <2>5
<1>7. Paired(g)
  <2> SUFFICES ASSUME NEW j \in DOMAIN g, g[j].role = "tool"
               PROVE  /\ \E i \in 1..(j - 1) : g[j].answers \in g[i].calls /\ ToolsFrom(g, i, j)
                      /\ \A k \in DOMAIN g \ {j} : g[k].answers # g[j].answers
    BY DEF Paired
  <2>1. j \in 1..n
    BY <1>1, <1>2
  <2>2. PICK i \in 1..(j - 1) : h[j].answers \in h[i].calls /\ ToolsFrom(h, i, j)
    BY <1>1, <2>1 DEF Sound, Paired
  <2>3. i \in 1..n
    BY <1>1, <2>1, <2>2
  <2>4. g[j].answers # <<>>
    BY <1>5 DEF Shaped
  <2>5. \A k \in 1..n \ {j} : g[k].answers # g[j].answers
    BY <1>1, <2>1 DEF Sound, Paired
  <2> QED BY <1>1, <1>2, <1>3, <2>1, <2>2, <2>3, <2>4, <2>5
<1>8. ASSUME NEW i \in DOMAIN h, Whole(h, i) PROVE Whole(g, i)
  <2>1. g[i] = h[i] /\ i \in 1..n
    BY <1>1
  <2>2. ASSUME NEW e \in g[i].calls
        PROVE  \E j \in DOMAIN g : j > i /\ g[j].answers = e /\ ToolsFrom(g, i, j)
    <3>1. PICK j \in DOMAIN h : j > i /\ h[j].answers = e /\ ToolsFrom(h, i, j)
      BY <1>8, <2>1, <2>2 DEF Whole
    <3> QED BY <1>1, <1>3, <2>1, <3>1
  <2>3. ASSUME NEW j \in DOMAIN g, j > i, ToolsFrom(g, i, j)
        PROVE  g[j].answers \in g[i].calls
    <3>1. j \in 1..n
      BY <1>1, <1>2, <1>4, <2>1, <2>3
    <3> QED BY <1>1, <1>3, <1>8, <2>1, <2>3, <3>1 DEF Whole
  <2> QED BY <2>2, <2>3 DEF Whole
<1> QED BY <1>5, <1>6, <1>7, <1>8 DEF Sound, g

\* The history g is h with the next m results of its open batch.
Continues(h, g, b, r, calls, k, m) ==
  /\ h \in Seq(Message) /\ g \in Seq(Message)
  /\ calls \in Seq(Sigs) /\ k \in Nat /\ m \in Nat /\ k + m <= Len(calls)
  /\ Open(h, b, r, calls, k)
  /\ Len(g) = Len(h) + m
  /\ \A i \in 1..Len(h) : g[i] = h[i]
  /\ \A j \in 1..m : g[Len(h) + j] = Tool(Call(r, k + j))
  /\ \A j \in 1..m : \A i \in DOMAIN h : h[i].answers # Call(r, k + j)

\* They leave what is before it as it was, and the batch is answered when they are
\* its last.
LEMMA ResultsSound ==
  ASSUME NEW h, NEW g, NEW b, NEW r, NEW calls, NEW k, NEW m,
         Sound(h), Continues(h, g, b, r, calls, k, m)
  PROVE  /\ Sound(g)
         /\ Open(g, b, r, calls, k + m)
         /\ \A i \in DOMAIN h \ {b} : h[i].calls # {} /\ Whole(h, i) => Whole(g, i)
         /\ k + m = Len(calls) => Whole(g, b)
<1> DEFINE n == Len(h)
<1> USE DEF Continues
<1>1. /\ n \in Nat /\ DOMAIN h = 1..n /\ DOMAIN g = 1..(n + m)
      /\ b \in 1..n /\ n = b + k /\ k \in Nat /\ m \in Nat
  BY DEF Open
<1>2. /\ h[b].role = "assistant" /\ h[b].calls = CallIds(r, calls) /\ h[b].answers = <<>>
      /\ \A j \in 1..k : h[b + j] = Tool(Call(r, j))
  BY DEF Open, Assistant
<1>3. \A x : Tool(x).role = "tool" /\ Tool(x).calls = {} /\ Tool(x).answers = x
  BY DEF Tool
<1>4. \A x, y : Call(r, x) # <<>> /\ (Call(r, x) = Call(r, y) => x = y)
  BY DEF Call
<1>5. \A j \in 1..(k + m) : g[b + j] = Tool(Call(r, j))
  <2> TAKE j \in 1..(k + m)
  <2>1. CASE j \in 1..k
    BY <1>1, <1>2, <2>1
  <2>2. CASE j \notin 1..k
    <3>1. j - k \in 1..m /\ n + (j - k) = b + j /\ k + (j - k) = j
      BY <1>1, <2>2
    <3> DEFINE l == j - k
    <3>2. l \in 1..m /\ n + l = b + j /\ k + l = j
      BY <3>1
    <3> HIDE DEF l
    <3> QED BY <3>2
  <2> QED BY <2>1, <2>2
<1>6. \A j \in 1..(n + m) : j > b => j - b \in 1..(k + m) /\ b + (j - b) = j
  BY <1>1
<1>7. \A j \in 1..(n + m) : j > b =>
        /\ g[j].role = "tool" /\ g[j].calls = {} /\ g[j].answers = Call(r, j - b)
        /\ g[j].answers \in CallIds(r, calls)
  <2> SUFFICES ASSUME NEW j \in 1..(n + m), j > b
               PROVE  /\ g[j].role = "tool" /\ g[j].calls = {} /\ g[j].answers = Call(r, j - b)
                      /\ g[j].answers \in CallIds(r, calls)
    OBVIOUS
  <2> DEFINE l == j - b
  <2>1. l \in 1..(k + m) /\ b + l = j
    BY <1>6
  <2>2. l \in DOMAIN calls
    BY <2>1
  <2> HIDE DEF l
  <2>3. g[j] = Tool(Call(r, l))
    BY <1>5, <2>1
  <2>4. Call(r, l) \in CallIds(r, calls)
    BY <2>2 DEF CallIds
  <2> QED BY <1>3, <2>3, <2>4 DEF l
<1> HIDE DEF n
<1>8. \A i, j \in 1..n : ToolsFrom(g, i, j) <=> ToolsFrom(h, i, j)
  BY <1>1 DEF ToolsFrom, n
<1>9. \A i \in 1..n : g[i] = h[i]
  BY DEF n
<1>10. \A j \in 1..(n + m) : j \in 1..n \/ (j > n /\ j > b)
  BY <1>1
<1>11. Shaped(g)
  <2> SUFFICES ASSUME NEW i \in DOMAIN g
               PROVE  /\ g[i].role = "system" => i = 1 /\ g[i] = System
                      /\ g[i].calls # {} => g[i].role = "assistant"
                      /\ g[i].role = "tool" <=> g[i].answers # <<>>
    BY DEF Shaped
  <2>1. CASE i \in 1..n
    BY <1>1, <1>9, <2>1 DEF Sound, Shaped
  <2>2. CASE i > b
    BY <1>1, <1>4, <1>7, <2>2
  <2> QED BY <1>1, <1>10, <2>1, <2>2
<1>12. Ordered(g)
  <2> SUFFICES ASSUME NEW i \in Users(g), NEW j \in Users(g), i < j
               PROVE  g[i].turn < g[j].turn
    BY DEF Ordered
  <2>1. i \in 1..n /\ j \in 1..n
    BY <1>1, <1>7, <1>10 DEF Users
  <2> QED BY <1>1, <1>9, <2>1 DEF Users, Sound, Ordered
<1>13. \A j \in 1..(n + m) : j > b => ToolsFrom(g, b, j)
  <2> SUFFICES ASSUME NEW j \in 1..(n + m), j > b, NEW l \in (b + 1)..j
               PROVE  g[l].role = "tool"
    BY DEF ToolsFrom
  <2>1. l \in 1..(n + m) /\ l > b
    BY <1>1
  <2> QED BY <1>7, <2>1
<1>14. Paired(g)
  <2> SUFFICES ASSUME NEW j \in DOMAIN g, g[j].role = "tool"
               PROVE  /\ \E i \in 1..(j - 1) : g[j].answers \in g[i].calls /\ ToolsFrom(g, i, j)
                      /\ \A l \in DOMAIN g \ {j} : g[l].answers # g[j].answers
    BY DEF Paired
  <2>1. CASE j \in 1..n
    <3>1. PICK i \in 1..(j - 1) : h[j].answers \in h[i].calls /\ ToolsFrom(h, i, j)
      BY <1>1, <1>9, <2>1 DEF Sound, Paired
    <3>2. i \in 1..n
      BY <1>1, <2>1, <3>1
    <3>3. ASSUME NEW l \in DOMAIN g \ {j} PROVE g[l].answers # g[j].answers
      <4>1. CASE l \in 1..n
        BY <1>1, <1>9, <2>1, <4>1 DEF Sound, Paired
      <4>2. CASE l > n
        <5> DEFINE x == l - n
        <5>1. x \in 1..m /\ l = n + x
          <6>1. l \in 1..(n + m) /\ n \in Nat /\ m \in Nat
            BY <1>1
          <6> QED BY <4>2, <6>1
        <5> HIDE DEF x
        <5>2. g[l] = Tool(Call(r, k + x))
          BY <5>1 DEF n
        <5>3. h[j].answers # Call(r, k + x)
          BY <1>1, <2>1, <5>1
        <5> QED BY <1>3, <1>9, <2>1, <5>2, <5>3
      <4> QED BY <1>1, <1>10, <4>1, <4>2
    <3> QED BY <1>8, <1>9, <2>1, <3>1, <3>2, <3>3
  <2>2. CASE j > n
    <3>1. j > b /\ b \in 1..(j - 1)
      BY <1>1, <2>2
    <3>2. g[j].answers \in g[b].calls
      BY <1>1, <1>2, <1>7, <1>9, <3>1
    <3> DEFINE y == j - n
    <3>3. y \in 1..m /\ j = n + y
      <4>1. j \in 1..(n + m) /\ n \in Nat
        BY <1>1
      <4> QED BY <2>2, <4>1
    <3> HIDE DEF y
    <3>4. g[j].answers = Call(r, k + y)
      BY <1>3, <3>3 DEF n
    <3>5. ASSUME NEW l \in DOMAIN g \ {j} PROVE g[l].answers # g[j].answers
      <4>1. CASE l \in 1..n
        BY <1>1, <1>9, <3>3, <3>4, <4>1
      <4>2. CASE l > b
        <5>1. g[l].answers = Call(r, l - b) /\ g[j].answers = Call(r, j - b)
          BY <1>1, <1>7, <3>1, <4>2
        <5>2. l - b # j - b
          BY <1>1
        <5> QED BY <1>4, <5>1, <5>2
      <4> QED BY <1>1, <1>10, <4>1, <4>2
    <3> QED BY <1>1, <1>13, <3>1, <3>2, <3>5
  <2> QED BY <1>1, <1>10, <2>1, <2>2
<1>15. Open(g, b, r, calls, k + m)
  <2>1. g[b] = Assistant(CallIds(r, calls))
    BY <1>1, <1>9 DEF Open
  <2>2. b \in DOMAIN g /\ Len(g) = b + (k + m)
    BY <1>1 DEF n
  <2> QED BY <1>5, <2>1, <2>2 DEF Open
<1>16. ASSUME NEW i \in DOMAIN h \ {b}, h[i].calls # {}, Whole(h, i) PROVE Whole(g, i)
  <2>1. i \in 1..n /\ i < b /\ g[i] = h[i]
    BY <1>1, <1>7, <1>9, <1>16
  <2>2. ASSUME NEW e \in g[i].calls
        PROVE  \E j \in DOMAIN g : j > i /\ g[j].answers = e /\ ToolsFrom(g, i, j)
    <3>1. PICK j \in DOMAIN h : j > i /\ h[j].answers = e /\ ToolsFrom(h, i, j)
      BY <1>16, <2>1, <2>2 DEF Whole
    <3> QED BY <1>1, <1>8, <1>9, <2>1, <3>1
  <2>3. ASSUME NEW j \in DOMAIN g, j > i, ToolsFrom(g, i, j)
        PROVE  g[j].answers \in g[i].calls
    <3>1. j < b
      <4>1. b \notin (i + 1)..j
        BY <1>1, <1>2, <1>9, <2>3 DEF ToolsFrom
      <4> QED BY <1>1, <2>1, <4>1
    <3>2. j \in 1..n
      BY <1>1, <3>1
    <3> QED BY <1>1, <1>8, <1>9, <1>16, <2>1, <2>3, <3>2 DEF Whole
  <2> QED BY <2>2, <2>3 DEF Whole
<1>17. ASSUME k + m = Len(calls) PROVE Whole(g, b)
  <2>1. g[b].calls = CallIds(r, calls)
    BY <1>1, <1>2, <1>9
  <2>2. ASSUME NEW e \in g[b].calls
        PROVE  \E j \in DOMAIN g : j > b /\ g[j].answers = e /\ ToolsFrom(g, b, j)
    <3>1. PICK l \in DOMAIN calls : e = Call(r, l)
      BY <2>1, <2>2 DEF CallIds
    <3>2. l \in 1..(k + m) /\ b + l \in 1..(n + m) /\ b + l > b
      BY <1>1, <1>17, <3>1
    <3>3. g[b + l].answers = e
      BY <1>3, <1>5, <3>1, <3>2
    <3> QED BY <1>1, <1>13, <3>2, <3>3
  <2>3. ASSUME NEW j \in DOMAIN g, j > b PROVE g[j].answers \in g[b].calls
    BY <1>1, <1>7, <2>1, <2>3
  <2> QED BY <2>2, <2>3 DEF Whole
<1> QED BY <1>11, <1>12, <1>14, <1>15, <1>16, <1>17 DEF Sound

-----------------------------------------------------------------------------
(* Type correctness.                                                       *)

\* A turn under way has a number, and a batch a round.
Started == (pc # "idle" => turn > 0) /\ (Running => round > 0)

\* Calls and messages are what TypeOK says.
LEMMA CallTypes ==
  ASSUME turn \in 1..MaxTurns, NEW r \in 1..MaxToolRounds
  PROVE  /\ \A k \in 1..MaxBatch : Call(r, k) \in CallId /\ Tool(Call(r, k)) \in Message
         /\ \A calls \in Batches : CallIds(r, calls) \subseteq CallId
<1>1. ASSUME NEW k \in 1..MaxBatch
      PROVE  Call(r, k) \in CallId /\ Tool(Call(r, k)) \in Message
  <2>1. Call(r, k) \in CallId
    BY DEF Call, CallId
  <2>2. \A x \in CallId : Tool(x) \in Message
    BY ReactTurnAssumption DEF Tool, Message
  <2> QED BY <2>1, <2>2
<1>2. ASSUME NEW calls \in Batches PROVE CallIds(r, calls) \subseteq CallId
  <2>1. PICK n \in 1..MaxBatch : calls \in [1..n -> Sigs]
    BY DEF Batches
  <2>2. \A k \in DOMAIN calls : k \in 1..MaxBatch
    BY <2>1, ReactTurnAssumption
  <2> QED BY <1>1, <2>2 DEF CallIds
<1> QED BY <1>1, <1>2

\* A message of the assistant with such calls is a message.
LEMMA AssistantTypes ==
  ASSUME turn \in 0..MaxTurns, NEW calls, calls \subseteq CallId
  PROVE  Assistant(calls) \in Message
BY DEF Assistant, Message

\* The stubs are results of the calls from the k-th on, in order.
LEMMA StubTypes ==
  ASSUME turn \in 1..MaxTurns, NEW r \in 1..MaxToolRounds, NEW calls \in Batches,
         NEW k \in 1..(Len(calls) + 1)
  PROVE  /\ Stubs(r, calls, k) \in Seq(Message)
         /\ Len(Stubs(r, calls, k)) = Len(calls) - k + 1
         /\ \A i \in 1..(Len(calls) - k + 1) : Stubs(r, calls, k)[i] = Tool(Call(r, k + i - 1))
<1> DEFINE n == Len(calls) - k + 1
<1>1. Len(calls) \in 1..MaxBatch
  <2>1. PICK m \in 1..MaxBatch : calls \in [1..m -> Sigs]
    BY DEF Batches
  <2>2. m \in Nat
    BY ReactTurnAssumption
  <2> QED BY <2>1, <2>2, BatchSeq
<1>2. n \in Nat
  BY <1>1
<1>3. \A i \in 1..n : Tool(Call(r, k + i - 1)) \in Message
  <2> TAKE i \in 1..n
  <2>1. k + i - 1 \in 1..MaxBatch
    BY <1>1, ReactTurnAssumption
  <2> QED BY <2>1, CallTypes
<1> HIDE DEF n
<1>4. Stubs(r, calls, k) = [i \in 1..n |-> Tool(Call(r, k + i - 1))]
  BY DEF Stubs, n
<1>5. Stubs(r, calls, k) \in Seq(Message) /\ Len(Stubs(r, calls, k)) = n
  BY <1>2, <1>3, <1>4
<1> QED BY <1>4, <1>5 DEF n

\* Every step preserves the types.
LEMMA TypeOKStep == TypeOK /\ Started /\ StreakInv /\ [Next]_vars => TypeOK' /\ Started'
<1> SUFFICES ASSUME TypeOK, Started, StreakInv, [Next]_vars PROVE TypeOK' /\ Started'
  OBVIOUS
<1> USE DEF TypeOK, Started, Running, Return, streakVars, loopVars
<1>1. Pruned(history) \in Seq(Message)
  BY PruneCuts
<1>2. pc # "idle" => turn \in 1..MaxTurns
  BY ReactTurnAssumption
<1>3. CASE Prompt
  <2>1. User \in Message
    BY <1>3, ReactTurnAssumption DEF Prompt, User, Message
  <2>2. history' \in Seq(Message)
    BY <1>3, <2>1 DEF Prompt
  <2>3. turn' \in 0..MaxTurns /\ turn' > 0
    BY <1>3, ReactTurnAssumption DEF Prompt
  <2>4. cancelled' \in BOOLEAN /\ connected' \in BOOLEAN
    BY <1>3, Zenon DEF Prompt
  <2> QED BY <1>3, <2>2, <2>3, <2>4, ReactTurnAssumption DEF Prompt
<1>4. CASE Cancel
  BY <1>4 DEF Cancel
<1>5. CASE RoundsExceeded
  BY <1>5 DEF RoundsExceeded, Ends
<1>6. CASE PayloadTooLarge \/ ModelRefused
  <2>1. history' \in Seq(Message) /\ outcome' \in Ends /\ pc' = "idle"
    BY <1>1, <1>6 DEF PayloadTooLarge, ModelRefused, Ends
  <2>2. UNCHANGED <<turn, loopVars, streakVars, pending, cancelled, late, aborted>>
    BY <1>6 DEF PayloadTooLarge, ModelRefused
  <2> QED BY <2>1, <2>2
<1>7. CASE ModelCancelled
  <2>1. pc = "round"
    BY <1>7 DEF ModelCancelled, ModelCalled, StartsRound
  <2>2. aborted' \subseteq 1..MaxTurns
    BY <1>2, <1>7, <2>1 DEF ModelCancelled
  <2>3. history' \in Seq(Message) /\ outcome' \in Ends /\ pc' = "idle"
    BY <1>1, <1>7 DEF ModelCancelled, Ends
  <2>4. UNCHANGED <<turn, loopVars, streakVars, pending, cancelled, late>>
    BY <1>7 DEF ModelCancelled
  <2> QED BY <2>2, <2>3, <2>4
<1>8. CASE AnswersText
  <2>1. Assistant({}) \in Message
    BY AssistantTypes
  <2>2. history' \in Seq(Message)
    BY <1>1, <1>8, <2>1 DEF AnswersText, Answers
  <2>3. outcome' \in Ends /\ pc' = "idle"
    BY <1>8 DEF AnswersText, Ends
  <2>4. UNCHANGED <<turn, loopVars, streakVars, pending, cancelled, late, aborted>>
    BY <1>8 DEF AnswersText
  <2> QED BY <2>2, <2>3, <2>4
<1>9. CASE AnswersBleedWithCalls
  <2>1. PICK calls \in Batches :
          /\ ModelCalled
          /\ history' = Append(Pruned(history), Assistant(CallIds(round + 1, calls)))
                          \o Stubs(round + 1, calls, 1)
    BY <1>9 DEF AnswersBleedWithCalls
  <2>2. turn \in 1..MaxTurns /\ round + 1 \in 1..MaxToolRounds
    BY <1>2, <2>1, ReactTurnAssumption DEF ModelCalled, StartsRound
  <2>3. Assistant(CallIds(round + 1, calls)) \in Message
    BY <2>2, CallTypes, AssistantTypes
  <2>4. Stubs(round + 1, calls, 1) \in Seq(Message)
    <3>1. 1 \in 1..(Len(calls) + 1)
      BY BatchSeq
    <3> QED BY <2>2, <3>1, StubTypes
  <2>5. history' \in Seq(Message)
    BY <1>1, <2>1, <2>3, <2>4, AppendProperties, ConcatProperties
  <2>6. outcome' \in Ends /\ pc' = "idle"
    BY <1>9 DEF AnswersBleedWithCalls, Ends
  <2>7. UNCHANGED <<turn, loopVars, streakVars, pending, cancelled, late, aborted>>
    BY <1>9 DEF AnswersBleedWithCalls
  <2> QED BY <2>5, <2>6, <2>7
<1>10. CASE AnswersCalls
  <2>1. PICK calls \in Batches :
          /\ ModelCalled
          /\ history' = Append(Pruned(history), Assistant(CallIds(round + 1, calls)))
          /\ batch' = calls /\ pending' = CallIds(round + 1, calls)
    BY <1>10 DEF AnswersCalls, Answers
  <2>2. turn \in 1..MaxTurns /\ round + 1 \in 1..MaxToolRounds
    BY <1>2, <2>1, ReactTurnAssumption DEF ModelCalled, StartsRound
  <2>3. pending' \subseteq CallId /\ Assistant(CallIds(round + 1, calls)) \in Message
    BY <2>1, <2>2, CallTypes, AssistantTypes
  <2>4. history' \in Seq(Message)
    BY <1>1, <2>1, <2>3, AppendProperties
  <2>5. round' = round + 1 /\ idx' = 1 /\ pc' = "call"
        /\ UNCHANGED <<turn, connected, streakVars, cancelled, outcome, late, aborted>>
    BY <1>10 DEF AnswersCalls
  <2>6. 1 \in DOMAIN calls
    BY BatchSeq
  <2> QED BY <2>1, <2>2, <2>3, <2>4, <2>5, <2>6
<1>11. CASE Connects
  BY <1>11 DEF Connects
<1>12. CASE SendCall
  BY <1>12 DEF SendCall
<1>13. CASE CallCancelled
  <2>1. pc # "idle"
    BY <1>13 DEF CallCancelled
  <2>2. aborted' \subseteq 1..MaxTurns
    BY <1>2, <1>13, <2>1 DEF CallCancelled
  <2>3. outcome' \in Ends /\ pc' = "idle" /\ late' \in Nat
    BY <1>13 DEF CallCancelled, Ends
  <2>4. UNCHANGED <<history, turn, loopVars, streakVars, pending, cancelled>>
    BY <1>13 DEF CallCancelled
  <2> QED BY <2>2, <2>3, <2>4
<1>14. CASE \E err \in BOOLEAN : Returned(err)
  <2>1. PICK err \in BOOLEAN : Returned(err)
    BY <1>14
  <2>2. /\ pc \in {"call", "await"} /\ turn \in 1..MaxTurns /\ round \in 1..MaxToolRounds
        /\ batch \in Batches /\ idx \in 1..Len(batch) /\ Len(batch) \in 1..MaxBatch
    <3>1. pc \in {"call", "await"}
      BY <2>1 DEF Returned
    <3>2. idx \in DOMAIN batch
      BY <3>1
    <3>3. batch # <<>>
      BY <3>2
    <3>4. PICK m \in 1..MaxBatch : batch \in [1..m -> Sigs]
      BY <3>3 DEF Batches
    <3>5. m \in Nat /\ batch \in Batches
      BY <3>3, ReactTurnAssumption
    <3> QED BY <1>2, <3>1, <3>2, <3>4, <3>5, BatchSeq
  <2>3. Tool(This) \in Message
    BY <2>2, CallTypes, ReactTurnAssumption DEF This
  <2>4. errors < ErrorLimit /\ successes < SuccessLimit
    BY <2>2 DEF StreakInv
  <2>5. /\ lastSig' = {batch[idx]} /\ errors' = ErrorStreak(err) /\ successes' = SuccessStreak(err)
        /\ UNCHANGED <<turn, round, cancelled, late, aborted, connected>>
    BY <2>1 DEF Returned, Result, Sig
  <2>6. errors' \in 0..ErrorLimit /\ successes' \in 0..SuccessLimit
    BY <2>4, <2>5, ReactTurnAssumption DEF ErrorStreak, SuccessStreak
  <2>7. lastSig' \in SUBSET Sigs
    BY <2>2, <2>5, BatchSeq
  <2>8. CASE Trips(err)
    <3>1. /\ history' = (history \o <<Tool(This)>>) \o Stubs(round, batch, idx + 1)
                                \o <<Assistant({})>>
          /\ pending' = pending \ ({This} \cup Rest)
          /\ pc' = "idle" /\ outcome' = "circuit_breaker" /\ UNCHANGED <<batch, idx>>
      BY <2>1, <2>8 DEF Returned, Result
    <3>2. Stubs(round, batch, idx + 1) \in Seq(Message)
      <4>1. idx + 1 \in 1..(Len(batch) + 1)
        BY <2>2
      <4> QED BY <2>2, <4>1, StubTypes
    <3>3. Assistant({}) \in Message
      BY AssistantTypes
    <3>4. history' \in Seq(Message)
      <4>1. <<Tool(This)>> \in Seq(Message) /\ <<Assistant({})>> \in Seq(Message)
        BY <2>3, <3>3
      <4>2. history \o <<Tool(This)>> \in Seq(Message)
        BY <4>1, ConcatProperties
      <4>3. (history \o <<Tool(This)>>) \o Stubs(round, batch, idx + 1) \in Seq(Message)
        BY <3>2, <4>2, ConcatProperties
      <4> QED BY <3>1, <4>1, <4>3, ConcatProperties
    <3> QED BY <2>5, <2>6, <2>7, <3>1, <3>4 DEF Ends
  <2>9. CASE ~Trips(err)
    <3>1. /\ history' = Append(history, Tool(This)) /\ pending' = pending \ {This}
          /\ IF idx < Len(batch)
             THEN pc' = "call" /\ idx' = idx + 1 /\ UNCHANGED batch
             ELSE pc' = "round" /\ idx' = 1 /\ batch' = <<>>
          /\ UNCHANGED outcome
      BY <2>1, <2>9 DEF Returned, Result
    <3>2. history' \in Seq(Message)
      BY <2>3, <3>1, AppendProperties
    <3>3. /\ pc' = "call" \/ pc' = "round"
          /\ batch' \in Batches \cup {<<>>}
          /\ pc' = "call" => idx' \in DOMAIN batch'
      <4>1. DOMAIN batch = 1..Len(batch)
        BY <2>2, BatchSeq
      <4> QED BY <2>2, <3>1, <4>1
    <3> QED BY <2>2, <2>5, <2>6, <2>7, <3>1, <3>2, <3>3
  <2> QED BY <2>8, <2>9
<1>15. CASE UNCHANGED vars
  BY <1>15 DEF vars
<1> QED BY Steps, <1>3, <1>4, <1>5, <1>6, <1>7, <1>8, <1>9, <1>10, <1>11, <1>12,
           <1>13, <1>14, <1>15

\* Types and turn numbers hold in every behaviour.
LEMMA TypeOKHolds == Spec => [](TypeOK /\ Started)
<1>1. Init => TypeOK /\ Started
  <2> SUFFICES ASSUME Init PROVE TypeOK /\ Started
    OBVIOUS
  <2>1. System \in Message
    BY ReactTurnAssumption DEF System, Message
  <2>2. history \in Seq(Message)
    <3>1. <<>> \in Seq(Message) /\ <<System>> \in Seq(Message)
      BY <2>1
    <3>2. history = <<>> \/ history = <<System>>
      BY DEF Init
    <3> QED BY <3>1, <3>2
  <2>3. cancelled \in BOOLEAN /\ connected \in BOOLEAN
    BY Zenon DEF Init
  <2> QED BY <2>2, <2>3, ReactTurnAssumption DEF Init, TypeOK, Started, Running, Ends
<1> QED BY <1>1, TypeOKStep, StreakInvHolds, PTL DEF Spec

\* The history of any session is a sequence of well-formed messages, and the place in a
\* batch, the counters and the rows stay within their limits.
THEOREM TypeCorrect == Spec => []TypeOK
BY TypeOKHolds, PTL

-----------------------------------------------------------------------------
(* Every step preserves the history's invariant.                           *)

\* Pruning between batches.
LEMMA PrunedSound ==
  ASSUME TypeOK, HistoryInv, pc = "round"
  PROVE  LET g == Pruned(history) IN
           /\ g \in Seq(Message) /\ Sound(g) /\ Settled(g, aborted)
           /\ \A i \in Users(g) : g[i].turn <= turn
           /\ \A i \in DOMAIN g : \E k \in DOMAIN history : g[i].answers = history[k].answers
<1> DEFINE g == Pruned(history)
<1>1. history \in Seq(Message) /\ g \in Seq(Message)
  BY PruneCuts DEF TypeOK
<1>2. Sound(history) /\ Settled(history, aborted)
  BY DEF HistoryInv, Settled, Running
<1>3. /\ Sound(g)
      /\ \A i \in DOMAIN g : \E k \in DOMAIN history :
           g[i] = history[k] /\ (g[i].calls # {} /\ Whole(history, k) => Whole(g, i))
  <2>1. CASE g = history
    BY <1>2, <2>1
  <2>2. CASE g # history
    <3>1. PICK a, c \in 1..Len(history) : CutAt(history, g, a, c)
      BY <1>1, <2>2, PruneCuts
    <3> HIDE DEF g
    <3> QED BY <1>1, <1>2, <3>1, CutSound
  <2> QED BY <2>1, <2>2
<1> HIDE DEF g
<1>4. Settled(g, aborted)
  BY <1>2, <1>3 DEF Settled
<1>5. \A i \in Users(g) : g[i].turn <= turn
  BY <1>3 DEF Users, HistoryInv
<1> QED BY <1>1, <1>3, <1>4, <1>5 DEF g

\* Steps that leave the history alone, and may give up the batch of a cancelled turn.
LEMMA HistoryStays ==
  ASSUME TypeOK, HistoryInv, UNCHANGED <<history, turn, round, batch, idx>>,
         aborted \subseteq aborted', pc' # "idle" => pc # "idle", Running' => Running,
         Running /\ ~Running' => turn \in aborted'
  PROVE  HistoryInv'
<1>1. Sound(history)' /\ \A i \in Users(history)' : history'[i].turn <= turn'
  BY DEF HistoryInv, Sound, Shaped, Ordered, Paired, ToolsFrom, Users
<1>2. Fresh'
  BY DEF HistoryInv, Fresh
<1>3. Running' => Open(history, Base, round, batch, idx - 1)'
  BY DEF HistoryInv, Open, Base, Assistant, Tool, CallIds, Call
<1>4. ASSUME NEW i \in DOMAIN history', history'[i].calls # {}
      PROVE  Whole(history', i) \/ history'[i].turn \in aborted' \/ (Running' /\ i = Base')
  <2>1. Whole(history, i) \/ history[i].turn \in aborted \/ (Running /\ i = Base)
    BY <1>4 DEF HistoryInv
  <2>2. Running /\ i = Base => history[i].turn = turn
    BY DEF HistoryInv, Open, Assistant
  <2> QED BY <2>1, <2>2 DEF Base
<1> QED BY <1>1, <1>2, <1>3, <1>4 DEF HistoryInv

\* The history between batches, after a step that ends there.
LEMMA HistorySettles ==
  ASSUME TypeOK, HistoryInv, turn' = turn, ~Running', pc' # "idle" => round' = round /\ pc # "idle",
         Sound(history'), Settled(history', aborted'),
         \A i \in Users(history') : history'[i].turn <= turn,
         \A j \in DOMAIN history' :
           \/ \E k \in DOMAIN history : history'[j].answers = history[k].answers
           \/ history'[j].answers = <<>>
           \/ \E r, k \in Nat : /\ history'[j].answers = Call(r, k)
                                /\ pc' # "idle" => r <= round
  PROVE  HistoryInv'
<1>1. Fresh'
  <2> SUFFICES ASSUME NEW t \in Nat, NEW r \in Nat, NEW k \in Nat,
                      \/ t > turn'
                      \/ t = turn' /\ pc' # "idle" /\ (r > round' \/ (r = round' /\ Running' /\ k >= idx')),
                      NEW j \in DOMAIN history'
               PROVE  history'[j].answers # <<t, r, k>>
    BY DEF Fresh
  <2>1. t > turn \/ (t = turn /\ pc # "idle" /\ pc' # "idle" /\ r > round)
    OBVIOUS
  <2>2. CASE \E l \in DOMAIN history : history'[j].answers = history[l].answers
    BY <2>1, <2>2 DEF HistoryInv, Fresh
  <2>3. CASE history'[j].answers = <<>>
    BY <2>3
  <2>4. CASE \E x, y \in Nat : history'[j].answers = Call(x, y) /\ (pc' # "idle" => x <= round)
    <3>1. turn \in Nat /\ round \in Nat
      BY ReactTurnAssumption DEF TypeOK
    <3> QED BY <2>1, <2>4, <3>1 DEF Call
  <2> QED BY <2>2, <2>3, <2>4
<1> QED BY <1>1 DEF HistoryInv, Settled

\* Turns are numbers.
LEMMA MessageTurns ==
  ASSUME TypeOK
  PROVE  turn \in Nat /\ \A i \in DOMAIN history : history[i].turn \in Nat
<1>1. \A m \in Message : m.turn \in Nat
  BY ReactTurnAssumption DEF Message
<1>2. \A i \in DOMAIN history : history[i] \in Message
  BY DEF TypeOK
<1> QED BY <1>1, <1>2, ReactTurnAssumption DEF TypeOK

\* A prompt: its turn is later than that of any other.
LEMMA HistoryPrompt ==
  ASSUME TypeOK, TypeOK', HistoryInv, Prompt
  PROVE  HistoryInv'
<1>1. /\ pc = "idle" /\ pc' = "round" /\ turn' = turn + 1 /\ aborted' = aborted
      /\ history' = Append(history, User)
  BY DEF Prompt
<1>2. /\ history \in Seq(Message) /\ history' \in Seq(Message) /\ turn \in Nat
  BY ReactTurnAssumption DEF TypeOK
<1>3. User.role = "user" /\ User.turn = turn + 1 /\ User.calls = {} /\ User.answers = <<>>
  BY DEF User
<1>4. /\ Len(history') = Len(history) + 1 /\ Len(history) \in Nat
      /\ DOMAIN history = 1..Len(history) /\ DOMAIN history' = 1..(Len(history) + 1)
      /\ \A i \in 1..Len(history) : history'[i] = history[i]
      /\ history'[Len(history) + 1] = User
  <2>1. history \in Seq(Message \cup {User}) /\ User \in Message \cup {User}
    BY <1>2
  <2> QED BY <1>1, <2>1, AppendProperties
<1>5. Sound(history') /\ \A i \in DOMAIN history : Whole(history, i) => Whole(history', i)
  <2>1. history \in Seq(Message \cup {User}) /\ User \in Message \cup {User}
    BY <1>2
  <2>2. \A u \in Users(history) : history[u].turn < User.turn
    <3>1. \A u \in Users(history) : history[u].turn \in Nat
      BY MessageTurns DEF Users
    <3> QED BY <1>2, <1>3, <3>1 DEF HistoryInv
  <2> QED BY <1>1, <1>3, <2>1, <2>2, AppendSound DEF HistoryInv
<1>6. \A i \in 1..(Len(history) + 1) : i \in 1..Len(history) \/ i = Len(history) + 1
  BY <1>4
<1>7. \A i \in Users(history') : history'[i].turn <= turn'
  <2> TAKE i \in Users(history')
  <2>1. CASE i \in 1..Len(history)
    <3>1. history[i].turn \in Nat /\ history[i].turn <= turn
      BY <1>4, <2>1, MessageTurns DEF HistoryInv, Users
    <3> QED BY <1>1, <1>2, <1>4, <2>1, <3>1
  <2>2. CASE i = Len(history) + 1
    BY <1>1, <1>2, <1>3, <1>4, <2>2
  <2> QED BY <1>4, <1>6, <2>1, <2>2 DEF Users
<1>8. Fresh'
  <2> SUFFICES ASSUME NEW t \in Nat, NEW r \in Nat, NEW k \in Nat,
                      \/ t > turn'
                      \/ t = turn' /\ pc' # "idle" /\ (r > round' \/ (r = round' /\ Running' /\ k >= idx')),
                      NEW j \in DOMAIN history'
               PROVE  history'[j].answers # <<t, r, k>>
    BY DEF Fresh
  <2>1. t > turn
    BY <1>1, <1>2
  <2>2. CASE j \in 1..Len(history)
    BY <1>4, <2>1, <2>2 DEF HistoryInv, Fresh
  <2>3. CASE j = Len(history) + 1
    <3>1. history'[j].answers = <<>>
      BY <1>3, <1>4, <2>3
    <3> QED BY <3>1
  <2> QED BY <1>4, <1>6, <2>2, <2>3
<1>9. Settled(history', aborted')
  <2>1. Settled(history, aborted)
    BY <1>1 DEF HistoryInv, Settled, Running
  <2> QED BY <1>1, <1>3, <1>4, <1>5, <1>6, <2>1 DEF Settled
<1> QED BY <1>1, <1>5, <1>7, <1>8, <1>9 DEF HistoryInv, Settled, Running

\* A message of the assistant after the pruned history.
LEMMA AssistantSound ==
  ASSUME TypeOK, HistoryInv, pc = "round", NEW calls, calls \subseteq CallId
  PROVE  LET g == Pruned(history)
             h == Append(g, Assistant(calls))
         IN  /\ h \in Seq(Message) /\ Sound(h) /\ Len(g) \in Nat /\ Len(h) = Len(g) + 1
             /\ h[Len(h)] = Assistant(calls)
             /\ \A i \in DOMAIN h : h[i].calls # {} =>
                  Whole(h, i) \/ h[i].turn \in aborted \/ (calls # {} /\ i = Len(h))
             /\ \A i \in Users(h) : h[i].turn <= turn
             /\ \A i \in DOMAIN h : \/ h[i].answers = <<>>
                                    \/ \E k \in DOMAIN history : h[i].answers = history[k].answers
<1> DEFINE g == Pruned(history)
           m == Assistant(calls)
           h == Append(g, m)
<1>1. /\ g \in Seq(Message) /\ Sound(g) /\ Settled(g, aborted)
      /\ \A i \in Users(g) : g[i].turn <= turn
      /\ \A i \in DOMAIN g : \E k \in DOMAIN history : g[i].answers = history[k].answers
  BY PrunedSound
<1>2. m.role = "assistant" /\ m.calls = calls /\ m.answers = <<>> /\ m \in Message
  BY AssistantTypes DEF Assistant, TypeOK
<1> HIDE DEF g, m
<1>3. /\ h \in Seq(Message) /\ Len(h) = Len(g) + 1 /\ Len(g) \in Nat
      /\ DOMAIN g = 1..Len(g) /\ DOMAIN h = 1..(Len(g) + 1)
      /\ \A i \in 1..Len(g) : h[i] = g[i]
      /\ h[Len(g) + 1] = m
  BY <1>1, <1>2, AppendProperties
<1>4. Sound(h) /\ \A i \in DOMAIN g : Whole(g, i) => Whole(h, i)
  BY <1>1, <1>2, AppendSound
<1> HIDE DEF h
<1>5. \A i \in 1..(Len(g) + 1) : i \in 1..Len(g) \/ i = Len(g) + 1
  BY <1>3
<1>6. \A i \in DOMAIN h : h[i].calls # {} =>
        Whole(h, i) \/ h[i].turn \in aborted \/ (calls # {} /\ i = Len(h))
  BY <1>1, <1>2, <1>3, <1>4, <1>5 DEF Settled
<1>7. \A i \in Users(h) : h[i].turn <= turn
  BY <1>1, <1>2, <1>3, <1>5 DEF Users
<1>8. \A i \in DOMAIN h : \/ h[i].answers = <<>>
                          \/ \E k \in DOMAIN history : h[i].answers = history[k].answers
  BY <1>1, <1>2, <1>3, <1>5
<1> QED BY <1>3, <1>4, <1>6, <1>7, <1>8 DEF g, m, h

\* The model refuses, is cancelled or answers with text.
LEMMA HistoryNoCalls ==
  ASSUME TypeOK, HistoryInv,
         PayloadTooLarge \/ ModelRefused \/ ModelCancelled \/ AnswersText
  PROVE  HistoryInv'
<1>1. pc = "round" /\ pc' = "idle" /\ turn' = turn /\ aborted \subseteq aborted'
  BY DEF PayloadTooLarge, ModelRefused, ModelCancelled, AnswersText, Answers, ModelCalled,
         StartsRound, Return
<1>2. CASE history' = Pruned(history)
  <2>1. Settled(history', aborted')
    BY <1>1, <1>2, PrunedSound DEF Settled
  <2> QED BY <1>1, <1>2, <2>1, PrunedSound, HistorySettles DEF Running
<1>3. CASE history' = Append(Pruned(history), Assistant({}))
  <2>1. Settled(history', aborted')
    BY <1>1, <1>3, AssistantSound DEF Settled
  <2> QED BY <1>1, <1>3, <2>1, AssistantSound, HistorySettles DEF Running
<1> QED BY <1>2, <1>3 DEF PayloadTooLarge, ModelRefused, ModelCancelled, AnswersText, Answers

\* The message that makes the calls of a round opens the batch.
LEMMA Opens ==
  ASSUME NEW h, NEW r, NEW calls, Len(h) \in Nat, Len(h) \in DOMAIN h,
         h[Len(h)] = Assistant(CallIds(r, calls))
  PROVE  Open(h, Len(h), r, calls, 0)
BY DEF Open

\* The model makes calls, and they will be run.
LEMMA HistoryCalls ==
  ASSUME TypeOK, TypeOK', Started, HistoryInv, AnswersCalls
  PROVE  HistoryInv'
<1>1. PICK calls \in Batches :
        /\ ModelCalled /\ batch' = calls
        /\ history' = Append(Pruned(history), Assistant(CallIds(round + 1, calls)))
  BY DEF AnswersCalls, Answers
<1>2. /\ pc = "round" /\ pc' = "call" /\ turn' = turn /\ round' = round + 1 /\ idx' = 1
      /\ aborted' = aborted
  BY <1>1 DEF AnswersCalls, ModelCalled, StartsRound
<1>3. turn \in 1..MaxTurns /\ round + 1 \in 1..MaxToolRounds /\ turn \in Nat /\ round \in Nat
  BY <1>1, <1>2, ReactTurnAssumption DEF TypeOK, Started, ModelCalled, StartsRound
<1> DEFINE ids == CallIds(round + 1, calls)
           n == Len(history')
<1>4. ids \subseteq CallId
  BY <1>3, CallTypes
<1>5. /\ history' \in Seq(Message) /\ Sound(history')
      /\ n \in Nat /\ n \in DOMAIN history'
      /\ history'[n] = Assistant(ids)
      /\ \A i \in DOMAIN history' : history'[i].calls # {} =>
           Whole(history', i) \/ history'[i].turn \in aborted \/ i = n
      /\ \A i \in Users(history') : history'[i].turn <= turn
      /\ \A i \in DOMAIN history' :
           \/ history'[i].answers = <<>>
           \/ \E k \in DOMAIN history : history'[i].answers = history[k].answers
  <2> HIDE DEF ids
  <2>1. history' = Append(Pruned(history), Assistant(ids))
    BY <1>1 DEF ids
  <2>2. history' \in Seq(Message) /\ n \in Nat /\ n >= 1
    BY <1>2, <1>4, <2>1, AssistantSound
  <2>3. n \in DOMAIN history'
    BY <2>2
  <2> QED BY <1>2, <1>4, <2>1, <2>2, <2>3, AssistantSound
<1>6. Open(history, Base, round, batch, idx - 1)'
  <2>1. Base' = n /\ idx' - 1 = 0
    BY <1>2, <1>5 DEF Base
  <2>2. history'[n] = Assistant(CallIds(round, batch))'
    BY <1>1, <1>2, <1>5 DEF Assistant, CallIds, Call
  <2> QED BY <1>2, <1>5, <2>1, <2>2 DEF Open
<1>7. Fresh'
  <2> SUFFICES ASSUME NEW t \in Nat, NEW r \in Nat, NEW k \in Nat,
                      \/ t > turn'
                      \/ t = turn' /\ pc' # "idle" /\ (r > round' \/ (r = round' /\ Running' /\ k >= idx')),
                      NEW j \in DOMAIN history'
               PROVE  history'[j].answers # <<t, r, k>>
    BY DEF Fresh
  <2>1. t > turn \/ (t = turn /\ pc # "idle" /\ r > round)
    BY <1>2, <1>3
  <2>2. CASE history'[j].answers = <<>>
    BY <2>2
  <2>3. CASE \E l \in DOMAIN history : history'[j].answers = history[l].answers
    BY <2>1, <2>3 DEF HistoryInv, Fresh
  <2> QED BY <1>5, <2>2, <2>3
<1>8. Running' /\ Base' = n
  BY <1>2, <1>5 DEF Running, Base
<1> QED BY <1>2, <1>5, <1>6, <1>7, <1>8 DEF HistoryInv

\* Schema text beside calls: all of them get a stub at once.
LEMMA HistoryBleed ==
  ASSUME TypeOK, TypeOK', Started, HistoryInv, AnswersBleedWithCalls
  PROVE  HistoryInv'
<1>1. PICK calls \in Batches :
        /\ ModelCalled
        /\ history' = Append(Pruned(history), Assistant(CallIds(round + 1, calls)))
                        \o Stubs(round + 1, calls, 1)
  BY DEF AnswersBleedWithCalls
<1>2. pc = "round" /\ pc' = "idle" /\ turn' = turn /\ aborted' = aborted
  BY <1>1 DEF AnswersBleedWithCalls, ModelCalled, StartsRound, Return
<1>3. turn \in 1..MaxTurns /\ round + 1 \in 1..MaxToolRounds /\ turn \in Nat /\ round \in Nat
  BY <1>1, <1>2, ReactTurnAssumption DEF TypeOK, Started, ModelCalled, StartsRound
<1> DEFINE r == round + 1
           ids == CallIds(r, calls)
           g == Append(Pruned(history), Assistant(ids))
           stubs == Stubs(r, calls, 1)
           n == Len(calls)
           b == Len(g)
<1>4. ids \subseteq CallId
  BY <1>3, CallTypes
<1>5. /\ g \in Seq(Message) /\ Sound(g) /\ b \in Nat /\ b >= 1
      /\ g[b] = Assistant(ids)
      /\ \A i \in DOMAIN g : g[i].calls # {} =>
           Whole(g, i) \/ g[i].turn \in aborted \/ i = b
      /\ \A i \in Users(g) : g[i].turn <= turn
      /\ \A i \in DOMAIN g :
           \/ g[i].answers = <<>>
           \/ \E k \in DOMAIN history : g[i].answers = history[k].answers
  <2> HIDE DEF ids
  <2>1. /\ g \in Seq(Message) /\ Sound(g)
        /\ Len(Pruned(history)) \in Nat /\ b = Len(Pruned(history)) + 1
        /\ g[b] = Assistant(ids)
        /\ \A i \in DOMAIN g : g[i].calls # {} =>
             Whole(g, i) \/ g[i].turn \in aborted \/ (ids # {} /\ i = b)
        /\ \A i \in Users(g) : g[i].turn <= turn
        /\ \A i \in DOMAIN g :
             \/ g[i].answers = <<>>
             \/ \E k \in DOMAIN history : g[i].answers = history[k].answers
    BY <1>2, <1>4, AssistantSound
  <2> HIDE DEF g
  <2>2. b \in Nat /\ b >= 1
    BY <2>1
  <2> QED BY <2>1, <2>2
<1>6. calls \in Seq(Sigs) /\ n \in Nat /\ n >= 1
  BY BatchSeq
<1>7. /\ stubs \in Seq(Message) /\ Len(stubs) = n
      /\ \A i \in 1..n : stubs[i] = Tool(Call(r, i))
  <2>1. 1 \in 1..(n + 1)
    BY <1>6
  <2>2. /\ stubs \in Seq(Message) /\ Len(stubs) = n - 1 + 1
        /\ \A i \in 1..(n - 1 + 1) : stubs[i] = Tool(Call(r, 1 + i - 1))
    BY <1>3, <2>1, StubTypes
  <2>3. n - 1 + 1 = n /\ \A i \in 1..n : 1 + i - 1 = i
    BY <1>6
  <2> HIDE DEF stubs, r, n
  <2> QED BY <2>2, <2>3
<1>8. history' = g \o stubs
  BY <1>1
<1> HIDE DEF g, stubs, ids, n, r, b
<1>9. /\ history' \in Seq(Message) /\ Len(history') = b + n
      /\ \A i \in 1..b : history'[i] = g[i]
      /\ \A i \in 1..n : history'[b + i] = Tool(Call(r, i))
  <2>1. /\ history' \in Seq(Message) /\ Len(history') = b + n
        /\ \A i \in 1..(b + n) : history'[i] = IF i <= b THEN g[i] ELSE stubs[i - b]
    BY <1>5, <1>7, <1>8, ConcatProperties DEF b
  <2>2. \A i \in 1..n : b + i \in 1..(b + n) /\ ~(b + i <= b) /\ (b + i) - b = i
    BY <1>5, <1>6
  <2>3. \A i \in 1..b : i \in 1..(b + n) /\ i <= b
    BY <1>5, <1>6
  <2> QED BY <1>7, <2>1, <2>2, <2>3
<1>10. \A j \in 1..n : \A i \in DOMAIN g : g[i].answers # Call(r, j)
  <2> SUFFICES ASSUME NEW j \in 1..n, NEW i \in DOMAIN g PROVE g[i].answers # Call(r, j)
    OBVIOUS
  <2>1. CASE g[i].answers = <<>>
    BY <2>1 DEF Call
  <2>2. CASE \E k \in DOMAIN history : g[i].answers = history[k].answers
    <3>1. r \in Nat /\ r > round /\ j \in Nat /\ pc # "idle" /\ turn \in Nat
      BY <1>2, <1>3 DEF r
    <3>2. \A k \in DOMAIN history : history[k].answers # <<turn, r, j>>
      BY <3>1 DEF HistoryInv, Fresh
    <3> QED BY <2>2, <3>2 DEF Call
  <2> QED BY <1>5, <2>1, <2>2
<1>11. Open(g, b, r, calls, 0)
  <2>1. b \in DOMAIN g
    BY <1>5 DEF b
  <2> QED BY <1>5, <2>1, Opens DEF b, ids
<1>12. /\ Sound(history') /\ Whole(history', b) /\ Open(history', b, r, calls, n)
       /\ \A i \in DOMAIN g \ {b} : g[i].calls # {} /\ Whole(g, i) => Whole(history', i)
  <2>1. 0 + n <= Len(calls) /\ 0 + n = Len(calls) /\ 0 + n = n /\ 0 \in Nat
        /\ \A j \in 1..n : 0 + j = j
    BY <1>6 DEF n
  <2>2. Continues(g, history', b, r, calls, 0, n)
    BY <1>5, <1>6, <1>9, <1>10, <1>11, <2>1 DEF b, Continues
  <2> QED BY <1>5, <2>1, <2>2, ResultsSound
<1>13. \A i \in DOMAIN history' : \/ i \in DOMAIN g /\ history'[i] = g[i]
                                  \/ \E j \in 1..n : history'[i] = Tool(Call(r, j))
  <2> TAKE i \in DOMAIN history'
  <2>1. DOMAIN g = 1..b /\ i \in 1..(b + n)
    BY <1>5, <1>9 DEF b
  <2>2. CASE i \in 1..b
    BY <1>9, <2>1, <2>2
  <2>3. CASE i \notin 1..b
    <3>1. i - b \in 1..n /\ b + (i - b) = i
      BY <1>5, <1>6, <2>1, <2>3
    <3> DEFINE j == i - b
    <3>2. j \in 1..n /\ b + j = i
      BY <3>1
    <3> HIDE DEF j
    <3> QED BY <1>9, <3>2
  <2> QED BY <2>2, <2>3
<1>14. \A x : Tool(x).calls = {} /\ Tool(x).role = "tool" /\ Tool(x).answers = x
  BY DEF Tool
<1>15. Settled(history', aborted')
  BY <1>2, <1>5, <1>12, <1>13, <1>14 DEF Settled
<1>16. \A i \in Users(history') : history'[i].turn <= turn
  BY <1>5, <1>13, <1>14 DEF Users
<1>17. \A i \in DOMAIN history' :
         \/ \E k \in DOMAIN history : history'[i].answers = history[k].answers
         \/ history'[i].answers = <<>>
         \/ \E x, k \in Nat : /\ history'[i].answers = Call(x, k)
                              /\ pc' # "idle" => x <= round
  <2>1. r \in Nat /\ \A j \in 1..n : j \in Nat
    BY <1>3 DEF r
  <2> QED BY <1>2, <1>5, <1>13, <1>14, <2>1
<1> QED BY <1>2, <1>12, <1>15, <1>16, <1>17, HistorySettles DEF Running

\* The next m results of the running batch.
LEMMA RunningResults ==
  ASSUME TypeOK, Started, HistoryInv, Running, NEW g \in Seq(Message),
         NEW m \in 1..(Len(batch) - idx + 1), Len(g) = Len(history) + m,
         \A i \in 1..Len(history) : g[i] = history[i],
         \A j \in 1..m : g[Len(history) + j] = Tool(Call(round, (idx - 1) + j))
  PROVE  /\ Sound(g) /\ Open(g, Base, round, batch, (idx - 1) + m)
         /\ \A i \in DOMAIN g : g[i].calls # {} =>
              Whole(g, i) \/ g[i].turn \in aborted \/ i = Base
         /\ (idx - 1) + m = Len(batch) => Settled(g, aborted)
         /\ \A i \in Users(g) : g[i].turn <= turn
         /\ \A i \in DOMAIN g :
              \/ \E k \in DOMAIN history : g[i].answers = history[k].answers
              \/ \E k \in idx..((idx - 1) + m) : g[i].answers = Call(round, k)
<1> DEFINE n == Len(history)
           k == idx - 1
<1>1. batch \in Batches /\ idx \in DOMAIN batch
  BY DEF TypeOK, Running
<1>2. batch \in Seq(Sigs) /\ Len(batch) \in Nat /\ idx \in 1..Len(batch) /\ k \in Nat
      /\ m \in Nat /\ k + m <= Len(batch)
  BY <1>1, BatchSeq
<1>3. history \in Seq(Message) /\ n \in Nat /\ DOMAIN history = 1..n /\ DOMAIN g = 1..(n + m)
  BY <1>2 DEF TypeOK
<1>4. turn \in Nat /\ round \in Nat
  BY MessageTurns, ReactTurnAssumption DEF TypeOK
<1>5. \A j \in 1..m : \A i \in DOMAIN history : history[i].answers # Call(round, k + j)
  <2> SUFFICES ASSUME NEW j \in 1..m, NEW i \in DOMAIN history
               PROVE  history[i].answers # Call(round, k + j)
    OBVIOUS
  <2>1. k + j \in Nat /\ k + j >= idx
    BY <1>2
  <2>2. turn = turn /\ pc # "idle" /\ round = round /\ Running
    BY DEF Running
  <2> HIDE DEF k
  <2>3. history[i].answers # <<turn, round, k + j>>
    BY <1>4, <2>1, <2>2 DEF HistoryInv, Fresh
  <2> QED BY <2>3 DEF Call
<1>6. Open(history, Base, round, batch, k)
  BY DEF HistoryInv
<1> HIDE DEF k
<1>7. /\ Sound(g) /\ Open(g, Base, round, batch, k + m)
      /\ \A i \in DOMAIN history \ {Base} :
           history[i].calls # {} /\ Whole(history, i) => Whole(g, i)
      /\ k + m = Len(batch) => Whole(g, Base)
  <2>1. Continues(history, g, Base, round, batch, k, m)
    BY <1>2, <1>3, <1>5, <1>6 DEF k, Continues
  <2> QED BY <2>1, ResultsSound DEF HistoryInv
<1>8. \A i \in DOMAIN g : \/ i \in DOMAIN history /\ g[i] = history[i]
                          \/ \E j \in 1..m : g[i] = Tool(Call(round, k + j))
  <2> TAKE i \in DOMAIN g
  <2>1. CASE i \in 1..n
    BY <1>3, <2>1
  <2>2. CASE i \notin 1..n
    <3>1. i - n \in 1..m /\ n + (i - n) = i
      BY <1>2, <1>3, <2>2
    <3> DEFINE j == i - n
    <3>2. j \in 1..m /\ n + j = i
      BY <3>1
    <3> HIDE DEF j
    <3> QED BY <3>2 DEF k
  <2> QED BY <2>1, <2>2
<1>9. \A x : Tool(x).calls = {} /\ Tool(x).role = "tool" /\ Tool(x).answers = x
  BY DEF Tool
<1>10. \A i \in DOMAIN g : g[i].calls # {} =>
         Whole(g, i) \/ g[i].turn \in aborted \/ i = Base
  BY <1>7, <1>8, <1>9 DEF HistoryInv
<1>11. \A i \in Users(g) : g[i].turn <= turn
  BY <1>8, <1>9 DEF Users, HistoryInv
<1>12. \A i \in DOMAIN g :
         \/ \E l \in DOMAIN history : g[i].answers = history[l].answers
         \/ \E l \in idx..(k + m) : g[i].answers = Call(round, l)
  <2>1. \A j \in 1..m : k + j \in idx..(k + m)
    BY <1>2 DEF k
  <2> TAKE i \in DOMAIN g
  <2>2. CASE i \in DOMAIN history /\ g[i] = history[i]
    BY <2>2
  <2>3. CASE \E j \in 1..m : g[i] = Tool(Call(round, k + j))
    <3>1. PICK j \in 1..m : g[i] = Tool(Call(round, k + j))
      BY <2>3
    <3> DEFINE l == k + j
    <3>2. l \in idx..(k + m) /\ g[i] = Tool(Call(round, l))
      BY <2>1, <3>1
    <3> HIDE DEF l
    <3> QED BY <1>9, <3>2
  <2> QED BY <1>8, <2>2, <2>3
<1> QED BY <1>7, <1>10, <1>11, <1>12 DEF Settled, k

\* A result, and the next call or round; or a breaker, stubs and the last message.
LEMMA HistoryResult ==
  ASSUME TypeOK, TypeOK', Started, HistoryInv, NEW err \in BOOLEAN, Returned(err)
  PROVE  HistoryInv'
<1> DEFINE n == Len(history)
<1>1. /\ Running /\ pc # "idle" /\ turn' = turn /\ round' = round /\ aborted' = aborted
      /\ batch \in Batches /\ idx \in DOMAIN batch
  <2>1. Running /\ turn' = turn /\ round' = round /\ aborted' = aborted
    BY DEF Returned, Result, Running
  <2>2. batch \in Batches /\ idx \in DOMAIN batch
    BY <2>1 DEF TypeOK, Running
  <2> QED BY <2>1, <2>2 DEF Running
<1>2. /\ batch \in Seq(Sigs) /\ Len(batch) \in Nat /\ idx \in 1..Len(batch) /\ idx \in Nat
      /\ turn \in 1..MaxTurns /\ round \in 1..MaxToolRounds /\ turn \in Nat /\ round \in Nat
      /\ Len(batch) \in 1..MaxBatch
  <2>1. batch \in Seq(Sigs) /\ Len(batch) \in Nat /\ idx \in 1..Len(batch)
    BY <1>1, BatchSeq
  <2>2. PICK m \in 1..MaxBatch : batch \in [1..m -> Sigs]
    BY <1>1 DEF Batches
  <2>3. Len(batch) = m
    BY <2>1, <2>2, ReactTurnAssumption
  <2> QED BY <1>1, <2>1, <2>3, ReactTurnAssumption DEF TypeOK, Started
<1>3. history \in Seq(Message) /\ history' \in Seq(Message) /\ n \in Nat /\ DOMAIN history = 1..n
  BY DEF TypeOK
<1>4. Tool(This) \in Message /\ This = Call(round, (idx - 1) + 1)
  <2>1. (idx - 1) + 1 = idx /\ idx \in 1..MaxBatch
    BY <1>2, ReactTurnAssumption
  <2> QED BY <1>2, <2>1, CallTypes DEF This
<1>5. CASE ~Trips(err)
  <2>1. /\ history' = Append(history, Tool(This))
        /\ IF idx < Len(batch)
           THEN pc' = "call" /\ idx' = idx + 1 /\ batch' = batch
           ELSE pc' = "round" /\ idx' = 1 /\ batch' = <<>>
    BY <1>5 DEF Returned, Result
  <2>2. /\ Len(history') = n + 1
        /\ \A i \in 1..n : history'[i] = history[i]
        /\ \A j \in 1..1 : history'[n + j] = Tool(Call(round, (idx - 1) + j))
    <3>1. /\ Len(history') = n + 1
          /\ \A i \in 1..n : history'[i] = history[i]
          /\ history'[n + 1] = Tool(This)
      BY <1>3, <1>4, <2>1, AppendProperties
    <3> QED BY <1>4, <3>1
  <2>3. 1 \in 1..(Len(batch) - idx + 1) /\ (idx - 1) + 1 = idx
    BY <1>2
  <2>4. /\ Sound(history') /\ Open(history', Base, round, batch, idx)
        /\ \A i \in DOMAIN history' : history'[i].calls # {} =>
             Whole(history', i) \/ history'[i].turn \in aborted \/ i = Base
        /\ idx = Len(batch) => Settled(history', aborted)
        /\ \A i \in Users(history') : history'[i].turn <= turn
        /\ \A i \in DOMAIN history' :
             \/ \E k \in DOMAIN history : history'[i].answers = history[k].answers
             \/ history'[i].answers = Call(round, idx)
    <3> DEFINE g == history'
               m == (idx - 1) + 1
    <3>1. g \in Seq(Message) /\ 1 \in 1..(Len(batch) - idx + 1)
      BY <1>3, <2>3
    <3>2. /\ Len(g) = Len(history) + 1
          /\ \A i \in 1..Len(history) : g[i] = history[i]
          /\ \A j \in 1..1 : g[Len(history) + j] = Tool(Call(round, (idx - 1) + j))
      BY <2>2
    <3> HIDE DEF g, n
    <3>3. /\ Sound(g) /\ Open(g, Base, round, batch, m)
          /\ \A i \in DOMAIN g : g[i].calls # {} =>
               Whole(g, i) \/ g[i].turn \in aborted \/ i = Base
          /\ m = Len(batch) => Settled(g, aborted)
          /\ \A i \in Users(g) : g[i].turn <= turn
          /\ \A i \in DOMAIN g :
               \/ \E k \in DOMAIN history : g[i].answers = history[k].answers
               \/ \E k \in idx..m : g[i].answers = Call(round, k)
      BY <1>1, <3>1, <3>2, RunningResults
    <3>4. m = idx /\ \A k \in idx..m : k = idx
      BY <1>2
    <3> HIDE DEF m
    <3> QED BY <3>3, <3>4 DEF g
  <2>5. CASE idx < Len(batch)
    <3>1. pc' = "call" /\ idx' = idx + 1 /\ batch' = batch /\ Running'
      BY <2>1, <2>5 DEF Running
    <3>2. Base' = Base /\ idx' - 1 = idx
      BY <1>2, <1>3, <2>2, <3>1 DEF Base
    <3>3. Open(history, Base, round, batch, idx - 1)'
      BY <1>1, <2>4, <3>1, <3>2 DEF Open, Assistant, Tool, CallIds, Call
    <3>4. Fresh'
      <4> SUFFICES ASSUME NEW t \in Nat, NEW r \in Nat, NEW k \in Nat,
                          \/ t > turn'
                          \/ t = turn' /\ pc' # "idle" /\ (r > round' \/ (r = round' /\ Running' /\ k >= idx')),
                          NEW j \in DOMAIN history'
                   PROVE  history'[j].answers # <<t, r, k>>
        BY DEF Fresh
      <4>1. t > turn \/ (t = turn /\ pc # "idle" /\ (r > round \/ (r = round /\ Running /\ k > idx)))
        BY <1>1, <1>2, <3>1
      <4>2. CASE \E l \in DOMAIN history : history'[j].answers = history[l].answers
        BY <1>2, <4>1, <4>2 DEF HistoryInv, Fresh
      <4>3. CASE history'[j].answers = Call(round, idx)
        BY <1>2, <4>1, <4>3 DEF Call
      <4> QED BY <2>4, <4>2, <4>3
    <3> QED BY <1>1, <2>4, <3>1, <3>2, <3>3, <3>4 DEF HistoryInv
  <2>6. CASE ~(idx < Len(batch))
    <3>1. pc' = "round" /\ idx = Len(batch)
      BY <1>2, <2>1, <2>6
    <3>2. \A i \in DOMAIN history' :
            \/ \E k \in DOMAIN history : history'[i].answers = history[k].answers
            \/ history'[i].answers = <<>>
            \/ \E r, k \in Nat : /\ history'[i].answers = Call(r, k)
                                 /\ pc' # "idle" => r <= round
      BY <1>2, <2>4
    <3> QED BY <1>1, <2>4, <3>1, <3>2, HistorySettles DEF Running
  <2> QED BY <2>5, <2>6
<1>6. CASE Trips(err)
  <2> DEFINE one == history \o <<Tool(This)>>
             stubs == Stubs(round, batch, idx + 1)
             g == one \o stubs
             m == Len(batch) - idx + 1
             last == Assistant({})
  <2>1. pc' = "idle" /\ history' = g \o <<last>>
    BY <1>6 DEF Returned, Result, Return
  <2>2. m \in 1..(Len(batch) - idx + 1) /\ m \in Nat /\ (idx - 1) + m = Len(batch)
    BY <1>2
  <2>3. /\ one \in Seq(Message) /\ Len(one) = n + 1 /\ one[n + 1] = Tool(This)
        /\ \A i \in 1..n : one[i] = history[i]
    <3>1. one = Append(history, Tool(This))
      BY <1>3, <1>4, AppendIsConcat
    <3> HIDE DEF one
    <3> QED BY <1>3, <1>4, <3>1, AppendProperties
  <2>4. /\ stubs \in Seq(Message) /\ Len(stubs) = m - 1
        /\ \A j \in 1..(m - 1) : stubs[j] = Tool(Call(round, (idx + 1) + j - 1))
    <3>1. idx + 1 \in 1..(Len(batch) + 1) /\ Len(batch) - (idx + 1) + 1 = m - 1
      BY <1>2
    <3> HIDE DEF m
    <3> QED BY <1>1, <1>2, <3>1, StubTypes
  <2> HIDE DEF one, stubs, m, n
  <2>5. /\ g \in Seq(Message) /\ Len(g) = n + m
        /\ \A i \in 1..n : g[i] = history[i]
        /\ \A j \in 1..m : g[n + j] = Tool(Call(round, (idx - 1) + j))
    <3>1. /\ g \in Seq(Message) /\ Len(g) = (n + 1) + (m - 1)
          /\ \A i \in 1..((n + 1) + (m - 1)) : g[i] = IF i <= n + 1 THEN one[i] ELSE stubs[i - (n + 1)]
      <4>1. /\ g \in Seq(Message) /\ Len(g) = Len(one) + Len(stubs)
            /\ \A i \in 1..(Len(one) + Len(stubs)) :
                 g[i] = IF i <= Len(one) THEN one[i] ELSE stubs[i - Len(one)]
        BY <2>3, <2>4, ConcatProperties
      <4> HIDE DEF g
      <4> QED BY <2>3, <2>4, <4>1
    <3> HIDE DEF g
    <3>2. (n + 1) + (m - 1) = n + m
      BY <1>3, <2>2
    <3>3. \A i \in 1..n : i \in 1..((n + 1) + (m - 1)) /\ i <= n + 1
      BY <1>3, <2>2
    <3>4. ASSUME NEW j \in 1..m PROVE g[n + j] = Tool(Call(round, (idx - 1) + j))
      <4>1. n + j \in 1..((n + 1) + (m - 1))
        BY <1>3, <2>2
      <4>2. CASE j = 1
        BY <1>3, <1>4, <2>3, <3>1, <4>1, <4>2
      <4>3. CASE j # 1
        <5>1. /\ ~(n + j <= n + 1) /\ (n + j) - (n + 1) = j - 1 /\ j - 1 \in 1..(m - 1)
              /\ (idx + 1) + (j - 1) - 1 = (idx - 1) + j
          BY <1>2, <1>3, <2>2, <4>3
        <5>2. g[n + j] = stubs[j - 1]
          BY <3>1, <4>1, <5>1
        <5> QED BY <2>4, <5>1, <5>2
      <4> QED BY <4>2, <4>3
    <3> QED BY <2>3, <3>1, <3>2, <3>3, <3>4
  <2> HIDE DEF g
  <2>6. /\ Sound(g) /\ Settled(g, aborted)
        /\ \A i \in Users(g) : g[i].turn <= turn
        /\ \A i \in DOMAIN g :
             \/ \E k \in DOMAIN history : g[i].answers = history[k].answers
             \/ \E k \in idx..((idx - 1) + m) : g[i].answers = Call(round, k)
    BY <1>1, <2>2, <2>5, RunningResults DEF n
  <2>7. last \in Message /\ last.role = "assistant" /\ last.calls = {} /\ last.answers = <<>>
    BY AssistantTypes DEF TypeOK, Assistant
  <2> HIDE DEF last
  <2>8. history' = Append(g, last)
    BY <2>1, <2>5, <2>7, AppendIsConcat
  <2>9. /\ DOMAIN g = 1..Len(g) /\ Len(g) \in Nat /\ DOMAIN history' = 1..(Len(g) + 1)
        /\ \A i \in 1..Len(g) : history'[i] = g[i]
        /\ history'[Len(g) + 1] = last
        /\ \A i \in 1..(Len(g) + 1) : i \in 1..Len(g) \/ i = Len(g) + 1
    <3>1. /\ Len(history') = Len(g) + 1 /\ Len(g) \in Nat
          /\ DOMAIN g = 1..Len(g) /\ DOMAIN history' = 1..Len(history')
          /\ \A i \in 1..Len(g) : history'[i] = g[i]
          /\ history'[Len(g) + 1] = last
      BY <1>3, <2>5, <2>7, <2>8, AppendProperties
    <3> QED BY <3>1
  <2>10. Sound(history') /\ \A i \in DOMAIN g : Whole(g, i) => Whole(history', i)
    BY <2>5, <2>6, <2>7, <2>8, AppendSound
  <2>11. Settled(history', aborted')
    BY <1>1, <2>6, <2>7, <2>9, <2>10 DEF Settled
  <2>12. \A i \in Users(history') : history'[i].turn <= turn
    BY <2>6, <2>7, <2>9 DEF Users
  <2>13. \A i \in DOMAIN history' :
           \/ \E k \in DOMAIN history : history'[i].answers = history[k].answers
           \/ history'[i].answers = <<>>
           \/ \E r, k \in Nat : /\ history'[i].answers = Call(r, k)
                                /\ pc' # "idle" => r <= round
    <3>1. \A k \in idx..((idx - 1) + m) : k \in Nat
      BY <1>2
    <3> QED BY <1>2, <2>1, <2>6, <2>7, <2>9, <3>1
  <2> QED BY <1>1, <2>1, <2>10, <2>11, <2>12, <2>13, HistorySettles DEF Running
<1> QED BY <1>5, <1>6

\* Every step.
LEMMA HistoryStep ==
  TypeOK /\ TypeOK' /\ Started /\ HistoryInv /\ [Next]_vars => HistoryInv'
<1> SUFFICES ASSUME TypeOK, TypeOK', Started, HistoryInv, [Next]_vars PROVE HistoryInv'
  OBVIOUS
<1> USE DEF Return
<1>1. CASE Prompt
  BY <1>1, HistoryPrompt
<1>2. CASE \E err \in BOOLEAN : Returned(err)
  BY <1>2, HistoryResult
<1>3. CASE PayloadTooLarge \/ ModelRefused \/ ModelCancelled \/ AnswersText
  BY <1>3, HistoryNoCalls
<1>4. CASE AnswersBleedWithCalls
  BY <1>4, HistoryBleed
<1>5. CASE AnswersCalls
  BY <1>5, HistoryCalls
<1>6. CASE Cancel
  BY <1>6, HistoryStays DEF Cancel, loopVars, Running
<1>7. CASE RoundsExceeded
  BY <1>7, HistoryStays DEF RoundsExceeded, loopVars, Running
<1>8. CASE Connects
  BY <1>8, HistoryStays DEF Connects, Running
<1>9. CASE SendCall
  BY <1>9, HistoryStays DEF SendCall, loopVars, Running
<1>10. CASE CallCancelled
  BY <1>10, HistoryStays DEF CallCancelled, loopVars, Running
<1>11. CASE UNCHANGED vars
  BY <1>11, HistoryStays DEF vars, loopVars, Running
<1> QED BY Steps, <1>1, <1>2, <1>3, <1>4, <1>5, <1>6, <1>7, <1>8, <1>9, <1>10, <1>11

\* The invariant holds in every behaviour.
LEMMA HistoryHolds == Spec => []HistoryInv
<1>1. Init => HistoryInv
  <2> SUFFICES ASSUME Init PROVE HistoryInv
    OBVIOUS
  <2>1. history = <<>> \/ history = <<System>>
    BY DEF Init
  <2>2. pc = "idle" /\ turn = 0
    BY DEF Init
  <2>3. \A i \in DOMAIN history : i = 1 /\ history[i] = System
    BY <2>1
  <2>4. System.role = "system" /\ System.calls = {} /\ System.answers = <<>>
    BY DEF System
  <2> QED BY <2>2, <2>3, <2>4
          DEF HistoryInv, Sound, Shaped, Ordered, Paired, Users, Fresh, Running
<1> QED BY <1>1, HistoryStep, TypeOKHolds, PTL DEF Spec

\* Whichever way a turn ends, each call of the history has its result right after the
\* message that makes it, in a session of any length; only the last batch of a
\* cancelled turn is left open.
THEOREM EveryCallAnswered == Spec => []CallsAnswered
<1>1. TypeOK /\ HistoryInv => CallsAnswered
  <2> SUFFICES ASSUME TypeOK, HistoryInv, pc = "idle",
                      NEW i \in DOMAIN history, history[i].calls # {},
                      history[i].turn \notin aborted
               PROVE  history[i].calls = AnsweredAt(i)
    BY DEF CallsAnswered
  <2>1. Whole(history, i)
    BY DEF HistoryInv, Running
  <2> QED BY <2>1 DEF Whole, AnsweredAt, ToolsFrom
<1> QED BY <1>1, HistoryHolds, TypeOKHolds, PTL

\* Pruning never parts a result from its call, and no call is answered twice, whatever
\* the limits and however long the session.
THEOREM NoStrayResults == Spec => []ResultsHaveCalls
<1>1. HistoryInv => ResultsHaveCalls
  BY DEF HistoryInv, Sound, Paired, ResultsHaveCalls, ToolsFrom
<1> QED BY <1>1, HistoryHolds, PTL

-----------------------------------------------------------------------------
(* What a step keeps of the history.                                       *)

\* The messages of g are still in h.
Keeps(g, h) == \A i \in DOMAIN g : \E j \in DOMAIN h : h[j] = g[i]

\* A longer history keeps the shorter,
LEMMA AppendKeeps ==
  ASSUME NEW M, NEW g \in Seq(M), NEW m \in M
  PROVE  Keeps(g, Append(g, m))
<1>1. \A i \in DOMAIN g : i \in DOMAIN Append(g, m) /\ Append(g, m)[i] = g[i]
  OBVIOUS
<1> QED BY <1>1 DEF Keeps

\* whatever is added.
LEMMA ConcatKeeps ==
  ASSUME NEW M, NEW g \in Seq(M), NEW s \in Seq(M)
  PROVE  g \o s \in Seq(M) /\ Keeps(g, g \o s)
<1>1. /\ g \o s \in Seq(M) /\ Len(g \o s) = Len(g) + Len(s)
      /\ \A i \in 1..(Len(g) + Len(s)) : (g \o s)[i] = IF i <= Len(g) THEN g[i] ELSE s[i - Len(g)]
  BY ConcatProperties
<1>2. Len(g) \in Nat /\ Len(s) \in Nat /\ DOMAIN g = 1..Len(g)
  OBVIOUS
<1> DEFINE h == g \o s
<1>3. DOMAIN h = 1..Len(h)
  BY <1>1
<1> HIDE DEF h
<1>4. \A i \in DOMAIN g : i \in DOMAIN h /\ h[i] = g[i]
  BY <1>1, <1>2, <1>3 DEF h
<1> QED BY <1>1, <1>4 DEF Keeps, h

\* Pruning keeps the system message and all from the prompt being answered on: the
\* message is before the cut, or the cut is not past the last prompt.
LEMMA PrunedKeeps ==
  ASSUME TypeOK, HistoryInv, NEW i \in DOMAIN history, Kept(i)
  PROVE  \E j \in DOMAIN Pruned(history) : Pruned(history)[j] = history[i]
<1> DEFINE h == history
           g == Pruned(history)
<1>1. h \in Seq(Message)
  BY DEF TypeOK
<1>2. CASE g = h
  BY <1>2
<1>3. CASE g # h
  <2>1. PICK a, c \in 1..Len(h) : CutAt(h, g, a, c)
    BY <1>1, <1>3, PruneCuts
  <2>2. /\ a \in 1..Len(h) /\ c \in 1..Len(h) /\ a < c /\ Len(h) \in Nat
        /\ DOMAIN h = 1..Len(h) /\ Len(g) = Len(h) - (c - a) /\ DOMAIN g = 1..Len(g)
        /\ h[a].role # "system"
    BY <1>1, <2>1 DEF CutAt
  <2> HIDE DEF g
  <2>3. CASE history[i] = System
    <3>1. h[i].role = "system" /\ i = 1
      BY <2>3 DEF HistoryInv, Sound, Shaped, System
    <3>2. i \in 1..(a - 1)
      <4>1. i # a
        BY <2>2, <3>1
      <4> HIDE DEF h
      <4> QED BY <2>2, <3>1, <4>1
    <3>3. i \in DOMAIN g
      BY <2>2, <3>2
    <3> QED BY <2>1, <3>2, <3>3 DEF CutAt, g
  <2>4. CASE \E u \in 1..i : history[u].role = "user" /\ history[u].turn = turn
    <3>1. PICK u \in 1..i : h[u].role = "user" /\ h[u].turn = turn
      BY <2>4
    <3>2. u \in Users(h) /\ u \in Nat
      BY <2>2, <3>1 DEF Users
    <3>3. \A v \in Users(h) : v <= u
      <4> TAKE v \in Users(h)
      <4>1. v \in Nat /\ h[v].turn \in Nat /\ h[v].turn <= turn /\ turn \in Nat
        BY <2>2, MessageTurns DEF HistoryInv, Users
      <4>2. u < v => h[u].turn < h[v].turn
        BY <3>2 DEF HistoryInv, Sound, Ordered
      <4> HIDE DEF h
      <4> QED BY <3>1, <3>2, <4>1, <4>2
    <3>4. c <= u
      BY <2>1, <3>2, <3>3 DEF CutAt
    <3> DEFINE j == i - (c - a)
    <3>5. j \in a..Len(g) /\ j \in DOMAIN g /\ j + (c - a) = i
      <4> HIDE DEF h
      <4>1. i \in 1..Len(h)
        BY <2>2 DEF h
      <4> QED BY <2>2, <3>1, <3>4, <4>1
    <3> HIDE DEF j
    <3>6. g[j] = h[j + (c - a)]
      BY <2>1, <3>5 DEF CutAt
    <3> QED BY <3>5, <3>6 DEF g
  <2> QED BY <2>3, <2>4 DEF Kept
<1> QED BY <1>2, <1>3

\* A step of a turn that does not add to the history keeps all of it, or of what is
\* left of it when it is pruned.
LEMMA KeepsStep ==
  ASSUME TypeOK, TypeOK', Started, [Next]_vars, turn' = turn
  PROVE  Keeps(history, history') \/ Keeps(Pruned(history), history')
<1> USE DEF loopVars
<1>1. history \in Seq(Message) /\ Pruned(history) \in Seq(Message)
  BY PruneCuts DEF TypeOK
<1>2. CASE history' = history
  BY <1>2 DEF Keeps
<1>3. CASE history' = Pruned(history)
  BY <1>3 DEF Keeps
<1>4. CASE \E calls : calls \subseteq CallId /\ history' = Append(Pruned(history), Assistant(calls))
  <2>1. PICK calls : calls \subseteq CallId /\ history' = Append(Pruned(history), Assistant(calls))
    BY <1>4
  <2>2. Assistant(calls) \in Message
    BY <2>1, AssistantTypes DEF TypeOK
  <2> QED BY <1>1, <2>1, <2>2, AppendKeeps
<1>5. CASE AnswersText
  <2>1. {} \subseteq CallId
    OBVIOUS
  <2> QED BY <1>4, <1>5, <2>1 DEF AnswersText, Answers
<1>6. ASSUME pc = "round", round < MaxToolRounds, NEW calls \in Batches
      PROVE  /\ turn \in 1..MaxTurns /\ round + 1 \in 1..MaxToolRounds
             /\ CallIds(round + 1, calls) \subseteq CallId
  <2>1. turn \in 1..MaxTurns /\ round + 1 \in 1..MaxToolRounds
    BY <1>6, ReactTurnAssumption DEF TypeOK, Started
  <2> QED BY <2>1, CallTypes
<1>7. CASE AnswersCalls
  BY <1>4, <1>6, <1>7 DEF AnswersCalls, Answers, ModelCalled, StartsRound
<1>8. CASE AnswersBleedWithCalls
  <2>1. PICK calls \in Batches :
          /\ pc = "round" /\ round < MaxToolRounds
          /\ history' = Append(Pruned(history), Assistant(CallIds(round + 1, calls)))
                          \o Stubs(round + 1, calls, 1)
    BY <1>8 DEF AnswersBleedWithCalls, ModelCalled, StartsRound
  <2> DEFINE m == Assistant(CallIds(round + 1, calls))
             stubs == Stubs(round + 1, calls, 1)
             p == Pruned(history)
             g == Append(p, m)
  <2>2. m \in Message
    BY <1>6, <2>1, AssistantTypes DEF TypeOK
  <2>3. stubs \in Seq(Message)
    <3>1. 1 \in 1..(Len(calls) + 1)
      BY BatchSeq
    <3> QED BY <1>6, <2>1, <3>1, StubTypes
  <2>4. p \in Seq(Message) /\ history' = g \o stubs
    BY <1>1, <2>1
  <2> HIDE DEF m, stubs, p
  <2>5. g \in Seq(Message) /\ Keeps(p, g)
    BY <2>2, <2>4, AppendKeeps
  <2> HIDE DEF g
  <2>6. Keeps(g, g \o stubs)
    BY <2>3, <2>5, ConcatKeeps
  <2> QED BY <2>4, <2>5, <2>6 DEF Keeps, p
<1>9. CASE \E err \in BOOLEAN : Returned(err)
  <2>1. PICK err \in BOOLEAN : Returned(err)
    BY <1>9
  <2>2. /\ pc \in {"call", "await"} /\ batch \in Batches /\ idx \in 1..Len(batch)
        /\ Len(batch) \in 1..MaxBatch /\ turn \in 1..MaxTurns /\ round \in 1..MaxToolRounds
    <3>1. pc \in {"call", "await"}
      BY <2>1 DEF Returned
    <3>2. batch \in Batches
      BY <3>1 DEF TypeOK
    <3>3. PICK m \in 1..MaxBatch : batch \in [1..m -> Sigs]
      BY <3>2 DEF Batches
    <3> QED BY <3>1, <3>2, <3>3, BatchSeq, ReactTurnAssumption DEF TypeOK, Started, Running
  <2>3. Tool(This) \in Message
    BY <2>2, CallTypes, ReactTurnAssumption DEF This
  <2>4. CASE history' = Append(history, Tool(This))
    BY <1>1, <2>3, <2>4, AppendKeeps
  <2>5. CASE history' = (history \o <<Tool(This)>>) \o Stubs(round, batch, idx + 1)
                                 \o <<Assistant({})>>
    <3> DEFINE x == history \o <<Tool(This)>>
               stubs == Stubs(round, batch, idx + 1)
               y == x \o stubs
               s == <<Tool(This)>>
               z == <<Assistant({})>>
    <3>1. stubs \in Seq(Message)
      <4>1. idx + 1 \in 1..(Len(batch) + 1)
        BY <2>2
      <4> QED BY <2>2, <4>1, StubTypes
    <3>2. s \in Seq(Message) /\ z \in Seq(Message)
      BY <2>3, AssistantTypes DEF TypeOK
    <3>3. x = history \o s /\ history' = y \o z
      BY <2>5
    <3> HIDE DEF s, z, stubs
    <3>4. x \in Seq(Message) /\ Keeps(history, x)
      BY <1>1, <3>2, ConcatKeeps DEF s
    <3> HIDE DEF x
    <3>5. y \in Seq(Message) /\ Keeps(x, y)
      BY <3>1, <3>4, ConcatKeeps
    <3> HIDE DEF y
    <3>6. Keeps(y, history')
      BY <3>2, <3>3, <3>5, ConcatKeeps
    <3>7. Keeps(history, y)
      BY <3>4, <3>5 DEF Keeps
    <3>8. Keeps(history, history')
      BY <3>6, <3>7 DEF Keeps
    <3> QED BY <3>8
  <2> QED BY <2>1, <2>4, <2>5 DEF Returned, Result
<1>10. CASE Prompt
  BY <1>10, MessageTurns DEF Prompt
<1>11. CASE Cancel \/ RoundsExceeded \/ Connects \/ SendCall \/ CallCancelled \/ UNCHANGED vars
  BY <1>2, <1>11 DEF Cancel, RoundsExceeded, Connects, SendCall, CallCancelled, vars
<1>12. CASE PayloadTooLarge \/ ModelRefused \/ ModelCancelled
  BY <1>3, <1>12 DEF PayloadTooLarge, ModelRefused, ModelCancelled
<1> QED BY Steps, <1>5, <1>7, <1>8, <1>9, <1>10, <1>11, <1>12

\* However long the session and wherever it is pruned, no step of a turn loses the
\* system message, the prompt being answered or anything after it.
THEOREM PromptSurvives == Spec => PromptKept
<1>1. TypeOK /\ TypeOK' /\ Started /\ HistoryInv /\ [Next]_vars =>
        [turn' = turn =>
           \A i \in DOMAIN history : Kept(i) => history[i] \in Range(history')]_vars
  <2> SUFFICES ASSUME TypeOK, TypeOK', Started, HistoryInv, [Next]_vars, turn' = turn,
                      NEW i \in DOMAIN history, Kept(i)
               PROVE  history[i] \in Range(history')
    OBVIOUS
  <2>1. \E j \in DOMAIN history' : history'[j] = history[i]
    BY KeepsStep, PrunedKeeps DEF Keeps
  <2> QED BY <2>1 DEF Range
<1> QED BY <1>1, HistoryHolds, TypeOKHolds, PTL DEF Spec, PromptKept
=============================================================================
