--------------------------- MODULE CapabilityProofs ---------------------------
(***************************************************************************)
(* Theorems about Capability, for any sessions, model ids, environments,     *)
(* tool arrays and any number of warm-ups, failed saves and restarts.        *)
(***************************************************************************)
EXTENDS Capability, TLAPS

-----------------------------------------------------------------------------
(* Operators.                                                              *)

\* normalize_model_id identifies exactly the spellings of one model.
LEMMA NormalizeExact ==
  ASSUME NEW a \in Ids, NEW b \in Ids
  PROVE  Normalize(a) = Normalize(b) <=> SameModel(a, b)
<1> DEFINE Full == [base : STRING, tag : {"", ":latest"}, digest : {"", "sha256", "rev"}]
<1>1. a \in Full /\ b \in Full
  BY CapabilityAssumption
<1>2. ASSUME NEW x \in Full
      PROVE  Normalize(x) = [base |-> x.base,
                             tag |-> IF x.digest = "rev" THEN x.tag ELSE "",
                             digest |-> IF x.digest = "rev" THEN "rev" ELSE ""]
  BY DEF Normalize
<1> DEFINE N(x) == [base |-> x.base,
                    tag |-> IF x.digest = "rev" THEN x.tag ELSE "",
                    digest |-> IF x.digest = "rev" THEN "rev" ELSE ""]
<1>3. Normalize(a) = N(a) /\ Normalize(b) = N(b)
  BY <1>1, <1>2
<1>4. N(a) = N(b) <=> /\ N(a).base = N(b).base
                      /\ N(a).tag = N(b).tag
                      /\ N(a).digest = N(b).digest
  OBVIOUS
<1> QED BY <1>3, <1>4 DEF SameModel

\* A model is the same as itself.
LEMMA SameSelf ==
  ASSUME NEW a
  PROVE  SameModel(a, a)
BY DEF SameModel

\* Whatever the backend does, a warm-up ends with a tier.
LEMMA ResultTiers ==
  ASSUME NEW id, NEW result \in WarmupResults(id)
  PROVE  result.tier \in Tiers
<1>1. ASSUME NEW reply PROVE ProbeTier(reply) \in Tiers
  BY DEF ProbeTier, FailOpen, Tiers
<1>2. ASSUME NEW t PROVE Failed(t).tier = t
  BY DEF Failed
<1>3. CASE result \in SendFailures \cup BodyFailures \cup ErrorAnswers
  BY <1>2, <1>3 DEF SendFailures, BodyFailures, ErrorAnswers, Tiers
<1>4. CASE \E reply \in ProbeAnswers : result = Loaded(id, reply)
  <2>1. PICK reply : result = Loaded(id, reply)
    BY <1>4
  <2>2. result.tier = ProbeTier(reply)
    BY <2>1, <1>2 DEF Loaded
  <2> QED BY <1>1, <2>2
<1> QED BY <1>3, <1>4 DEF WarmupResults

\* A granted tier is the recorded one, and the record is of that model.
LEMMA Grant ==
  ASSUME NEW record \in Record, NEW model \in Ids, record.model # NoId,
         ResolveTier(record, model) # "none"
  PROVE  ResolveTier(record, model) = record.tier /\ SameModel(record.model, model)
<1>1. record.model \in Ids
  BY DEF Record, Given
<1> QED BY <1>1, NormalizeExact DEF ResolveTier

\* A refused one: another model, or no tools to grant.
LEMMA Refuse ==
  ASSUME NEW record \in Record, NEW model \in Ids,
         ResolveTier(record, model) = "none"
  PROVE  \/ record.model = NoId
         \/ record.tier = "none"
         \/ ~SameModel(record.model, model)
<1>1. record.model \in Ids \/ record.model = NoId
  BY DEF Record, Given
<1> QED BY <1>1, NormalizeExact DEF ResolveTier

\* Ceilings cut, and leave something.
LEMMA CeilingsKeepOne ==
  ASSUME NEW st \in Session, NEW offered \in Nat
  PROVE  /\ ToolsFor(st, offered) \in 0..offered
         /\ (offered > 0 /\ EffectiveTier(st) # "none") => ToolsFor(st, offered) > 0
         /\ ModelOf(st) \in Fragile => ToolsFor(st, offered) <= FamilyCeiling
         /\ st.learned > 0 => ToolsFor(st, offered) <= st.learned
<1>1. st.learned \in Nat
  BY DEF Session
<1>2. FamilyCeiling \in Nat \ {0}
  BY CapabilityAssumption
<1> DEFINE f == FamilyCap(st, offered)
<1>3. /\ f \in 0..offered /\ (offered > 0 => f > 0)
      /\ ModelOf(st) \in Fragile => f <= FamilyCeiling
  BY <1>2 DEF FamilyCap, Enforced, RecommendedCeiling, Recognised, Least
<1> HIDE DEF f
<1>4. /\ LearnedCap(st, f) \in 0..f /\ (f > 0 => LearnedCap(st, f) > 0)
      /\ st.learned > 0 => LearnedCap(st, f) <= st.learned
  BY <1>1, <1>3 DEF LearnedCap, Enforced, Least
<1>5. ToolsFor(st, offered) = IF EffectiveTier(st) = "none" THEN 0 ELSE LearnedCap(st, f)
  BY DEF ToolsFor, f
<1> QED BY <1>1, <1>2, <1>3, <1>4, <1>5

\* The tier a prompt runs with is a tier.
LEMMA EffectiveTiers ==
  ASSUME NEW st \in Session
  PROVE  EffectiveTier(st) \in Tiers
BY DEF EffectiveTier, Session

-----------------------------------------------------------------------------
(* Types.                                                                  *)

SentTypes == [session : {{}} \cup {{s} : s \in Sid}, model : Given, tier : Tiers,
              offered : Nat, tools : Nat, names : Nat, learned : Nat, shown : Nat,
              pictures : Nat]

\* The empty states have the types.
LEMMA Blank ==
  /\ Gone \in Session /\ [Gone EXCEPT !.live = TRUE] \in Session
  /\ Unwarmed \in Record /\ Nothing \in SentTypes
BY DEF Gone, Session, Unwarmed, Record, Nothing, SentTypes, Given, Tiers

\* The model a session's requests name is one of the ids.
LEMMA ModelTypes ==
  ASSUME NEW st \in Session, client \in Ids
  PROVE  ModelOf(st) \in Ids
BY DEF ModelOf, Session, Given

\* What a prompt sends.
LEMMA RequestTypes ==
  ASSUME NEW s \in Sid, NEW st \in Session, NEW offered \in Nat,
         NEW shown \in {0, 1}, client \in Ids
  PROVE  /\ Request(s, offered, shown, st) \in SentTypes
         /\ NamesFor(st, offered) = ToolsFor(st, offered)
<1>1. ToolsFor(st, offered) \in 0..offered
  BY CeilingsKeepOne
<1>2. EffectiveTier(st) = "none" => ToolsFor(st, offered) = 0
  BY DEF ToolsFor
<1>3. NamesFor(st, offered) = ToolsFor(st, offered)
  BY <1>1, <1>2 DEF NamesFor, Mandate
<1>4. EffectiveTier(st) \in Tiers /\ ModelOf(st) \in Given
  BY EffectiveTiers, ModelTypes DEF Given
<1>5. HistoryPictures(st) + Pictures(shown) \in Nat
  BY DEF HistoryPictures, Pictures
<1>6. st.learned \in Nat
  BY DEF Session
<1> QED BY <1>1, <1>3, <1>4, <1>5, <1>6 DEF Request, SentTypes

\* Saving keeps the types of the files.
LEMMA SaveTypes ==
  ASSUME NEW s \in Sid, Save(s), session' \in [Sid -> Session],
         stored \in [Sid -> Session], unsaved \in Nat
  PROVE  stored' \in [Sid -> Session] /\ unsaved' \in Nat
BY DEF Save

\* The same of a warm-up's record.
LEMMA FoundTypes ==
  ASSUME TypeOK, NEW id \in Ids, NEW result, result.tier \in Tiers, Found(id, result)
  PROVE  /\ warmups' \in Nat /\ verdict' \in Record
         /\ earned' \subseteq (Ids \X Tiers)
         /\ [model |-> id, tier |-> result.tier] \in Record
BY DEF TypeOK, Found, Record, Given

\* What a prompt does, for the tier it runs with and the ceiling it learns.
PromptBy(s, offered, shown, tier, learned) ==
  LET st == [session[s] EXCEPT !.tier = tier] IN
    /\ IF NeedsProbe(s, offered)
       THEN /\ warmed' = [model |-> ModelOf(st), tier |-> tier]
            /\ since' = {s}
            /\ Found(ModelOf(st), [tier |-> tier])
       ELSE /\ tier = session[s].tier
            /\ UNCHANGED <<warmed, since, verdict, earned, warmups>>
    /\ sent' = Request(s, offered, shown, st)
    /\ session' = [session EXCEPT ![s] =
         [st EXCEPT !.learned = learned, !.pictures = sent'.pictures]]

\* A prompt is PromptBy with some tier and some count of learned pictures.
LEMMA PromptCases ==
  ASSUME TypeOK, NEW s \in Sid, NEW offered \in Offers, NEW shown \in {0, 1},
         Prompt(s, offered, shown)
  PROVE  \E tier \in Tiers, learned \in Nat :
           /\ [session[s] EXCEPT !.tier = tier] \in Session
           /\ Request(s, offered, shown, [session[s] EXCEPT !.tier = tier]) \in SentTypes
           /\ PromptBy(s, offered, shown, tier, learned)
<1>1. PICK result \in IF NeedsProbe(s, offered) THEN WarmupResults(ModelOf(session[s]))
                      ELSE {[tier |-> session[s].tier]} :
       LET st == [session[s] EXCEPT !.tier = result.tier]
           request == Request(s, offered, shown, st)
       IN  /\ IF NeedsProbe(s, offered)
              THEN /\ warmed' = [model |-> ModelOf(st), tier |-> result.tier]
                   /\ since' = {s}
                   /\ Found(ModelOf(st), result)
              ELSE UNCHANGED <<warmed, since, verdict, earned, warmups>>
           /\ sent' = request
           /\ \E learned \in {st.learned} \cup 1..(request.tools - 1) :
                session' = [session EXCEPT ![s] =
                  [st EXCEPT !.learned = learned, !.pictures = request.pictures]]
  BY DEF Prompt
<1> DEFINE st == [session[s] EXCEPT !.tier = result.tier]
           request == Request(s, offered, shown, st)
<1>2. session[s] \in Session /\ client \in Ids /\ offered \in Nat
  BY CapabilityAssumption DEF TypeOK
<1>3. result.tier \in Tiers
  BY <1>1, <1>2, ResultTiers DEF Session
<1>4. st \in Session
  BY <1>2, <1>3 DEF Session
<1>5. request \in SentTypes
  BY <1>2, <1>4, RequestTypes
<1>6. PICK learned \in {st.learned} \cup 1..(request.tools - 1) :
        session' = [session EXCEPT ![s] =
          [st EXCEPT !.learned = learned, !.pictures = request.pictures]]
  BY <1>1
<1>7. learned \in Nat
  BY <1>4, <1>6 DEF Session
<1>8. ~NeedsProbe(s, offered) => result.tier = session[s].tier
  BY <1>1
<1>9. Found(ModelOf(st), result) => Found(ModelOf(st), [tier |-> result.tier])
  BY DEF Found
<1>10. PromptBy(s, offered, shown, result.tier, learned)
  BY <1>1, <1>6, <1>8, <1>9 DEF PromptBy
<1> QED BY <1>3, <1>4, <1>5, <1>7, <1>10

\* A prompt keeps the types.
LEMMA PromptTypes ==
  ASSUME TypeOK, NEW s \in Sid, NEW offered \in Offers, NEW shown \in {0, 1},
         Prompt(s, offered, shown)
  PROVE  TypeOK'
<1>1. PICK tier \in Tiers, learned \in Nat :
           /\ [session[s] EXCEPT !.tier = tier] \in Session
           /\ Request(s, offered, shown, [session[s] EXCEPT !.tier = tier]) \in SentTypes
           /\ PromptBy(s, offered, shown, tier, learned)
  BY PromptCases
<1> DEFINE st == [session[s] EXCEPT !.tier = tier]
<1>2. session \in [Sid -> Session] /\ client \in Ids /\ st \in Session
  BY <1>1 DEF TypeOK
<1>3. sent' \in SentTypes
  BY <1>1 DEF PromptBy
<1>4. [st EXCEPT !.learned = learned, !.pictures = sent'.pictures] \in Session
  BY <1>2, <1>3 DEF Session, SentTypes
<1>5. session' \in [Sid -> Session]
  BY <1>1, <1>2, <1>4 DEF PromptBy
<1>6. stored' \in [Sid -> Session] /\ unsaved' \in Nat
  BY <1>5, SaveTypes DEF Prompt, TypeOK
<1>7. /\ warmed' \in Record /\ verdict' \in Record /\ warmups' \in Nat
      /\ earned' \subseteq (Ids \X Tiers) /\ since' \subseteq Sid
  <2>1. CASE NeedsProbe(s, offered)
    <3>1. ModelOf(st) \in Ids
      BY <1>2, ModelTypes
    <3> QED BY <1>1, <2>1, <3>1, FoundTypes DEF PromptBy
  <2>2. CASE ~NeedsProbe(s, offered)
    BY <1>1, <2>2 DEF PromptBy, TypeOK
  <2> QED BY <2>1, <2>2
<1>8. client' \in Ids /\ env' \in Environments /\ starts' \in Nat
  BY DEF Prompt, TypeOK
<1> QED BY <1>3, <1>5, <1>6, <1>7, <1>8 DEF TypeOK, SentTypes

\* Types are kept by every step.
LEMMA TypeStep ==
  ASSUME TypeOK, [Next]_vars
  PROVE  TypeOK'
<1> USE Blank
<1>1. ASSUME NEW meta \in Blocks, NEW context \in Blocks, Initialize(meta, context)
      PROVE  TypeOK'
  <2>1. LocalLlm(meta, context) \ {NoId} \subseteq Ids
    BY DEF LocalLlm, Blocks, Given
  <2> QED BY <1>1, <2>1 DEF Initialize, TypeOK, counters, SentTypes
<1>2. ASSUME NEW s \in Sid, SessionNew(s) PROVE TypeOK'
  BY <1>2 DEF SessionNew, TypeOK, counters, SentTypes
<1>3. ASSUME NEW s \in Sid, SessionLoad(s) PROVE TypeOK'
  BY <1>3 DEF SessionLoad, TypeOK, counters, SentTypes
<1>4. ASSUME NEW s \in Sid, NEW model \in Ids, SetConfigOption(s, model) PROVE TypeOK'
  <2>1. session[s] \in Session /\ warmed.tier \in Tiers
    BY DEF TypeOK, Record
  <2>2. ResolveTier(warmed, model) \in Tiers
    BY <2>1 DEF ResolveTier, Tiers
  <2>3. [session[s] EXCEPT !.model = model, !.tier = ResolveTier(warmed, model)] \in Session
    BY <2>1, <2>2 DEF Session, Given
  <2>4. session' = [session EXCEPT ![s] =
          [session[s] EXCEPT !.model = model, !.tier = ResolveTier(warmed, model)]]
    BY <1>4 DEF SetConfigOption, TypeOK
  <2>5. session' \in [Sid -> Session]
    BY <2>3, <2>4 DEF TypeOK
  <2>6. stored' \in [Sid -> Session] /\ unsaved' \in Nat
    BY <1>4, <2>5, SaveTypes DEF SetConfigOption, TypeOK
  <2> QED BY <1>4, <2>5, <2>6 DEF SetConfigOption, TypeOK, SentTypes
<1>5. ASSUME NEW model \in Given, Warmup(model) PROVE TypeOK'
  <2>1. client' \in Ids
    BY <1>5 DEF Warmup, Given, TypeOK
  <2>2. PICK result \in WarmupResults(client') :
          /\ warmed' = [model |-> client', tier |-> result.tier]
          /\ Found(client', result)
    BY <1>5 DEF Warmup
  <2>3. result.tier \in Tiers
    BY ResultTiers
  <2>4. /\ warmups' \in Nat /\ verdict' \in Record /\ warmed' \in Record
        /\ earned' \subseteq (Ids \X Tiers)
    BY <2>1, <2>2, <2>3, FoundTypes
  <2> QED BY <1>5, <2>1, <2>4 DEF Warmup, TypeOK, SentTypes
<1>6. ASSUME NEW s \in Sid, NEW offered \in Offers, NEW shown \in {0, 1},
             Prompt(s, offered, shown)
      PROVE  TypeOK'
  BY <1>6, PromptTypes
<1>7. CASE Restart
  BY <1>7 DEF Restart, TypeOK, SentTypes
<1>8. CASE UNCHANGED vars
  BY <1>8 DEF vars, counters, TypeOK
<1> QED BY <1>1, <1>2, <1>3, <1>4, <1>5, <1>6, <1>7, <1>8 DEF Next

-----------------------------------------------------------------------------
(* The inductive invariant.                                                *)

\* The record is the last verdict, and a verdict with tools was earned.
RecordInv ==
  /\ warmed = verdict
  /\ verdict.model = NoId => verdict.tier = "none"
  /\ verdict.tier # "none" => <<verdict.model, verdict.tier>> \in earned

\* A session given its tier since that verdict is live, and has no tools only
\* for lack of a verdict on its model that grants some.
SinceInv ==
  \A s \in since :
    /\ session[s].live
    /\ session[s].tier = "none" =>
         \/ verdict.tier = "none"
         \/ session[s].model # NoId /\ ~SameModel(verdict.model, session[s].model)

SentInv == StripExplained /\ SurfaceBounded /\ PicturesReadable

IInv == TypeOK /\ RecordInv /\ TierEarned /\ SinceInv /\ SentInv

\* The request of a step that sends none.
LEMMA NothingFields ==
  /\ Nothing.session = {} /\ Nothing.offered = 0 /\ Nothing.tools = 0
  /\ Nothing.names = 0 /\ Nothing.learned = 0 /\ Nothing.shown = 0 /\ Nothing.pictures = 0
  /\ FamilyCeiling \in Nat
BY CapabilityAssumption DEF Nothing

\* The initial state satisfies the inductive invariant.
LEMMA InitInv == Init => IInv
<1> SUFFICES ASSUME Init PROVE IInv
  OBVIOUS
<1>1. TypeOK
  BY Blank DEF Init, TypeOK, SentTypes
<1>2. RecordInv /\ SinceInv
  BY DEF Init, RecordInv, SinceInv, Unwarmed
<1>3. TierEarned
  BY DEF Init, TierEarned, Earned, Gone
<1>4. SentInv
  BY NothingFields DEF Init, SentInv, StripExplained, SurfaceBounded, PicturesReadable
<1> QED BY <1>1, <1>2, <1>3, <1>4 DEF IInv

\* Tiers earned stay earned.
LEMMA EarnedGrows ==
  ASSUME NEW st, Earned(st), earned \subseteq earned'
  PROVE  Earned(st)'
BY DEF Earned

\* Saving keeps what files hold earned.
LEMMA SaveEarned ==
  ASSUME NEW s \in Sid, Save(s), stored \in [Sid -> Session],
         \A t \in Sid : Earned(session[t])' /\ Earned(stored[t]),
         earned \subseteq earned'
  PROVE  TierEarned'
<1>1. ASSUME NEW t \in Sid PROVE Earned(stored[t])'
  <2>1. stored'[t] = stored[t] \/ stored'[t] = session'[t]
    BY DEF Save
  <2> QED BY <2>1 DEF Earned
<1> QED BY <1>1 DEF TierEarned

\* A request that is none breaks nothing.
LEMMA QuietSent == ASSUME sent' = Nothing PROVE SentInv'
BY NothingFields DEF SentInv, StripExplained, SurfaceBounded, PicturesReadable

\* A configuration step.
LEMMA SetConfigInv ==
  ASSUME IInv, TypeOK', NEW s \in Sid, NEW model \in Ids, SetConfigOption(s, model)
  PROVE  RecordInv' /\ TierEarned' /\ SinceInv' /\ SentInv'
<1>1. /\ session \in [Sid -> Session] /\ session' \in [Sid -> Session]
      /\ stored \in [Sid -> Session] /\ warmed \in Record
  BY DEF IInv, TypeOK
<1>2. /\ \A t \in Sid : t # s => session'[t] = session[t]
      /\ session'[s].model = model /\ session'[s].tier = ResolveTier(warmed, model)
      /\ session'[s].live
      /\ since' = since \cup {s}
      /\ UNCHANGED <<warmed, verdict, earned>>
  BY <1>1 DEF SetConfigOption, Session
<1>3. RecordInv'
  BY <1>2 DEF IInv, RecordInv
<1>4. Earned(session[s])'
  <2>1. CASE ResolveTier(warmed, model) = "none"
    BY <1>2, <2>1 DEF Earned
  <2>2. CASE ResolveTier(warmed, model) # "none"
    <3>1. warmed.model # NoId
      BY <2>2 DEF ResolveTier
    <3>2. session'[s].tier = verdict.tier /\ SameModel(verdict.model, model)
      BY <1>1, <1>2, <2>2, <3>1, Grant DEF IInv, RecordInv
    <3>3. <<verdict.model, verdict.tier>> \in earned'
      BY <1>2, <2>2, <3>2 DEF IInv, RecordInv
    <3> QED BY <1>2, <3>2, <3>3 DEF Earned
  <2> QED BY <2>1, <2>2
<1>5. \A t \in Sid : Earned(session[t])' /\ Earned(stored[t])
  BY <1>2, <1>4 DEF IInv, TierEarned, Earned
<1>6. TierEarned'
  BY <1>1, <1>2, <1>5, SaveEarned DEF SetConfigOption
<1>7. SinceInv'
  <2> SUFFICES ASSUME NEW t \in since'
               PROVE  /\ session'[t].live
                      /\ session'[t].tier = "none" =>
                           \/ verdict.tier = "none"
                           \/ /\ session'[t].model # NoId
                              /\ ~SameModel(verdict.model, session'[t].model)
    BY <1>2 DEF SinceInv
  <2>1. CASE t = s
    <3>1. model # NoId
      BY CapabilityAssumption
    <3> QED BY <1>1, <1>2, <2>1, <3>1, Refuse DEF IInv, RecordInv
  <2>2. CASE t # s
    <3>1. t \in since /\ t \in Sid
      BY <1>2, <2>2 DEF IInv, TypeOK
    <3> QED BY <1>2, <2>2, <3>1 DEF IInv, SinceInv
  <2> QED BY <2>1, <2>2
<1>8. SentInv'
  BY QuietSent DEF SetConfigOption
<1> QED BY <1>3, <1>6, <1>7, <1>8

\* A warm-up that found something.
LEMMA FoundInv ==
  ASSUME NEW id \in Ids, NEW result, Found(id, result),
         warmed' = [model |-> id, tier |-> result.tier]
  PROVE  RecordInv' /\ earned \subseteq earned'
<1>1. id # NoId
  BY CapabilityAssumption
<1> QED BY <1>1 DEF Found, RecordInv

\* A warm-up keeps what is said of verdicts, tiers and requests.
LEMMA WarmupInv ==
  ASSUME IInv, NEW model \in Given, Warmup(model)
  PROVE  RecordInv' /\ TierEarned' /\ SinceInv' /\ SentInv'
<1>1. client' \in Ids
  BY DEF Warmup, Given, IInv, TypeOK
<1>2. RecordInv' /\ earned \subseteq earned'
  BY <1>1, FoundInv DEF Warmup
<1>3. TierEarned'
  BY <1>2 DEF Warmup, IInv, TierEarned, Earned
<1>4. SinceInv' /\ SentInv'
  BY QuietSent DEF Warmup, SinceInv
<1> QED BY <1>2, <1>3, <1>4

\* A prompt: the request is bounded and readable, and its lack of tools has a
\* reason in the record the prompt leaves.
LEMMA PromptInv ==
  ASSUME IInv, NEW s \in Sid, NEW offered \in Offers, NEW shown \in {0, 1},
         Prompt(s, offered, shown)
  PROVE  RecordInv' /\ TierEarned' /\ SinceInv' /\ SentInv'
<1>1. PICK tier \in Tiers, learned \in Nat :
           /\ [session[s] EXCEPT !.tier = tier] \in Session
           /\ Request(s, offered, shown, [session[s] EXCEPT !.tier = tier]) \in SentTypes
           /\ PromptBy(s, offered, shown, tier, learned)
  BY PromptCases DEF IInv
<1> DEFINE st == [session[s] EXCEPT !.tier = tier]
           probes == NeedsProbe(s, offered)
<1>2. /\ session \in [Sid -> Session] /\ stored \in [Sid -> Session]
      /\ session[s] \in Session /\ client \in Ids /\ warmed \in Record
      /\ env \in Environments /\ since \subseteq Sid
      /\ offered \in Nat /\ session[s].live
  BY CapabilityAssumption DEF IInv, TypeOK, Prompt
<1>3. st.tier = tier /\ st.model = session[s].model /\ st.live
  BY <1>2 DEF Session
<1>4. /\ \A t \in Sid : t # s => session'[t] = session[t]
      /\ session'[s].model = session[s].model /\ session'[s].tier = tier
      /\ session'[s].live
  BY <1>1, <1>2, <1>3 DEF PromptBy, Session
<1>5. ModelOf(st) \in Ids /\ (st.model # NoId => ModelOf(st) = st.model)
  BY <1>1, <1>2, ModelTypes DEF ModelOf
<1>6. ModelOf(st) # NoId
  BY <1>5, CapabilityAssumption
<1>7. SentInv'
  <2> DEFINE n == ToolsFor(st, offered)
  <2>1. /\ sent' = Request(s, offered, shown, st)
        /\ sent'.session = {s} /\ sent'.model = ModelOf(st)
        /\ sent'.tier = EffectiveTier(st) /\ sent'.offered = offered
        /\ sent'.tools = n /\ sent'.names = n /\ sent'.shown = shown
        /\ sent'.pictures = Pictures(shown) /\ sent'.learned = st.learned
    <3>1. HistoryPictures(st) + Pictures(shown) = Pictures(shown)
      BY DEF HistoryPictures, Pictures
    <3>2. NamesFor(st, offered) = n
      BY <1>1, <1>2, RequestTypes
    <3>3. sent' = Request(s, offered, shown, st)
      BY <1>1 DEF PromptBy
    <3> QED BY <3>1, <3>2, <3>3 DEF Request
  <2>2. /\ n \in 0..offered
        /\ (offered > 0 /\ EffectiveTier(st) # "none") => n > 0
        /\ ModelOf(st) \in Fragile => n <= FamilyCeiling
        /\ st.learned > 0 => n <= st.learned
    BY <1>1, <1>2, CeilingsKeepOne
  <2>3. UNCHANGED <<client, env>>
    BY DEF Prompt
  <2>4. SurfaceBounded'
    BY <1>2, <2>1, <2>2 DEF SurfaceBounded
  <2>5. PicturesReadable'
    BY <2>1, <2>3 DEF PicturesReadable, Pictures, SupportsVision
  <2>6. StripExplained'
    <3> SUFFICES ASSUME offered > 0, n = 0, env.force = "unset"
                 PROVE  /\ verdict'.model # NoId
                        /\ s \in since' =>
                             \/ verdict'.tier = "none"
                             \/ ~SameModel(verdict'.model, ModelOf(st))
      BY <2>1, <2>3 DEF StripExplained
    <3>1. tier = "none"
      BY <1>3, <2>2 DEF EffectiveTier, Tiers
    <3>2. CASE probes
      BY <1>1, <1>6, <3>1, <3>2 DEF PromptBy, Found
    <3>3. CASE ~probes
      <4>1. tier = session[s].tier /\ UNCHANGED <<warmed, since, verdict>>
        BY <1>1, <3>3 DEF PromptBy
      <4>2. verdict.model # NoId
        BY <3>1, <3>3, <4>1 DEF NeedsProbe, IInv, RecordInv
      <4> QED BY <1>3, <1>5, <3>1, <4>1, <4>2 DEF IInv, SinceInv
    <3> QED BY <3>2, <3>3
  <2> QED BY <2>4, <2>5, <2>6 DEF SentInv
<1>8. CASE probes
  <2>1. /\ warmed' = [model |-> ModelOf(st), tier |-> tier]
        /\ since' = {s} /\ Found(ModelOf(st), [tier |-> tier])
    BY <1>1, <1>8 DEF PromptBy
  <2>2. verdict' = [model |-> ModelOf(st), tier |-> tier]
    BY <2>1 DEF Found
  <2>3. RecordInv' /\ earned \subseteq earned'
    BY <1>5, <2>1, FoundInv
  <2>4. Earned(session[s])'
    <3>1. CASE tier = "none"
      BY <1>4, <3>1 DEF Earned
    <3>2. CASE tier # "none"
      <4>1. <<ModelOf(st), tier>> \in earned'
        BY <2>2, <2>3, <3>2 DEF RecordInv
      <4>2. session'[s].model # NoId => SameModel(ModelOf(st), session'[s].model)
        BY <1>3, <1>4, <1>5, SameSelf
      <4> QED BY <1>4, <4>1, <4>2 DEF Earned
    <3> QED BY <3>1, <3>2
  <2>5. \A t \in Sid : Earned(session[t])' /\ Earned(stored[t])
    BY <1>4, <2>3, <2>4 DEF IInv, TierEarned, Earned
  <2>6. TierEarned'
    BY <1>2, <2>3, <2>5, SaveEarned DEF Prompt
  <2>7. SinceInv'
    BY <1>4, <2>1, <2>2 DEF SinceInv
  <2> QED BY <1>7, <2>3, <2>6, <2>7
<1>9. CASE ~probes
  <2>1. tier = session[s].tier /\ UNCHANGED <<warmed, since, verdict, earned>>
    BY <1>1, <1>9 DEF PromptBy
  <2>2. \A t \in Sid : Earned(session[t])' /\ Earned(stored[t])
    BY <1>4, <2>1 DEF IInv, TierEarned, Earned
  <2>3. TierEarned'
    BY <1>2, <2>1, <2>2, SaveEarned DEF Prompt
  <2>4. RecordInv'
    BY <2>1 DEF IInv, RecordInv
  <2>5. SinceInv'
    BY <1>2, <1>4, <2>1 DEF IInv, SinceInv
  <2> QED BY <1>7, <2>3, <2>4, <2>5
<1> QED BY <1>8, <1>9

\* The invariant is inductive.
LEMMA Inductive == IInv /\ [Next]_vars => IInv'
<1> SUFFICES ASSUME IInv, [Next]_vars PROVE IInv'
  OBVIOUS
<1>1. TypeOK'
  BY TypeStep DEF IInv
<1> DEFINE Rest == RecordInv' /\ TierEarned' /\ SinceInv' /\ SentInv'
<1>2. ASSUME NEW meta \in Blocks, NEW context \in Blocks, Initialize(meta, context)
      PROVE  Rest
  BY <1>2, QuietSent DEF Initialize, IInv, RecordInv, TierEarned, Earned, SinceInv
<1>3. ASSUME NEW s \in Sid, SessionNew(s) PROVE Rest
  <2>1. s \notin since
    BY <1>3 DEF SessionNew, IInv, SinceInv
  <2>2. /\ \A t \in Sid : t # s => session'[t] = session[t]
        /\ session'[s].tier = "none"
        /\ UNCHANGED <<warmed, verdict, earned, since, stored>>
    BY <1>3 DEF SessionNew, IInv, TypeOK, Gone
  <2>3. TierEarned'
    BY <2>2 DEF IInv, TierEarned, Earned
  <2>4. SinceInv'
    BY <2>1, <2>2 DEF IInv, TypeOK, SinceInv
  <2> QED BY <1>3, <2>2, <2>3, <2>4, QuietSent DEF SessionNew, IInv, RecordInv
<1>4. ASSUME NEW s \in Sid, SessionLoad(s) PROVE Rest
  <2>1. /\ \A t \in Sid : t # s => session'[t] = session[t]
        /\ session'[s] = stored[s] /\ since' = since \ {s}
        /\ UNCHANGED <<warmed, verdict, earned, stored>>
    BY <1>4 DEF SessionLoad, IInv, TypeOK
  <2>2. TierEarned'
    BY <2>1 DEF IInv, TierEarned, Earned
  <2>3. SinceInv'
    BY <2>1 DEF IInv, TypeOK, SinceInv
  <2> QED BY <1>4, <2>1, <2>2, <2>3, QuietSent DEF SessionLoad, IInv, RecordInv
<1>5. ASSUME NEW s \in Sid, NEW model \in Ids, SetConfigOption(s, model) PROVE Rest
  BY <1>1, <1>5, SetConfigInv
<1>6. ASSUME NEW model \in Given, Warmup(model) PROVE Rest
  BY <1>6, WarmupInv
<1>7. ASSUME NEW s \in Sid, NEW offered \in Offers, NEW shown \in {0, 1},
             Prompt(s, offered, shown)
      PROVE  Rest
  BY <1>7, PromptInv
<1>8. CASE Restart
  <2>1. \A t \in Sid : Earned(session[t])' /\ Earned(stored[t])'
    BY <1>8 DEF Restart, IInv, TierEarned, Earned, Gone
  <2>2. RecordInv' /\ SinceInv'
    BY <1>8 DEF Restart, RecordInv, SinceInv, Unwarmed
  <2>3. TierEarned'
    BY <2>1 DEF TierEarned
  <2>4. SentInv'
    BY <1>8, QuietSent DEF Restart
  <2> QED BY <1>1, <2>2, <2>3, <2>4 DEF IInv
<1>9. CASE UNCHANGED vars
  <2>1. RecordInv' /\ SinceInv'
    BY <1>9 DEF vars, IInv, RecordInv, SinceInv
  <2>2. TierEarned'
    BY <1>9 DEF vars, IInv, TierEarned, Earned
  <2>3. SentInv'
    BY <1>9 DEF vars, IInv, SentInv, StripExplained, SurfaceBounded, PicturesReadable,
                SupportsVision
  <2> QED BY <1>1, <2>1, <2>2, <2>3 DEF IInv
<1> QED BY <1>1, <1>2, <1>3, <1>4, <1>5, <1>6, <1>7, <1>8, <1>9 DEF Next, IInv

\* The inductive invariant holds in every state.
LEMMA Invariant == Spec => []IInv
BY InitInv, Inductive, PTL DEF Spec

-----------------------------------------------------------------------------
(* Theorems.                                                               *)

\* Every reachable state has the stated types, whatever the sessions, models,
\* settings and tool arrays.
THEOREM TypesHold == Spec => []TypeOK
<1>1. IInv => TypeOK
  BY DEF IInv
<1> QED BY <1>1, Invariant, PTL

\* No session and no session file ever holds a tier that no warm-up measured for
\* its model (resolve_set_config_tier, the lazy probe, save, load).
THEOREM TiersAreEarned == Spec => []TierEarned
<1>1. IInv => TierEarned
  BY DEF IInv
<1> QED BY <1>1, Invariant, PTL

\* A prompt loses its tools only for the reasons StripExplained allows.
THEOREM StripsAreExplained == Spec => []StripExplained
<1>1. IInv => StripExplained
  BY DEF IInv, SentInv
<1> QED BY <1>1, Invariant, PTL

\* The family's ceiling and the one the session has learned bound the tools of a
\* request, its directives name the same ones, and
\* no ceiling takes the last tool.
THEOREM SurfaceIsBounded == Spec => []SurfaceBounded
<1>1. IInv => SurfaceBounded
  BY DEF IInv, SentInv
<1> QED BY <1>1, Invariant, PTL

\* Pictures are sent only with the prompt that shows them and only past the
\* vision gate.
THEOREM PicturesAreReadable == Spec => []PicturesReadable
<1>1. IInv => PicturesReadable
  BY DEF IInv, SentInv
<1> QED BY <1>1, Invariant, PTL

\* A step that gives a live session tools does so on the verdict of the latest
\* warm-up of this process, and on its own model.
THEOREM NoGrantIsStale == Spec => NoStaleGrant
<1> DEFINE Step(s) ==
       \/ session'[s].tier \in {"none", session[s].tier}
             /\ session'[s].model = session[s].model
       \/ session'[s].tier = "none"
       \/ session'[s] = stored[s]
       \/ /\ session'[s].tier = verdict'.tier
          /\ session'[s].model # NoId => SameModel(session'[s].model, verdict'.model)
<1>1. ASSUME IInv, [Next]_vars PROVE [\A s \in Sid : Step(s)]_vars
  <2> SUFFICES ASSUME Next, NEW s \in Sid PROVE Step(s)
    BY <1>1
  <2>1. /\ session \in [Sid -> Session] /\ stored \in [Sid -> Session]
        /\ warmed \in Record
    BY <1>1 DEF IInv, TypeOK
  <2>2. ASSUME NEW meta \in Blocks, NEW context \in Blocks, Initialize(meta, context)
        PROVE  Step(s)
    BY <2>2 DEF Initialize
  <2>3. ASSUME NEW t \in Sid, SessionNew(t) PROVE Step(s)
    BY <2>1, <2>3 DEF SessionNew, Gone
  <2>4. ASSUME NEW t \in Sid, SessionLoad(t) PROVE Step(s)
    BY <2>1, <2>4 DEF SessionLoad
  <2>5. ASSUME NEW t \in Sid, NEW model \in Ids, SetConfigOption(t, model)
        PROVE  Step(s)
    <3>1. CASE t # s
      BY <2>1, <2>5, <3>1 DEF SetConfigOption
    <3>2. CASE t = s
      <4>1. /\ session'[s].model = model /\ session'[s].tier = ResolveTier(warmed, model)
            /\ UNCHANGED <<warmed, verdict>>
        BY <2>1, <2>5, <3>2 DEF SetConfigOption, Session
      <4>2. CASE ResolveTier(warmed, model) # "none"
        <5>1. warmed.model # NoId
          BY <4>2 DEF ResolveTier
        <5>2. ResolveTier(warmed, model) = warmed.tier /\ SameModel(warmed.model, model)
          BY <2>1, <4>2, <5>1, Grant
        <5>3. SameModel(model, warmed.model)
          BY <5>2 DEF SameModel
        <5> QED BY <1>1, <4>1, <5>2, <5>3 DEF IInv, RecordInv
      <4> QED BY <4>1, <4>2
    <3> QED BY <3>1, <3>2
  <2>6. ASSUME NEW model \in Given, Warmup(model) PROVE Step(s)
    BY <2>6 DEF Warmup
  <2>7. ASSUME NEW t \in Sid, NEW offered \in Offers, NEW shown \in {0, 1},
               Prompt(t, offered, shown)
        PROVE  Step(s)
    <3>1. PICK tier \in Tiers, learned \in Nat : PromptBy(t, offered, shown, tier, learned)
      BY <1>1, <2>7, PromptCases DEF IInv
    <3>2. CASE t # s
      BY <2>1, <3>1, <3>2 DEF PromptBy
    <3>3. CASE t = s
      <4>1. /\ session'[s].model = session[s].model /\ session'[s].tier = tier
            /\ [session[s] EXCEPT !.tier = tier].model = session[s].model
        BY <2>1, <3>1, <3>3 DEF PromptBy, Session
      <4>2. CASE NeedsProbe(s, offered)
        <5>1. verdict' = [model |-> ModelOf([session[s] EXCEPT !.tier = tier]), tier |-> tier]
          BY <3>1, <3>3, <4>2 DEF PromptBy, Found
        <5> QED BY <4>1, <5>1, SameSelf DEF ModelOf
      <4>3. CASE ~NeedsProbe(s, offered)
        BY <3>1, <3>3, <4>1, <4>3 DEF PromptBy
      <4> QED BY <4>2, <4>3
    <3> QED BY <3>2, <3>3
  <2>8. CASE Restart
    BY <2>8 DEF Restart, Gone
  <2> QED BY <2>2, <2>3, <2>4, <2>5, <2>6, <2>7, <2>8 DEF Next
<1> QED BY <1>1, Invariant, PTL DEF Spec, NoStaleGrant
=============================================================================
