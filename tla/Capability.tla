----------------------------- MODULE Capability -----------------------------
(***************************************************************************)
(* What a session's model is allowed to do: the tool tier that warm-up and   *)
(* probe measured (src/openai/client.rs), how it reaches sessions            *)
(* (src/acp/server.rs), and what a prompt makes of it (src/bridge/mod.rs):   *)
(* tools sent or stripped, ceilings, images.                                 *)
(*                                                                         *)
(* The dispatcher runs one handler at a time, so a handler is one action.    *)
(* Definitions marked Fault are plausible slips, not the code: the           *)
(* properties are shown to notice them.                                     *)
(***************************************************************************)
EXTENDS Integers, FiniteSets

CONSTANTS
  Sid,            \* session ids, each created once
  Ids,            \* model ids: [base, tag, digest]
  Fragile,        \* those ModelFamily::detect knows
  Sighted,        \* those model_supports_vision recognises
  Environments,   \* FORCE_TOOL_TIER, FORCE_VISION, BYPASS_TEMPLATE_GATE of a process
  FamilyCeiling,  \* recommended_tool_ceiling
  Offers,         \* sizes of a prompt's tool array
  MaxWarmups,     \* bound: warm-ups over the whole behaviour
  MaxUnsaved,     \* bound: saves that fail over the whole behaviour
  MaxStarts       \* bound: processes over the whole behaviour

NoId == [base |-> "", tag |-> "", digest |-> ""]

ASSUME CapabilityAssumption ==
  /\ Ids \subseteq [base : STRING, tag : {"", ":latest"},
                    digest : {"", "sha256", "rev"}] \ {NoId}
  /\ Environments \subseteq [force : {"unset", "native", "emulated", "none", "unrecognised"},
                             vision : {"unset", "on", "off"}, bypass : BOOLEAN]
  /\ FamilyCeiling \in Nat \ {0} /\ Offers \subseteq Nat
  /\ MaxWarmups \in Nat /\ MaxUnsaved \in Nat /\ MaxStarts \in Nat

VARIABLES
  client,      \* the model of Server.client
  warmed,      \* last_warmup: model and tier
  session,     \* live sessions: model, tier, learned ceiling, pictures in history
  stored,      \* their files
  env,         \* the settings of this process
  sent,        \* the request of the step just taken, if it was a prompt
  verdict,     \* what the last warm-up of this process found (history variable)
  earned,      \* every <<model, tier>> with tools a warm-up ever found (history variable)
  since,       \* sessions given a tier since that warm-up (history variable)
  warmups, unsaved, starts  \* counters for the bounds

counters == <<warmups, unsaved, starts>>
vars == <<client, warmed, session, stored, env, sent, verdict, earned, since, counters>>

Tiers == {"none", "emulated", "native"}
Unwarmed == [model |-> NoId, tier |-> "none"]
Gone == [live |-> FALSE, model |-> NoId, tier |-> "none", learned |-> 0, pictures |-> 0]
Nothing == [session |-> {}, model |-> NoId, tier |-> "none", offered |-> 0,
            tools |-> 0, names |-> 0, learned |-> 0, shown |-> 0, pictures |-> 0]

(***************************************************************************)
(* Model ids.                                                              *)
(***************************************************************************)
\* Fault: any digest is stripped, so two revisions count as one model.
Normalize_AnyDigest(id) == [id EXCEPT !.digest = "", !.tag = ""]

\* normalize_model_id: a sha256 digest goes, then a trailing :latest.
Normalize(id) ==
  LET bare == IF id.digest = "sha256" THEN [id EXCEPT !.digest = ""] ELSE id
  IN  IF bare.digest = "" THEN [bare EXCEPT !.tag = ""] ELSE bare

\* What the comparison is for: the same weights, whatever the spelling.
SameModel(a, b) ==
  /\ a.base = b.base
  /\ (a.digest = "rev") = (b.digest = "rev")
  /\ a.digest = "rev" => a.tag = b.tag

\* Fault: the comparison is byte-exact.
ResolveTier_Exact(record, model) == IF record.model = model THEN record.tier ELSE "none"

\* resolve_set_config_tier
ResolveTier(record, model) ==
  IF record.model # NoId /\ Normalize(record.model) = Normalize(model)
  THEN record.tier ELSE "none"

Recognised(id) == id \in Fragile

\* 0 stands for no ceiling.
RecommendedCeiling(id) == IF Recognised(id) THEN FamilyCeiling ELSE 0

SupportsVision(id) ==
  env.vision = "on" \/ (env.vision = "unset" /\ id \in Sighted)

ModelOf(s) == IF s.model = NoId THEN client ELSE s.model

(***************************************************************************)
(* Warm-up: the outcomes the backend can cause.                            *)
(***************************************************************************)
Failed(tier) == [status |-> "failed", tier |-> tier]

\* Timed out, certificate not trusted, unreachable: no probe.
SendFailures == {Failed("none")}
\* Timed out or cut while the answer was read.
BodyFailures == {Failed("none")}
\* A status or an error body: auth, unloaded, not found, out of memory, unknown.
ErrorAnswers == {Failed("none")}

\* One probe request: lost, answered by a status, or by a completion that calls
\* the tool, says the call in text, or neither; the text may bleed the schema.
ProbeReplies ==
  [answer : {"lost", "garbled", "refused", "no_tool_support", "bad_tool_choice"},
   bleed : {FALSE}]
  \cup [answer : {"calls", "says_call", "prose"}, bleed : BOOLEAN]

\* A refused tool_choice is retried without one, once; the second reply counts.
ProbeRetries(first, second) == IF first.answer = "bad_tool_choice" THEN second ELSE first
ProbeAnswers == {ProbeRetries(first, second) : first, second \in ProbeReplies}

\* ProbeAssessment::failed: anything inconclusive leaves the tools in.
FailOpen == "emulated"

ProbeTier(reply) ==
  CASE reply.answer = "calls"           -> "native"
    [] reply.answer = "no_tool_support" -> "none"
    [] OTHER                            -> FailOpen

\* A fragile family whose probe bleeds is refused, its tier reported all the same.
Loaded(id, reply) ==
  IF Recognised(id) /\ reply.bleed /\ ~env.bypass
  THEN Failed(ProbeTier(reply))
  ELSE [status |-> "loaded", tier |-> ProbeTier(reply)]

WarmupResults(id) ==
  SendFailures \cup BodyFailures \cup ErrorAnswers
  \cup {Loaded(id, reply) : reply \in ProbeAnswers}

Found(id, result) ==
  /\ warmups < MaxWarmups /\ warmups' = warmups + 1
  /\ verdict' = [model |-> id, tier |-> result.tier]
  /\ earned' = earned \cup ({<<id, result.tier>>} \ {<<id, "none">>})

(***************************************************************************)
(* The handlers.                                                           *)
(***************************************************************************)
Init ==
  /\ client \in Ids /\ env \in Environments
  /\ warmed = Unwarmed /\ verdict = Unwarmed
  /\ session = [s \in Sid |-> Gone] /\ stored = [s \in Sid |-> Gone]
  /\ sent = Nothing /\ earned = {} /\ since = {}
  /\ warmups = 0 /\ unsaved = 0 /\ starts = 1

\* The localLlm block in force: _meta's replaces context's as a whole.
LocalLlm(meta, context) == IF meta # {} THEN meta ELSE context

\* Fault: a block without a model clears the client's.
Initialize_Clears(meta, context) ==
  /\ \/ client' \in LocalLlm(meta, context)
     \/ LocalLlm(meta, context) = {} /\ UNCHANGED client
  /\ sent' = Nothing
  /\ UNCHANGED <<warmed, session, stored, env, verdict, earned, since, counters>>

\* initialize: a block that names no model keeps the client's.
Initialize(meta, context) ==
  /\ \/ client' \in LocalLlm(meta, context) \ {NoId}
     \/ LocalLlm(meta, context) \ {NoId} = {} /\ UNCHANGED client
  /\ sent' = Nothing
  /\ UNCHANGED <<warmed, session, stored, env, verdict, earned, since, counters>>

SessionNew(s) ==
  /\ ~session[s].live /\ ~stored[s].live
  /\ session' = [session EXCEPT ![s] = [Gone EXCEPT !.live = TRUE]]
  /\ sent' = Nothing
  /\ UNCHANGED <<client, warmed, stored, env, verdict, earned, since, counters>>

\* The file replaces what the process held, its tier with it.
SessionLoad(s) ==
  /\ stored[s].live
  /\ session' = [session EXCEPT ![s] = stored[s]]
  /\ since' = since \ {s}
  /\ sent' = Nothing
  /\ UNCHANGED <<client, warmed, stored, env, verdict, earned, counters>>

\* Saving is best effort.
Save(s) ==
  \/ stored' = [stored EXCEPT ![s] = session'[s]] /\ UNCHANGED unsaved
  \/ unsaved < MaxUnsaved /\ unsaved' = unsaved + 1 /\ UNCHANGED stored

SetConfigOption(s, model) ==
  /\ session[s].live
  /\ session' = [session EXCEPT ![s].model = model, ![s].tier = ResolveTier(warmed, model)]
  /\ since' = since \cup {s}
  /\ sent' = Nothing
  /\ Save(s)
  /\ UNCHANGED <<client, warmed, env, verdict, earned, warmups, starts>>

\* Fault: only a successful warm-up is recorded.
Warmup_SuccessOnly(model) ==
  /\ client' = IF model # NoId THEN model ELSE client
  /\ \E result \in WarmupResults(client') :
       /\ warmed' = IF result.status = "loaded"
                    THEN [model |-> client', tier |-> result.tier] ELSE warmed
       /\ Found(client', result)
  /\ since' = {} /\ sent' = Nothing
  /\ UNCHANGED <<session, stored, env, unsaved, starts>>

\* session/warmup: the client is rebuilt for the given model and the outcome is
\* recorded, success or not.  No session changes.
Warmup(model) ==
  /\ client' = IF model # NoId THEN model ELSE client
  /\ \E result \in WarmupResults(client') :
       /\ warmed' = [model |-> client', tier |-> result.tier]
       /\ Found(client', result)
  /\ since' = {} /\ sent' = Nothing
  /\ UNCHANGED <<session, stored, env, unsaved, starts>>

(***************************************************************************)
(* session/prompt.                                                         *)
(***************************************************************************)
NeedsProbe(s, offered) ==
  /\ offered > 0 /\ env.force = "unset"
  /\ warmed.model = NoId /\ session[s].tier = "none"

EffectiveTier(s) == IF env.force \in Tiers THEN env.force ELSE s.tier

Least(a, b) == IF a < b THEN a ELSE b

\* enforce_tool_ceiling: the tail goes.
Enforced(tools, ceiling) == IF ceiling > 0 THEN Least(tools, ceiling) ELSE tools

FamilyCap(s, tools) == Enforced(tools, RecommendedCeiling(ModelOf(s)))

\* Fault: what an overflow taught is forgotten by the next turn.
LearnedCap_Ignored(s, tools) == tools

LearnedCap(s, tools) == Enforced(tools, s.learned)

ToolsFor(s, offered) ==
  IF EffectiveTier(s) = "none" THEN 0 ELSE LearnedCap(s, FamilyCap(s, offered))

\* The mandate, and the format directive of an emulated tier, list the names.
Mandate(tier, names) == IF tier = "none" THEN 0 ELSE names

\* The names listed: cut as the array is.
NamesFor(s, offered) ==
  LET kept == ToolsFor(s, offered)
  IN  Mandate(EffectiveTier(s), IF kept < offered THEN kept ELSE offered)

\* Fault: pictures of earlier turns stay in the history.
HistoryPictures_Kept(s) == s.pictures
\* strip_history_images
HistoryPictures(s) == 0

\* build_user_message: pictures go along only if the client's model sees.
Pictures(shown) == IF SupportsVision(client) THEN shown ELSE 0

Request(s, offered, shown, st) ==
  [session |-> {s}, model |-> ModelOf(st), tier |-> EffectiveTier(st),
   offered |-> offered, tools |-> ToolsFor(st, offered), names |-> NamesFor(st, offered),
   learned |-> st.learned, shown |-> shown, pictures |-> HistoryPictures(st) + Pictures(shown)]

\* The lazy probe, the request, an overflow that may teach a lower ceiling, and
\* the save at the end of the turn.
Prompt(s, offered, shown) ==
  /\ session[s].live
  /\ \E result \in IF NeedsProbe(s, offered) THEN WarmupResults(ModelOf(session[s]))
                   ELSE {[tier |-> session[s].tier]} :
       LET st == [session[s] EXCEPT !.tier = result.tier]
           request == Request(s, offered, shown, st)
       IN  /\ IF NeedsProbe(s, offered)
              THEN /\ warmed' = [model |-> ModelOf(st), tier |-> result.tier]
                   /\ since' = {s}
                   /\ Found(ModelOf(st), result)
              ELSE UNCHANGED <<warmed, since, verdict, earned, warmups>>
           /\ sent' = request
           /\ \E learned \in {st.learned} \cup 1..(request.tools - 1) :
                session' = [session EXCEPT ![s] =
                  [st EXCEPT !.learned = learned, !.pictures = request.pictures]]
  /\ Save(s)
  /\ UNCHANGED <<client, env, starts>>

\* The process ends; another starts, with the client and the settings of its own
\* environment and no session but those in files.
Restart ==
  /\ starts < MaxStarts /\ starts' = starts + 1
  /\ client' \in Ids /\ env' \in Environments
  /\ warmed' = Unwarmed /\ verdict' = Unwarmed
  /\ session' = [s \in Sid |-> Gone]
  /\ sent' = Nothing /\ since' = {}
  /\ UNCHANGED <<stored, earned, warmups, unsaved>>

Given == Ids \cup {NoId}
\* No localLlm block, or one with its model (NoId: it names none).
Blocks == {{}} \cup {{model} : model \in Given}
Next ==
  \/ \E meta, context \in Blocks : Initialize(meta, context)
  \/ \E s \in Sid : SessionNew(s) \/ SessionLoad(s)
  \/ \E s \in Sid, model \in Ids : SetConfigOption(s, model)
  \/ \E model \in Given : Warmup(model)
  \/ \E s \in Sid, offered \in Offers, shown \in {0, 1} : Prompt(s, offered, shown)
  \/ Restart

Spec == Init /\ [][Next]_vars

(***************************************************************************)
(* Properties.                                                             *)
(***************************************************************************)
Session == [live : BOOLEAN, model : Given, tier : Tiers, learned : Nat, pictures : Nat]
Record == [model : Given, tier : Tiers]

\* Types.
TypeOK ==
  /\ client \in Ids /\ env \in Environments
  /\ warmed \in Record /\ verdict \in Record
  /\ session \in [Sid -> Session] /\ stored \in [Sid -> Session]
  /\ earned \subseteq (Ids \X Tiers) /\ since \subseteq Sid
  /\ warmups \in Nat /\ unsaved \in Nat /\ starts \in Nat
  /\ sent \in [session : {{}} \cup {{s} : s \in Sid}, model : Given, tier : Tiers,
               offered : Nat, tools : Nat, names : Nat, learned : Nat, shown : Nat,
               pictures : Nat]

Earned(st) ==
  st.tier # "none" =>
    \E e \in earned : e[2] = st.tier /\ (st.model # NoId => SameModel(e[1], st.model))

\* A session, live or in its file, never holds a tier that no warm-up ever
\* measured for its model, in this process or the one that wrote the file, through
\* any order of configuring, warming, probing, saving, loading and restarting.
TierEarned == \A s \in Sid : Earned(session[s]) /\ Earned(stored[s])

\* A live session comes by tools only through the latest warm-up of this process,
\* and only if that was of its model (or it names none); not through one that was
\* superseded by a failure.  (A load brings back what the file says.)
NoStaleGrant ==
  [][\A s \in Sid :
       \/ session'[s].tier \in {"none", session[s].tier}
             /\ session'[s].model = session[s].model
       \/ session'[s].tier = "none"
       \/ session'[s] = stored[s]
       \/ /\ session'[s].tier = verdict'.tier
          /\ session'[s].model # NoId => SameModel(session'[s].model, verdict'.model)]_vars

\* Tools are stripped from a prompt, when the operator does not force it, only in
\* a process that has tried a warm-up; and from a session configured or probed
\* since, only if that warm-up was of another model or found no tools.
StripExplained ==
  (sent.offered > 0 /\ sent.tools = 0 /\ env.force = "unset") =>
    /\ verdict.model # NoId
    /\ \A s \in sent.session \cap since :
         verdict.tier = "none" \/ ~SameModel(verdict.model, sent.model)

\* The directives name exactly the tools that are sent; a fragile family never
\* gets more than its ceiling, nor a session more than the ceiling an overflow of
\* an earlier turn (of this process or the one that wrote its file) taught it;
\* and ceilings never take the last tool away.
SurfaceBounded ==
  /\ sent.names = sent.tools
  /\ sent.tools <= sent.offered
  /\ sent.model \in Fragile => sent.tools <= FamilyCeiling
  /\ sent.learned > 0 => sent.tools <= sent.learned
  /\ (sent.offered > 0 /\ sent.tier # "none") => sent.tools > 0

\* A request carries no more pictures than its own prompt showed, and then only
\* if the client's model sees; so a session that follows the client's model never
\* sends one where it cannot be read, whatever earlier turns contained.
PicturesReadable ==
  /\ sent.pictures <= sent.shown
  /\ sent.pictures > 0 => SupportsVision(client)

\* Claimed: a picture is never sent to a model that cannot read it.  The code asks
\* about the client's model and sends to the session's.
PicturesNeverBlind == sent.pictures > 0 => SupportsVision(sent.model)
=============================================================================
