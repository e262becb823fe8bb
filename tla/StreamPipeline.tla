--------------------------- MODULE StreamPipeline ---------------------------
(***************************************************************************)
(* The way of a reply from the backend's stream to the host: the think      *)
(* stripper of src/openai/client.rs, and in src/bridge/mod.rs the closure    *)
(* given to chat_completion_stream, the frame coalescer, the buffer that    *)
(* holds a tool session's text until it can be searched for written-out     *)
(* calls, the search (src/bridge/emulated_parser.rs) and what is shown.     *)
(* One model round; the handling of its calls is ReactTurn's.               *)
(*                                                                         *)
(* Definitions marked Fault are plausible slips, not the code: the           *)
(* properties are shown to notice them.                                     *)
(***************************************************************************)
EXTENDS ReplyText

CONSTANTS
  Modes,       \* what a session may be: its tier, tools, family ceiling, guard
  Texts,       \* per session, the texts a reply may have
  MaxThoughts, \* bound: reasoning pieces of a round
  MaxCalls,    \* bound: native tool calls of a reply
  MaxRetries,  \* bound: requests made again after an overflow in the stream
  MaxBase      \* bound: text that came in before such an overflow

ASSUME StreamPipelineAssumption ==
  /\ Modes \subseteq [tier : {"Native", "Emulated", "None"}, tools : BOOLEAN,
                      ceiling : BOOLEAN, guard : BOOLEAN]
  /\ DOMAIN Texts = Modes /\ \A m \in Modes : Texts[m] \subseteq Seq(Char)
  /\ MaxThoughts \in Nat /\ MaxCalls \in Nat /\ MaxRetries \in Nat /\ MaxBase \in Nat

VARIABLES
  mode,        \* the session
  sent,        \* the text of the running request so far
  thought,     \* the thoughts of the round so far
  strip,       \* ThinkStripper: inside a block, and a possible partial tag
  said,        \* accumulated_content
  accum,       \* tool_call_accum: per index, what has come of a native call
  co,          \* StreamCoalescer, and the frames written to the host
  buffer,      \* EmulatedBufferState
  released,    \* all that left the stripper, and the thoughts (history)
  base,        \* text of earlier requests of the round (history)
  retries,     \* requests made again
  phase        \* "stream", "tail", "calls", "answered", "acting", "failed"

replyVars == <<sent, thought, strip, said, accum>>
vars == <<mode, replyVars, co, buffer, released, base, retries, phase>>

Tagged(kind, s) == [i \in DOMAIN s |-> <<kind, s[i]>>]

(***************************************************************************)
(* ThinkStripper.                                                          *)
(***************************************************************************)
\* The first place of a tag; 0: none.
Find(buf, tag) ==
  LET at == {i \in DOMAIN buf : Has(buf, i, tag)}
  IN  IF at = {} THEN 0 ELSE Min(at)

Longest(S) == CHOOSE s \in S : \A r \in S : Len(r) <= Len(s)

\* Fault: one character of a possible tag is held, no more.
hold_partial_suffix_One(buf, tag) ==
  Longest({s \in Suffixes(buf) : IsStrictPrefix(s, tag) /\ Len(s) <= 1})

hold_partial_suffix(buf, tag) ==
  Longest({s \in Suffixes(buf) : IsStrictPrefix(s, tag)})

\* Fault: inside a block everything is held.
PushInside_All(buf) == [out |-> <<>>, in_think |-> TRUE, pending |-> buf]

\* Inside a block with no end in sight: only a possible part of its end is kept.
PushInside(buf) ==
  [out |-> <<>>, in_think |-> TRUE, pending |-> hold_partial_suffix(buf, CLOSE)]

\* Outside a block with no tag in sight: what cannot begin one goes out.
PushOutside(buf) ==
  LET keep == Longest({hold_partial_suffix(buf, OPEN), hold_partial_suffix(buf, CLOSE)})
  IN  [out |-> SubSeq(buf, 1, Len(buf) - Len(keep)),
       in_think |-> FALSE, pending |-> keep]

Emit(text, r) == [r EXCEPT !.out = text \o @]

\* A stripper: where the text stands, and what has still to be looked at.
Stripper == [in_think : BOOLEAN, pending : Seq(Char)]

\* The stripper behind the tag at i.
Past(s, i, tag) ==
  [in_think |-> tag = OPEN,
   pending |-> SubSeq(s.pending, i + Len(tag), Len(s.pending))]

\* The loop over the tags; an end tag outside a block is dropped.
Push[s \in Stripper] ==
  LET buf == s.pending
      open == Find(buf, OPEN)
      close == Find(buf, CLOSE)
  IN  CASE s.in_think /\ close = 0 -> PushInside(buf)
        [] s.in_think /\ close > 0 -> Push[Past(s, close, CLOSE)]
        [] ~s.in_think /\ open = 0 /\ close = 0 -> PushOutside(buf)
        [] ~s.in_think /\ open > 0 /\ (close = 0 \/ open < close) ->
             Emit(SubSeq(buf, 1, open - 1), Push[Past(s, open, OPEN)])
        [] OTHER -> Emit(SubSeq(buf, 1, close - 1), Push[Past(s, close, CLOSE)])

Flush(s) == IF s.in_think THEN <<>> ELSE s.pending

(***************************************************************************)
(* StreamCoalescer.  Whether a flush is due is a matter of time and size.   *)
(***************************************************************************)
take_reasoning(c) ==
  [c EXCEPT !.frames = @ \o Tagged("thought", c.reasoning), !.reasoning = <<>>]
take_content(c) ==
  [c EXCEPT !.frames = @ \o Tagged("content", c.content), !.content = <<>>]

flush(c) == take_content(take_reasoning(c))
flush_if_due(c, due) == IF due THEN flush(c) ELSE c

push_content(c, s, due) ==
  flush_if_due([take_reasoning(c) EXCEPT !.content = @ \o s], due)

\* Fault: older text is not flushed first.
push_reasoning_NoSwitch(c, s, due) ==
  flush_if_due([c EXCEPT !.reasoning = @ \o s], due)

push_reasoning(c, s, due) ==
  flush_if_due([take_content(c) EXCEPT !.reasoning = @ \o s], due)

(***************************************************************************)
(* The envelope scanner.                                                   *)
(***************************************************************************)
\* The brace walk from the brace at i: where it comes back to depth zero; 0
\* if it never does.
Balance(text, i) ==
  LET walk[j \in i..Len(text)] ==
        IF j = i THEN [depth |-> 1, in_string |-> FALSE]
        ELSE LET w == walk[j - 1]
             IN  CASE text[j] = "q" -> [w EXCEPT !.in_string = ~@]
                   [] text[j] = LBRACE /\ ~w.in_string -> [w EXCEPT !.depth = @ + 1]
                   [] text[j] = RBRACE /\ ~w.in_string -> [w EXCEPT !.depth = @ - 1]
                   [] OTHER -> w
      ends == {j \in i..Len(text) : walk[j].depth = 0}
  IN  IF ends = {} THEN 0 ELSE Min(ends)

\* An unbalanced brace costs one character; a balanced object that is no call
\* is skipped whole, with what is nested in it.
JsonSpans(text) ==
  LET scan[i \in 1..(Len(text) + 1)] ==
        IF i > Len(text) THEN {}
        ELSE LET j == IF text[i] = LBRACE THEN Balance(text, i) ELSE 0
             IN  IF j = 0 THEN scan[i + 1]
                 ELSE scan[j + 1] \cup (IF text[i + 1] = "n" THEN {<<i, j>>} ELSE {})
  IN  scan[1]

XmlSpans(text) ==
  LET Close(i) == SelectInSubSeq(text, i + 1, Len(text), LAMBDA c : c = "]")
      scan[i \in 1..(Len(text) + 1)] ==
        IF i > Len(text) THEN {}
        ELSE IF /\ text[i] = "[" /\ Close(i) > 0
                /\ IsCallBody(Trim(SubSeq(text, i + 1, Close(i) - 1)))
             THEN scan[Close(i) + 1] \cup {<<i, Close(i)>>}
             ELSE scan[i + 1]
  IN  scan[1]

\* Both scans look at the whole text, so their spans may overlap.
extract_tool_calls_with_spans(text) == XmlSpans(text) \cup JsonSpans(text)

\* A Markdown header fires a call too, but is never cut from the text.
try_extract_tool_call(text) ==
  extract_tool_calls_with_spans(text) # {} \/ HasMarkdownCall(text)

\* The union of the spans goes.
clean_envelope_remainder(text) ==
  Trim(Outside(text, extract_tool_calls_with_spans(text)))

(***************************************************************************)
(* The stream.                                                             *)
(***************************************************************************)
should_buffer_tool_content ==
  mode.tools /\ (mode.tier = "Emulated" \/ mode.ceiling)

Init ==
  /\ mode \in Modes
  /\ sent = <<>> /\ thought = <<>> /\ said = <<>>
  /\ strip = [in_think |-> FALSE, pending |-> <<>>]
  /\ accum = [i \in 1..MaxCalls |-> "none"]
  /\ co = [content |-> <<>>, reasoning |-> <<>>, frames |-> <<>>]
  /\ buffer = <<>> /\ released = <<>> /\ base = <<>>
  /\ retries = 0 /\ phase = "stream"

\* Pieces of text that may come next.
Pieces ==
  UNION {{SubSeq(t, Len(sent) + 1, n) : n \in Len(sent)..Len(t)} :
           t \in {t \in Texts[mode] : IsPrefix(sent, t)}}

\* The closure on a chunk: thoughts go to the coalescer before text; the text
\* of a tool session whose replies may hold calls is kept back, all of it.
OnChunk(reasoning, kept) ==
  /\ \E due \in BOOLEAN :
       LET c == IF reasoning = <<>> THEN co ELSE push_reasoning(co, reasoning, due)
       IN  co' = IF kept = <<>> \/ should_buffer_tool_content
                 THEN c ELSE push_content(c, kept, due)
  /\ buffer' = IF should_buffer_tool_content THEN buffer \o kept ELSE buffer
  /\ said' = said \o kept
  /\ released' = released \o Tagged("thought", reasoning) \o Tagged("content", kept)

\* Delta: a piece of text, of reasoning, or of both.
Chunk ==
  /\ phase = "stream"
  /\ \E piece \in Pieces, reasoning \in {<<>>, <<"r">>} :
       LET p == Push[[strip EXCEPT !.pending = @ \o piece]] IN
         /\ Len(piece) + Len(reasoning) > 0
         /\ Len(thought \o reasoning) <= MaxThoughts
         /\ sent' = sent \o piece /\ thought' = thought \o reasoning
         /\ strip' = [in_think |-> p.in_think, pending |-> p.pending]
         /\ OnChunk(reasoning, p.out)
  /\ UNCHANGED <<mode, accum, base, retries, phase>>

\* accumulate_delta: a fragment of native call i, with its name or without.
ToolDelta ==
  /\ phase = "stream"
  /\ \E i \in DOMAIN accum, part \in {"nameless", "named"} :
       /\ accum[i] # "named" /\ accum[i] # part
       /\ accum' = [accum EXCEPT ![i] = part]
  /\ UNCHANGED <<mode, sent, thought, strip, said, co, buffer, released, base,
                 retries, phase>>

\* An error, a guard or the token ends the stream; what is held is not shown.
StreamFails ==
  /\ phase = "stream" /\ phase' = "failed"
  /\ UNCHANGED <<mode, replyVars, co, buffer, released, base, retries>>

\* An overflow reported inside the stream is retried as one before it: a new
\* stripper, but the coalescer and the buffer are those of the round.
Overflow ==
  /\ phase = "stream" /\ retries < MaxRetries /\ Len(said) <= MaxBase
  /\ retries' = retries + 1
  /\ sent' = <<>> /\ said' = <<>>
  /\ strip' = [in_think |-> FALSE, pending |-> <<>>]
  /\ accum' = [i \in 1..MaxCalls |-> "none"]
  /\ base' = base \o said
  /\ UNCHANGED <<mode, thought, co, buffer, released, phase>>

\* [DONE]: what the stripper held as part of a tag that never came goes out.
StreamEnds ==
  /\ phase = "stream" /\ phase' = "tail"
  /\ strip' = [strip EXCEPT !.pending = <<>>]
  /\ OnChunk(<<>>, Flush(strip))
  /\ UNCHANGED <<mode, sent, thought, accum, base, retries>>

(***************************************************************************)
(* After the stream.                                                       *)
(***************************************************************************)
\* finalize_tool_calls: a call without a name is none.
finalize_tool_calls == {i \in DOMAIN accum : accum[i] = "named"}

Synth ==
  /\ finalize_tool_calls = {}
  /\ mode.tools /\ mode.tier = "Emulated"
  /\ try_extract_tool_call(said)

schema_bleed_tripped == buffer # <<>> /\ ~Synth /\ mode.guard /\ Bleeds(buffer)

Note(line) == <<<<"note", line>>>>

\* What becomes of the buffer.
Answer ==
  IF buffer = <<>> THEN <<>>
  ELSE CASE Synth /\ extract_tool_calls_with_spans(buffer) # {} ->
              Tagged("content", clean_envelope_remainder(buffer))
         [] schema_bleed_tripped -> Note("schema_bleed")
         [] OTHER -> Tagged("content", buffer)

no_answer == Blank(said)

\* The coalescer is flushed, the buffer shown, cut or refused; a reply that
\* ran out of tokens without an answer is explained; a bleeding reply ends the
\* round whatever calls came with it.
PostStream ==
  /\ phase = "tail"
  /\ \E truncated \in BOOLEAN :
       LET calls == Synth \/ finalize_tool_calls # {}
           budget == IF ~calls /\ ~schema_bleed_tripped /\ truncated /\ no_answer
                     THEN Note("reasoning_budget_exhausted") ELSE <<>>
       IN  /\ co' = [flush(co) EXCEPT !.frames = @ \o Answer \o budget]
           /\ phase' = IF calls /\ ~schema_bleed_tripped THEN "calls" ELSE "answered"
  /\ buffer' = <<>>
  /\ UNCHANGED <<mode, replyVars, released, base, retries>>

\* The pending row of each call, before any of them runs.
ToolRows ==
  /\ phase = "calls" /\ phase' = "acting"
  /\ LET rows == IF Synth THEN <<1>>
                 ELSE Pick([i \in DOMAIN accum |-> i], finalize_tool_calls)
     IN  co' = [co EXCEPT !.frames = @ \o Tagged("row", rows)]
  /\ UNCHANGED <<mode, replyVars, buffer, released, base, retries>>

Next ==
  Chunk \/ ToolDelta \/ StreamFails \/ Overflow \/ StreamEnds \/ PostStream \/ ToolRows

Spec == Init /\ [][Next]_vars

(***************************************************************************)
(* Properties.                                                             *)
(***************************************************************************)
Live == ~should_buffer_tool_content
OfKind(frames, kinds) == Pick(frames, {i \in DOMAIN frames : frames[i][1] \in kinds})
Untagged(frames) == [i \in DOMAIN frames |-> frames[i][2]]
Chars(kind) == Untagged(OfKind(co.frames, {kind}))
Streamed == OfKind(co.frames, {"content", "thought"})

\* Types; the stripper holds no more than part of a tag, the coalescer text or
\* thoughts but never both, and each session's text takes one of the two ways.
TypeOK ==
  /\ mode \in Modes
  /\ sent \in Seq(Char) /\ said \in Seq(Char) /\ base \in Seq(Char)
  /\ thought \in Seq({"r"})
  /\ strip.in_think \in BOOLEAN
  /\ \E tag \in {OPEN, CLOSE} : IsStrictPrefix(strip.pending, tag)
  /\ accum \in [1..MaxCalls -> {"none", "nameless", "named"}]
  /\ co.content = <<>> \/ co.reasoning = <<>>
  /\ (Live /\ buffer = <<>>) \/ (~Live /\ co.content = <<>>)
  /\ retries \in 0..MaxRetries
  /\ phase \in {"stream", "tail", "calls", "answered", "acting", "failed"}

\* No frame overtakes what was released before it, and once the reply is over
\* none is missing: text and thoughts reach the host interleaved as they came.
CausalOrder ==
  Live => /\ IsPrefix(Streamed, released)
          /\ phase \in {"calls", "answered", "acting"} => Streamed = released

\* The reply as the user sees it is DeliveredText's: cutting it anywhere,
\* holding frames back and searching it for calls lose, repeat and leak nothing.
Delivered == INSTANCE DeliveredText WITH
  sent <- sent, thought <- thought, base <- base,
  shown <- Chars("content"), mulled <- Chars("thought"),
  stage <- CASE phase \in {"stream", "tail"} -> "open"
             [] phase = "failed" -> "dropped"
             [] OTHER -> phase

Refinement == Delivered!Spec
=============================================================================
