------------------------------ MODULE ReplyText ------------------------------
(***************************************************************************)
(* The text a model sends, as far as the shim tells it apart, and what is   *)
(* meant by the parts it must not show: reasoning between think tags, and   *)
(* tool calls written out as text.  Everything here looks at a whole text   *)
(* at once; how the shim finds the same parts in a stream of pieces is      *)
(* StreamPipeline's business.                                               *)
(*                                                                         *)
(* A character stands for a run the code treats as one.  Tags keep the      *)
(* shape that matters, a shared first character and several more:           *)
(*   "<" "/" "t" ">"   the tags <t> and </t>, for <think> and </think>      *)
(*   "{" "}" "q"       braces and an unescaped quote                        *)
(*   "n"               the name of a registered tool, as the first member   *)
(*                     of an object or the name in a tool_call element      *)
(*   "[" "]"           the tool_call tags of the XML form                   *)
(*   "m"               a Markdown header naming a registered tool           *)
(*   "s"               a wall of schema fragments                           *)
(*   "_" "a"           white space, and any other text                      *)
(***************************************************************************)
EXTENDS Integers, FiniteSets, SequencesExt

LBRACE == "{"
RBRACE == "}"
Char == {"<", "/", "t", ">", LBRACE, RBRACE, "q", "n", "[", "]", "m", "s", "_", "a"}
OPEN == <<"<", "t", ">">>
CLOSE == <<"<", "/", "t", ">">>

Has(text, i, tag) ==
  i + Len(tag) - 1 <= Len(text) /\ SubSeq(text, i, i + Len(tag) - 1) = tag

\* What a sequence has at the positions P.
Pick(s, P) ==
  LET upto[n \in 0..Len(s)] ==
        IF n = 0 THEN <<>>
        ELSE IF n \in P THEN Append(upto[n - 1], s[n]) ELSE upto[n - 1]
  IN  upto[Len(s)]

\* str::trim
Trim(text) ==
  LET solid == {i \in DOMAIN text : text[i] # "_"}
  IN  IF solid = {} THEN <<>> ELSE SubSeq(text, Min(solid), Max(solid))

(***************************************************************************)
(* Reasoning.  Tags never overlap, so each position has a last tag before   *)
(* it; it is visible when it is in no tag and that last tag opened nothing. *)
(***************************************************************************)
Opens(text) == {i \in DOMAIN text : Has(text, i, OPEN)}
Closes(text) == {i \in DOMAIN text : Has(text, i, CLOSE)}

Visible[text \in Seq(Char)] ==
  LET opens == Opens(text)
      closes == Closes(text)
      InTag(i) == \/ \E o \in opens : i \in o..(o + Len(OPEN) - 1)
                  \/ \E c \in closes : i \in c..(c + Len(CLOSE) - 1)
      Reasoning(i) == \E o \in opens : o < i /\ \A c \in closes : ~(o < c /\ c < i)
  IN  Pick(text, {i \in DOMAIN text : ~InTag(i) /\ ~Reasoning(i)})

(***************************************************************************)
(* Tool calls written as text.  An object closes where its braces balance,  *)
(* those inside a string apart.                                             *)
(***************************************************************************)
InString(s, i) == Cardinality({k \in 1..(i - 1) : s[k] = "q"}) % 2 = 1
Depth(s, i) ==
  Cardinality({k \in 1..i : s[k] = LBRACE /\ ~InString(s, k)})
  - Cardinality({k \in 1..i : s[k] = RBRACE /\ ~InString(s, k)})

IsObject(s) ==
  /\ Len(s) >= 2 /\ s[1] = LBRACE /\ s[Len(s)] = RBRACE
  /\ Depth(s, Len(s)) = 0
  /\ \A i \in 1..(Len(s) - 1) : Depth(s, i) > 0

\* An object that names a registered tool.
IsInlineCall(s) == IsObject(s) /\ s[2] = "n"

\* What is between the tags of an element that names a registered tool: the
\* name, and an object of arguments or none.
IsCallBody(s) == Len(s) > 0 /\ s[1] = "n" /\ (Len(s) = 1 \/ IsObject(Tail(s)))

IsElement(s) ==
  /\ Len(s) > 2 /\ s[1] = "[" /\ s[Len(s)] = "]"
  /\ IsCallBody(Trim(SubSeq(s, 2, Len(s) - 1)))

\* The places of the envelopes in a text, as first and last position.
Envelopes(text) ==
  {e \in (DOMAIN text) \X (DOMAIN text) :
     LET s == SubSeq(text, e[1], e[2]) IN IsInlineCall(s) \/ IsElement(s)}

Outside(text, spans) ==
  Pick(text, {i \in DOMAIN text : \A e \in spans : i \notin e[1]..e[2]})

Blank(text) == Trim(text) = <<>>

\* A Tool line, a Params line and a list entry after them.
HasMarkdownCall(text) == Contains(text, "m")

\* Text that echoes the tools' schemas.
Bleeds(text) == Contains(text, "s")
=============================================================================
