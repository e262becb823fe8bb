-------------------------- MODULE MCStreamPipeline --------------------------
(* Instances of StreamPipeline for TLC. *)
EXTENDS StreamPipeline

Session(tier, ceiling, guard) ==
  [tier |-> tier, tools |-> TRUE, ceiling |-> ceiling, guard |-> guard]

Plain == Session("Native", FALSE, TRUE)
Emulated == Session("Emulated", FALSE, TRUE)
Bleeding == Session("Native", TRUE, TRUE)
Unguarded == Session("Emulated", FALSE, FALSE)
Sessions == {Plain, Emulated, Bleeding, Unguarded}

Tags == {OPEN, CLOSE, <<"<">>, <<"a">>}
Inline == {<<"{", "n", "}">>, <<"{", "a">>, <<"}">>, <<"q">>}
Calls == Inline \cup {<<"_">>, <<"m">>, <<"[", "_", "n", "]">>, <<"[", "n", "{", "n", "}", "]">>}
Walls == {<<"s">>, <<"{", "n", "}">>, <<"<">>}

Pairs(pieces) == {p \o q : p, q \in pieces}
Triples(pieces) == {p \o q : p \in pieces, q \in Pairs(pieces)}
Replies == [m \in Sessions |->
  CASE m = Plain -> Triples(Tags) \cup Pairs(Tags \cup {<<"<", "t">>})
    [] m = Emulated -> Triples(Inline \ {<<"q">>}) \cup Pairs(Calls)
    [] OTHER -> Pairs(Walls)]
=============================================================================
