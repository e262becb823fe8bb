---------------------------- MODULE DeliveredText ----------------------------
(***************************************************************************)
(* What the user is promised of a reply, however the backend cuts it into   *)
(* pieces and whenever the shim sends a frame: the visible text and the     *)
(* thoughts come in order, each character once, none that a later piece     *)
(* would take back; before a tool call shows, all that came before it has   *)
(* been shown; and of the text nothing is left out but written-out calls    *)
(* and a reply that is no answer at all.  StreamPipeline implements it.     *)
(***************************************************************************)
EXTENDS ReplyText

VARIABLES
  sent,        \* text of the reply so far, as the backend sent it
  thought,     \* thoughts so far, sent apart from the text
  base,        \* text of an earlier request of the same round
  shown,       \* text the user has seen
  mulled,      \* thoughts the user has seen
  stage        \* "open", "calls", "answered", "acting" or "dropped"

vars == <<sent, thought, base, shown, mulled, stage>>

Text == base \o Visible[sent]

Init ==
  /\ sent = <<>> /\ thought = <<>> /\ base = <<>>
  /\ shown = <<>> /\ mulled = <<>>
  /\ stage = "open"

\* A piece comes in, or some of what came in is shown.  What is shown is a
\* beginning of the text as it then stands.
Stream ==
  /\ stage = "open" /\ stage' = "open"
  /\ IsPrefix(sent, sent') /\ IsPrefix(thought, thought')
  /\ IsPrefix(shown, shown') /\ IsPrefix(shown', Text')
  /\ IsPrefix(mulled, mulled') /\ IsPrefix(mulled', thought')
  /\ UNCHANGED base

\* The request is made again although text came in: that text stays.
Restart ==
  /\ stage = "open"
  /\ sent' = <<>>
  /\ IsPrefix(shown, base') /\ IsPrefix(base', Text)
  /\ UNCHANGED <<thought, shown, mulled, stage>>

\* The reply is over and all of it is shown.
Verbatim == shown' = Text

\* It holds a call to run: envelopes, and only envelopes, are left out.
Stripped ==
  /\ stage' = "calls"
  /\ \E spans \in SUBSET Envelopes(Text) :
       spans # {} /\ shown' = Trim(Outside(Text, spans))

\* It is an echo of the tools' schemas, and none of it is shown.
Refused == stage' = "answered" /\ Bleeds(Text) /\ shown' = <<>>

Complete ==
  /\ stage = "open" /\ stage' \in {"calls", "answered"}
  /\ IsPrefix(shown, shown')
  /\ Verbatim \/ Stripped \/ Refused
  /\ mulled' = thought
  /\ UNCHANGED <<sent, thought, base>>

Act ==
  /\ stage = "calls" /\ stage' = "acting"
  /\ UNCHANGED <<sent, thought, base, shown, mulled>>

\* The request failed or was cancelled: nothing more is shown.
Drop ==
  /\ stage = "open" /\ stage' = "dropped"
  /\ UNCHANGED <<sent, thought, base, shown, mulled>>

Next == Stream \/ Restart \/ Complete \/ Act \/ Drop

Spec == Init /\ [][Next]_vars
=============================================================================
