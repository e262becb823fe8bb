---------------------------- MODULE MCCapability ----------------------------
(* One model under two spellings, and another revision of it, which sees.    *)
(* The settings are off, forced, or misspelt with the gate bypassed.         *)
EXTENDS Capability

Spelled(tag, digest) == [base |-> "glm", tag |-> tag, digest |-> digest]
Short == Spelled("", "")
Long == Spelled(":latest", "sha256")
Revised == Spelled("", "rev")
MCIds == {Short, Long, Revised}
MCFragile == {Short, Long}
MCSighted == {Revised}

Settings(force, vision, bypass) == [force |-> force, vision |-> vision, bypass |-> bypass]
MCEnvironments == {Settings("unset", "unset", FALSE), Settings("native", "on", FALSE),
                   Settings("unrecognised", "unset", TRUE)}
=============================================================================
