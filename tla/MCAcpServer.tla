----------------------------- MODULE MCAcpServer -----------------------------
(* Instances of AcpServer for TLC. *)
EXTENDS AcpServer

AllKinds == FrameKinds
\* Requests answered at once differ from each other in safety only.
WaitKinds == FrameKinds \ {"config", "control"}
TurnKinds == {"new", "load", "prompt", "cancel"}
=============================================================================
