---------------------------- MODULE MCConnector ----------------------------
(* Instances of Connector for TLC. *)
EXTENDS Connector

AllKinds == SessionKinds \cup OtherKinds
=============================================================================
