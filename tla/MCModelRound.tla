---------------------------- MODULE MCModelRound ----------------------------
(* Instances of ModelRound for TLC.                                         *)
EXTENDS ModelRound
=============================================================================
