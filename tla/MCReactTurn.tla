---------------------------- MODULE MCReactTurn ----------------------------
(* Signatures are interchangeable, but liveness is checked: no symmetry.    *)
EXTENDS ReactTurn
=============================================================================
