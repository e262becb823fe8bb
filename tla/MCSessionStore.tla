--------------------------- MODULE MCSessionStore ---------------------------
(* Session ids are interchangeable; no property here is a liveness         *)
(* property.                                                                *)
EXTENDS SessionStore, TLC

Perms == Permutations(Sid)
=============================================================================
