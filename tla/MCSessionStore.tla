--------------------------- MODULE MCSessionStore ---------------------------
(* Model checking SessionStore: all of its constants are given in the cfgs. *)
EXTENDS SessionStore
=============================================================================
