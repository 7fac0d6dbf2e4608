--------------------------- MODULE MCSessionView ---------------------------
(* SessionView with two resources and few calls of connect, for TLC. *)
EXTENDS SessionView
=============================================================================
