------------------------- MODULE MCTerminalSession -------------------------
(* TerminalSession with small buffers, for TLC. *)
EXTENDS TerminalSession
=============================================================================
