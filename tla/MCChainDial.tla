---------------------------- MODULE MCChainDial ----------------------------
(* ChainDial on short chains, for TLC. *)
EXTENDS ChainDial
=============================================================================
