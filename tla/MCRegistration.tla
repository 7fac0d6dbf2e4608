--------------------------- MODULE MCRegistration ---------------------------
(* Registration with every kind of address, for TLC. *)
EXTENDS Registration

MCAddrs == [host : Hosts, port : {0, 8080}]
=============================================================================
