--------------------------- MODULE MCHostConnect ---------------------------
(* HostConnect on all hosts of up to three gateways, with weights some of  *)
(* whose differences wrap around, for TLC.                                 *)
EXTENDS HostConnect, SequencesExt

MCGateways ==
  {[k \in DOMAIN s |-> [name |-> k, sort |-> s[k][1], auth |-> s[k][2]]] :
     s \in BoundedSeq({-4, -1, 0, 3} \X {"", "publickey"}, 3)}

MCTargets == [auth : {"", "publickey"}, gateways : MCGateways]
=============================================================================
