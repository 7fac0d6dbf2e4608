---------------------------- MODULE HostConnect ----------------------------
(***************************************************************************)
(* openSSHSession of handler.go: the main site is asked for the host, its  *)
(* gateways are put into a chain (GatewayChain), and the chain is dialled  *)
(* under a timeout (ChainDial).  This module composes the two: hop i of    *)
(* the dial is endpoint i of the chain, and what Auth does at a hop        *)
(* depends on how that endpoint authenticates.                             *)
(***************************************************************************)
EXTENDS ChainDial, GatewayChain

VARIABLE asked   \* the call of the resolver: "waiting", "answered" or "failed"

connectVars == <<vars, sortVars, asked>>

ASSUME ChainsFit == \A t \in Targets : Len(t.gateways) < Hops

ConnectInit ==
  /\ Init /\ SortInit
  /\ hops = Len(gateways) + 1
  /\ asked = "waiting"

\* ResolveActionContext and the decoding of what it returns.
Resolve == asked = "waiting" /\ asked' = "answered" /\ UNCHANGED <<vars, sortVars>>
ResolveFails == asked = "waiting" /\ asked' = "failed" /\ UNCHANGED <<vars, sortVars>>

ToGatewayChain ==
  /\ asked = "answered"
  /\ Swap \/ Placed \/ Return
  /\ UNCHANGED <<vars, asked>>

Dialling == chain # <<>> /\ UNCHANGED <<sortVars, asked>>

\* Auth at the hop the dial is at.  A password is not looked at before the
\* handshake; a key may be unreadable, and other types are refused.
HopAuthOk == Dialling /\ chain[hop].auth \in AuthTypes /\ AuthOk
HopAuthFails == Dialling /\ chain[hop].auth # "passwd" /\ AuthFails

Dial ==
  /\ Dialling
  /\ \/ TcpOk \/ TcpFails
     \/ HandshakeOk \/ HandshakeFails \/ TakeResult \/ GiveUp \/ Reclaim
     \/ NextOk \/ NextFails \/ CloseSession \/ ContextEnds
     \/ \E i \in 1..Hops : LinkDrops(i)

ConnectNext ==
  Resolve \/ ResolveFails \/ ToGatewayChain \/ HopAuthOk \/ HopAuthFails \/ Dial

\* As in ChainDial: the two goroutines beside the caller, and its select.
ConnectFairness ==
  /\ WF_connectVars(Dialling /\ (TakeResult \/ GiveUp))
  /\ WF_connectVars(Dialling /\ Reclaim)
  /\ WF_connectVars(Dialling /\ conn[1] = "closed" /\ HandshakeFails)

SafeConnectSpec == ConnectInit /\ [][ConnectNext]_connectVars
ConnectSpec == SafeConnectSpec /\ ConnectFairness

-----------------------------------------------------------------------------
(* Properties *)

\* A connected session has gone through every gateway of the host once, in the
\* order of the chain, and ends at the host itself, not at a gateway.
EndsAtHost ==
  pc \in {"connected", "closed"} =>
    /\ chain[hop].name = 0
    /\ \A k \in 1..Len(gateways) : \E l \in 1..hop - 1 : chain[l].name = gateways[k].name

\* How the host describes its hop k.
ListedAuth(k) ==
  IF chain[k].name = 0 THEN target.auth ELSE gateways[Position(chain[k].name)].auth

\* "default=passwd" (tags of Endpoint and Gateway): a host or gateway that does
\* not say how to authenticate is never the one whose authentication is
\* refused before it was dialled.
DefaultNeverRefused ==
  [][pc = "auth" /\ pc' = "failed" => ListedAuth(hop) # ""]_connectVars
=============================================================================
