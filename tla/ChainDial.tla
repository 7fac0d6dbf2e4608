----------------------------- MODULE ChainDial -----------------------------
(***************************************************************************)
(* Dialling one SSH client through a chain of gateways, under the timeout  *)
(* of openSSHSession: sshx.Connect with dialWithContext for the first hop  *)
(* and ConnectToNextJumpHost for the others, then Close of the session.    *)
(*                                                                         *)
(* The first handshake runs on a goroutine of its own; when the context    *)
(* ends first, another goroutine reclaims what the handshake may still     *)
(* produce.  Later handshakes run on the caller and know no context.  A    *)
(* server may stall in a handshake for ever.                               *)
(***************************************************************************)
EXTENDS Naturals

CONSTANT Hops   \* length of the longest chain, the target host included

ASSUME HopsAssumption == Hops \in Nat \ {0}

VARIABLES
  hops,     \* length of the chain that is dialled
  pc,       \* the caller of Connect
  hop,      \* the hop it is at
  ctx,      \* "live", or "done" after the timeout or a cancelled request
  conn,     \* conn[i]: the transport connection of hop i
  client,   \* client[i]: the SSH client of hop i
  hs,       \* the handshake goroutine: "none", "running" or "done"
  result,   \* resultChan: "empty", "client" or "error"
  reclaim   \* the reclaiming goroutine: "none", "waiting" or "done"

vars == <<hops, pc, hop, ctx, conn, client, hs, result, reclaim>>
goVars == <<hs, result, reclaim>>

Init ==
  /\ hops \in 1..Hops
  /\ pc = "auth" /\ hop = 1 /\ ctx = "live"
  /\ conn = [i \in 1..Hops |-> "none"]
  /\ client = [i \in 1..Hops |-> "none"]
  /\ hs = "none" /\ result = "empty" /\ reclaim = "none"

Goto(from, to) == pc = from /\ pc' = to

\* Mutant of Advance: one hop too few.
AdvanceEarly(from) ==
  IF hop + 1 < hops THEN Goto(from, "auth") /\ hop' = hop + 1
  ELSE Goto(from, "connected") /\ UNCHANGED hop

\* On to the next hop, or done.
Advance(from) ==
  IF hop < hops THEN Goto(from, "auth") /\ hop' = hop + 1
  ELSE Goto(from, "connected") /\ UNCHANGED hop

\* Auth: an unknown type or an unreadable key fails the whole chain.
AuthOk == Goto("auth", "tcp") /\ UNCHANGED <<hops, hop, ctx, conn, client, goVars>>
AuthFails == Goto("auth", "failed") /\ UNCHANGED <<hops, hop, ctx, conn, client, goVars>>

\* DialContext, directly for the first hop and through the client of the
\* previous hop for the others.
TcpOk ==
  /\ ctx = "live"
  /\ hop > 1 => conn[hop - 1] = "open"
  /\ Goto("tcp", IF hop = 1 THEN "select" ELSE "handshake")
  /\ conn' = [conn EXCEPT ![hop] = "open"]
  /\ hs' = IF hop = 1 THEN "running" ELSE hs
  /\ UNCHANGED <<hops, hop, ctx, client, result, reclaim>>

TcpFails == Goto("tcp", "failed") /\ UNCHANGED <<hops, hop, ctx, conn, client, goVars>>

-----------------------------------------------------------------------------
(* The handshake goroutine of dialWithContext; sending to resultChan, which *)
(* has room for one result, never blocks.                                   *)

\* The last packet may have come in before the connection was closed under it.
HandshakeOk ==
  /\ hs = "running"
  /\ client' = [client EXCEPT ![1] = "open"]
  /\ hs' = "done" /\ result' = "client"
  /\ UNCHANGED <<hops, pc, hop, ctx, conn, reclaim>>

\* NewClientConn closes the connection when the handshake fails.
HandshakeFails ==
  /\ hs = "running"
  /\ conn' = [conn EXCEPT ![1] = "closed"]
  /\ hs' = "done" /\ result' = "error"
  /\ UNCHANGED <<hops, pc, hop, ctx, client, reclaim>>

\* The select of dialWithContext, both cases of which may be ready.
TakeResult ==
  /\ result # "empty"
  /\ IF result = "client" THEN Advance("select")
     ELSE Goto("select", "failed") /\ UNCHANGED hop
  /\ result' = "empty"
  /\ UNCHANGED <<hops, ctx, conn, client, hs, reclaim>>

\* Mutant of GiveUp: the connection is left to the reclaiming goroutine.
GiveUpOpen ==
  /\ ctx = "done"
  /\ Goto("select", "failed")
  /\ reclaim' = "waiting"
  /\ UNCHANGED <<hops, hop, ctx, conn, client, hs, result>>

\* Mutant of GiveUp: nobody waits for the handshake any more.
GiveUpAlone ==
  /\ ctx = "done"
  /\ Goto("select", "failed")
  /\ conn' = [conn EXCEPT ![1] = "closed"]
  /\ UNCHANGED <<hops, hop, ctx, client, goVars>>

\* Mutant of GiveUp: it waits for the handshake after all.
GiveUpLate ==
  /\ ctx = "done" /\ hs = "done"
  /\ Goto("select", "failed")
  /\ conn' = [conn EXCEPT ![1] = "closed"]
  /\ reclaim' = "waiting"
  /\ UNCHANGED <<hops, hop, ctx, client, hs, result>>

GiveUp ==
  /\ ctx = "done"
  /\ Goto("select", "failed")
  /\ conn' = [conn EXCEPT ![1] = "closed"]
  /\ reclaim' = "waiting"
  /\ UNCHANGED <<hops, hop, ctx, client, hs, result>>

Reclaim ==
  /\ reclaim = "waiting" /\ result # "empty"
  /\ client' = IF result = "client" THEN [client EXCEPT ![1] = "closed"] ELSE client
  /\ result' = "empty"
  /\ reclaim' = "done"
  /\ UNCHANGED <<hops, pc, hop, ctx, conn, hs>>

-----------------------------------------------------------------------------
(* ConnectToNextJumpHost: the handshake on the calling goroutine *)

\* Mutant of NextOk: the hop is dialled afresh, not through the previous one.
NextReplaces ==
  /\ Advance("handshake")
  /\ conn[hop] = "open"
  /\ client' = [i \in 1..Hops |-> IF i = hop THEN "open" ELSE "none"]
  /\ UNCHANGED <<hops, ctx, conn, goVars>>

NextOk ==
  /\ Advance("handshake")
  /\ conn[hop] = "open"
  /\ client' = [client EXCEPT ![hop] = "open"]
  /\ UNCHANGED <<hops, ctx, conn, goVars>>

NextFails ==
  /\ Goto("handshake", "failed")
  /\ conn' = [conn EXCEPT ![hop] = "closed"]
  /\ UNCHANGED <<hops, hop, ctx, client, goVars>>

\* sshSession.Close closes the client of the last hop.
CloseSession ==
  /\ Goto("connected", "closed")
  /\ client' = [client EXCEPT ![hops] = "closed"]
  /\ conn' = [conn EXCEPT ![hops] = "closed"]
  /\ UNCHANGED <<hops, hop, ctx, goVars>>

\* The server of hop i, or the network, ends its connection: so end those of
\* the hops behind it, which run through it.
LinkDrops(i) ==
  /\ conn[i] = "open"
  /\ conn' = [j \in 1..Hops |-> IF j >= i /\ conn[j] = "open" THEN "closed" ELSE conn[j]]
  /\ client' = [j \in 1..Hops |-> IF j >= i /\ client[j] = "open" THEN "closed" ELSE client[j]]
  /\ UNCHANGED <<hops, pc, hop, ctx, goVars>>

\* The timeout fires, or the browser abandons the Connect request.
ContextEnds ==
  /\ ctx = "live"
  /\ ctx' = "done"
  /\ UNCHANGED <<hops, pc, hop, conn, client, goVars>>

Next == \/ AuthOk \/ AuthFails \/ TcpOk \/ TcpFails
        \/ HandshakeOk \/ HandshakeFails \/ TakeResult \/ GiveUp \/ Reclaim
        \/ NextOk \/ NextFails \/ CloseSession \/ ContextEnds
        \/ \E i \in 1..Hops : LinkDrops(i)

SafeSpec == Init /\ [][Next]_vars

\* Goroutines are scheduled, the timer fires, a dial ends when its context
\* does and a handshake when its connection is closed under it.  Servers
\* answer when they like, or never.
Fairness ==
  /\ WF_vars(AuthOk \/ AuthFails) /\ WF_vars(ctx = "done" /\ TcpFails)
  /\ WF_vars(TakeResult \/ GiveUp) /\ WF_vars(Reclaim)
  /\ WF_vars(conn[1] = "closed" /\ HandshakeFails)
  /\ WF_vars(conn[hop] = "closed" /\ NextFails)
  /\ WF_vars(ContextEnds)

Spec == SafeSpec /\ Fairness

-----------------------------------------------------------------------------
(* Properties *)

States == {"auth", "tcp", "select", "handshake", "failed", "connected", "closed"}

TypeOK ==
  /\ hops \in 1..Hops /\ pc \in States /\ hop \in 1..hops /\ ctx \in {"live", "done"}
  /\ conn \in [1..Hops -> {"none", "open", "closed"}]
  /\ client \in [1..Hops -> {"none", "open", "closed"}]
  /\ hs \in {"none", "running", "done"}
  /\ result \in {"empty", "client", "error"}
  /\ reclaim \in {"none", "waiting", "done"}

Returned == pc \in {"failed", "connected", "closed"}
Settled == hs # "running" /\ reclaim # "waiting"

\* A hop is reached through the open clients of all hops before it: none of
\* them is closed or replaced while the dial goes on.
ChainUnbroken ==
  \A i \in 1..Hops : conn[i] = "open" => \A j \in 1..i - 1 : client[j] = "open"

\* "Reclaim a client whose handshake ends late, against orphaned connections"
\* (comment of dialWithContext): when Connect has failed, or its session was
\* closed, and the goroutines have ended, nothing is left of the hop it
\* stopped at.  The clients of the hops before it are left open.
OnlyEarlierHopsRemain ==
  pc \in {"failed", "closed"} /\ Settled =>
    \A i \in 1..Hops : conn[i] = "open" \/ client[i] = "open" => i < hop

\* The first hop honours the timeout, even with a server that stalls.
FirstHopTimesOut == (pc = "select" /\ ctx = "done") ~> (pc # "select")

\* A handshake that outlives the timeout is always cleaned up.
LateHandshakeReclaimed == (pc = "failed" /\ hs = "running") ~> (Settled /\ client[1] # "open")

\* SSH_PLUGIN_TIMEOUT_SECONDS is the timeout of the SSH dial (README of the
\* plugin): when it expires, Connect returns.
DialTimesOut == (ctx = "done") ~> Returned
=============================================================================
