------------------------- MODULE SessionLifecycle -------------------------
(***************************************************************************)
(* What the session store of the SSH plugin promises about one SSH         *)
(* connection, with none of the locks, goroutines or HTTP requests that    *)
(* keep the promise.  A connection is opened, published under a token that *)
(* names no other live connection, taken out of circulation once, and then *)
(* closed once.  A connection for which no token could be allocated is     *)
(* abandoned: nothing will ever close it.                                  *)
(***************************************************************************)
CONSTANTS Sessions, Tokens, NoToken

VARIABLES phase,    \* phase[s]: how far session s is in its life
          name      \* name[s]: the token s is published under, or NoToken

vars == <<phase, name>>

Phases == {"absent", "open", "live", "retired", "closed", "abandoned"}

TypeOK == /\ phase \in [Sessions -> Phases]
          /\ name \in [Sessions -> Tokens \union {NoToken}]

Init == /\ phase = [s \in Sessions |-> "absent"]
        /\ name = [s \in Sessions |-> NoToken]

Advance(s, from, to) == /\ phase[s] = from
                        /\ phase' = [phase EXCEPT ![s] = to]

Open(s) == Advance(s, "absent", "open") /\ UNCHANGED name

\* A token names at most one live session.
Publish(s, tok) ==
  /\ Advance(s, "open", "live")
  /\ \A o \in Sessions : phase[o] = "live" => name[o] # tok
  /\ name' = [name EXCEPT ![s] = tok]

Abandon(s) == Advance(s, "open", "abandoned") /\ UNCHANGED name

Retire(s) == Advance(s, "live", "retired") /\ UNCHANGED name

Close(s) == Advance(s, "retired", "closed") /\ UNCHANGED name

Settle(s) == Abandon(s) \/ \E tok \in Tokens : Publish(s, tok)

Step(s) == Open(s) \/ Settle(s) \/ Retire(s) \/ Close(s)

Next == \E s \in Sessions : Step(s)

Spec == Init /\ [][Next]_vars
===========================================================================
