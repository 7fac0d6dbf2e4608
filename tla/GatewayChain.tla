---------------------------- MODULE GatewayChain ----------------------------
(***************************************************************************)
(* ConnectionTarget.ToGatewayChain of definition.go: the gateways of a     *)
(* host are copied, sorted by weight, turned into endpoints and followed   *)
(* by the host itself.                                                     *)
(*                                                                         *)
(* slices.SortFunc sorts up to twelve elements by insertion, and that is   *)
(* the algorithm of the model, one action per comparison.  Weights are Go  *)
(* integers: their difference wraps around.                                *)
(***************************************************************************)
EXTENDS Integers, Sequences

CONSTANTS Targets,  \* hosts with their gateways, as the main site describes them
          Half      \* half of the values of an int: 2^63 in the code

Weights == -Half .. Half - 1
AuthTypes == {"passwd", "publickey", "passphrase"}
Gateway == [name : Nat \ {0}, sort : Weights, auth : AuthTypes \union {""}]
ConnectionTarget == [auth : AuthTypes \union {""}, gateways : Seq(Gateway)]

ASSUME HalfAssumption == Half \in Nat \ {0}

\* A name stands for one element of t.Gateways; 0 is the host.
Named(t) ==
  \A k, l \in 1..Len(t.gateways) : t.gateways[k].name = t.gateways[l].name => k = l

ASSUME TargetsAssumption ==
  Targets \subseteq ConnectionTarget /\ \A t \in Targets : Named(t)

VARIABLES
  target,     \* t, which belongs to the caller
  data,       \* the copy that is sorted
  at, pos,    \* the element being inserted, and where it is now
  chain       \* the result, <<>> before

gateways == target.gateways
sortVars == <<target, data, at, pos, chain>>

SortInit ==
  /\ target \in Targets
  /\ data = target.gateways
  /\ at = 2 /\ pos = 2
  /\ chain = <<>>

\* The integer a result n wraps around to.
Wrapped(n) == ((n + Half) % (2 * Half)) - Half

\* Mutant of Less: the larger weight first.
LessReversed(a, b) == Wrapped(b.sort - a.sort) < 0

\* The comparison of ToGatewayChain is negative.
Less(a, b) == Wrapped(a.sort - b.sort) < 0

\* Mutant of Swap: the element is copied down, not swapped.
SwapCopies ==
  /\ at <= Len(data) /\ pos > 1 /\ Less(data[pos], data[pos - 1])
  /\ data' = [data EXCEPT ![pos] = data[pos - 1]]
  /\ pos' = pos - 1
  /\ UNCHANGED <<target, at, chain>>

Swap ==
  /\ at <= Len(data) /\ pos > 1 /\ Less(data[pos], data[pos - 1])
  /\ data' = [data EXCEPT ![pos] = data[pos - 1], ![pos - 1] = data[pos]]
  /\ pos' = pos - 1
  /\ UNCHANGED <<target, at, chain>>

\* The element is in its place; on with the next one.
Placed ==
  /\ at <= Len(data) /\ (pos > 1 => ~Less(data[pos], data[pos - 1]))
  /\ at' = at + 1 /\ pos' = at + 1
  /\ UNCHANGED <<target, data, chain>>

\* Mutant of ToEndpoint: no default for the way to authenticate.
ToEndpointBare(name, auth) == [name |-> name, auth |-> auth]

\* toEndpoint; the host is name 0.  Passwords, keys and ports are copied.
ToEndpoint(name, auth) ==
  [name |-> name, auth |-> IF auth = "" THEN "passwd" ELSE auth]

Return ==
  /\ at > Len(data) /\ chain = <<>>
  /\ chain' = Append([k \in 1..Len(data) |-> ToEndpoint(data[k].name, data[k].auth)],
                     ToEndpoint(0, target.auth))
  /\ UNCHANGED <<target, data, at, pos>>

SortNext == Swap \/ Placed \/ Return

SortSpec == SortInit /\ [][SortNext]_sortVars

-----------------------------------------------------------------------------
(* Properties *)

SortTypeOK ==
  /\ target \in ConnectionTarget
  /\ data \in Seq(Gateway)
  /\ at \in 2..Len(data) + 2 /\ pos \in 1..at
  /\ chain \in Seq([name : Nat, auth : AuthTypes])

\* A permutation of the positions that sends data to the gateways it came from.
Rearranges(p) ==
  \A k \in 1..Len(gateways) : data[k] = gateways[p[k]]

Permutes(p) == \A k, l \in DOMAIN p : p[k] = p[l] => k = l

\* The chain goes through every gateway exactly once, however inconsistent the
\* comparison of far-apart weights may be.
EveryGatewayOnce ==
  /\ Len(data) = Len(gateways)
  /\ \E p \in [1..Len(gateways) -> 1..Len(gateways)] : Permutes(p) /\ Rearranges(p)

\* No two weights are so far apart that their difference wraps around.
Comparable ==
  \A k, l \in 1..Len(gateways) : gateways[k].sort - gateways[l].sort \in Weights

Position(name) == CHOOSE k \in 1..Len(gateways) : gateways[k].name = name

\* "The sorted chain of gateways and the host" (README of the plugin): hops
\* come in the order of their weights, those of equal weight in the order the
\* host lists them, and the host is the last hop.
ChainInOrder ==
  chain # <<>> =>
    /\ chain[Len(chain)].name = 0 /\ Len(chain) = Len(gateways) + 1
    /\ Comparable => \A k \in 1..Len(chain) - 1 : \A l \in 1..k - 1 :
         LET a == Position(chain[l].name)  b == Position(chain[k].name)
         IN  \/ gateways[a].sort < gateways[b].sort
             \/ gateways[a].sort = gateways[b].sort /\ a < b
=============================================================================
