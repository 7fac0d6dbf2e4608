------------------------- MODULE HostConnectProofs -------------------------
(***************************************************************************)
(* HostConnect for hosts with any number of gateways, and its two parts,   *)
(* each for itself.                                                        *)
(*                                                                         *)
(* The dial: beyond the hop Connect is at nothing is open, before it       *)
(* nothing changes but by a broken link, and the states of the hop itself  *)
(* follow the phases of the dial.  The sort: whatever the comparison       *)
(* answers, and it is not even an order for weights that are far apart,    *)
(* only swaps change the copy, so no gateway is lost or doubled; where it  *)
(* is one, the elements before the inserted one are in order.  What holds  *)
(* of the parts holds in their composition, since each of its steps is a   *)
(* step of the one or the other; two properties need both.                 *)
(***************************************************************************)
EXTENDS HostConnect, TLAPS

-----------------------------------------------------------------------------
(* THE DIAL *)

Open(i) == conn[i] = "open" \/ client[i] = "open"

\* What is open in which phase of the caller.
PhaseInv ==
  /\ \A i \in 1..Hops : i > hop => ~Open(i)
  /\ \A i \in 1..Hops : i < hop /\ conn[i] = "open" => client[i] = "open"
  /\ pc \in {"auth", "tcp"} => ~Open(hop)
  /\ pc = "handshake" => client[hop] # "open" /\ hop > 1
  /\ pc = "failed" => conn[hop] # "open"
  /\ pc = "failed" /\ reclaim # "waiting" => client[hop] # "open"
  /\ pc \in {"connected", "closed"} => hop = hops
  /\ pc = "closed" => ~Open(hops)

\* The first handshake, its result and who takes it.
ResultInv ==
  /\ pc = "select" => hop = 1 /\ reclaim = "none"
  /\ hs = "running" => hop = 1 /\ pc \in {"select", "failed"} /\ result = "empty"
                       /\ client[1] # "open"
  /\ result # "empty" => hop = 1 /\ pc \in {"select", "failed"} /\ hs = "done"
  /\ result = "client" /\ conn[1] = "open" => client[1] = "open"
  /\ result = "error" => ~Open(1)
  /\ reclaim # "none" => hop = 1 /\ pc = "failed"
  /\ pc = "failed" /\ (hs = "running" \/ result # "empty") => reclaim = "waiting"

IInv == TypeOK /\ ChainUnbroken /\ PhaseInv /\ ResultInv

-----------------------------------------------------------------------------
(* The steps of the caller *)

LEMMA InitIInv == Init => IInv
  BY HopsAssumption
     DEF Init, IInv, TypeOK, States, ChainUnbroken, PhaseInv, ResultInv, Open

LEMMA AuthKeeps == ASSUME IInv, AuthOk \/ AuthFails PROVE IInv'
  BY HopsAssumption DEF AuthOk, AuthFails, Goto, goVars, IInv, TypeOK, States,
     ChainUnbroken, PhaseInv, ResultInv, Open

LEMMA TcpKeeps == ASSUME IInv, TcpOk \/ TcpFails PROVE IInv'
  BY HopsAssumption DEF TcpOk, TcpFails, Goto, goVars, IInv, TypeOK, States,
     ChainUnbroken, PhaseInv, ResultInv, Open

LEMMA SelectKeeps == ASSUME IInv, TakeResult \/ GiveUp PROVE IInv'
  BY HopsAssumption DEF TakeResult, GiveUp, Advance, Goto, goVars, IInv, TypeOK, States,
     ChainUnbroken, PhaseInv, ResultInv, Open

LEMMA NextHopKeeps == ASSUME IInv, NextOk \/ NextFails PROVE IInv'
  BY HopsAssumption DEF NextOk, NextFails, Advance, Goto, goVars, IInv, TypeOK, States,
     ChainUnbroken, PhaseInv, ResultInv, Open

LEMMA CloseKeeps == ASSUME IInv, CloseSession PROVE IInv'
  BY HopsAssumption DEF CloseSession, Goto, goVars, IInv, TypeOK, States,
     ChainUnbroken, PhaseInv, ResultInv, Open

-----------------------------------------------------------------------------
(* The other goroutines and the network *)

LEMMA HandshakeKeeps == ASSUME IInv, HandshakeOk \/ HandshakeFails PROVE IInv'
  BY HopsAssumption DEF HandshakeOk, HandshakeFails, goVars, IInv, TypeOK, States,
     ChainUnbroken, PhaseInv, ResultInv, Open

LEMMA ReclaimKeeps == ASSUME IInv, Reclaim PROVE IInv'
  BY HopsAssumption DEF Reclaim, IInv, TypeOK, States,
     ChainUnbroken, PhaseInv, ResultInv, Open

LEMMA DropKeeps == ASSUME IInv, NEW i \in 1..Hops, LinkDrops(i) PROVE IInv'
  BY HopsAssumption DEF LinkDrops, goVars, IInv, TypeOK, States,
     ChainUnbroken, PhaseInv, ResultInv, Open

LEMMA ContextKeeps == ASSUME IInv, ContextEnds PROVE IInv'
  BY DEF ContextEnds, goVars, IInv, TypeOK, ChainUnbroken, PhaseInv, ResultInv, Open

LEMMA StutterKeeps == ASSUME IInv, UNCHANGED vars PROVE IInv'
  BY DEF vars, IInv, TypeOK, ChainUnbroken, PhaseInv, ResultInv, Open

\* IInv holds in every reachable state: it holds at the start and every step of
\* the code keeps it.
THEOREM Invariance == SafeSpec => []IInv
<1>1. IInv /\ [Next]_vars => IInv'
  BY AuthKeeps, TcpKeeps, SelectKeeps, NextHopKeeps, CloseKeeps, HandshakeKeeps,
     ReclaimKeeps, DropKeeps, ContextKeeps, StutterKeeps DEF Next
<1>. QED
  BY InitIInv, <1>1, PTL DEF SafeSpec

-----------------------------------------------------------------------------
(* The properties *)

\* The types of all variables; hop never leaves the chain.
THEOREM TypeCorrectness == Spec => []TypeOK
<1>1. IInv => TypeOK
  BY DEF IInv
<1>. QED
  BY Invariance, <1>1, PTL DEF Spec

\* ConnectToNextJumpHost goes through open clients only.
THEOREM ChainsAreUnbroken == Spec => []ChainUnbroken
<1>1. IInv => ChainUnbroken
  BY DEF IInv
<1>. QED
  BY Invariance, <1>1, PTL DEF Spec

\* A Connect that failed, or a session that was closed, leaves at most the hops
\* before the one it stopped at, however the first handshake, the timeout and
\* the reclaiming goroutine interleave.
THEOREM NothingOfTheHopRemains == Spec => []OnlyEarlierHopsRemain
<1>1. IInv => OnlyEarlierHopsRemain
  BY HopsAssumption
     DEF IInv, TypeOK, PhaseInv, ResultInv, OnlyEarlierHopsRemain, Settled, Open
<1>. QED
  BY Invariance, <1>1, PTL DEF Spec

-----------------------------------------------------------------------------
(* THE SORT *)

Positions == 1..Len(gateways)

\* p says where each element of the copy came from, q where each gateway went.
Inverse2(p, q) ==
  /\ p \in [Positions -> Positions] /\ q \in [Positions -> Positions]
  /\ \A k \in Positions : p[q[k]] = k /\ q[p[k]] = k

Shuffled == \E p, q \in [Positions -> Positions] : Inverse2(p, q) /\ Rearranges(p)

ChainOf ==
  Append([k \in 1..Len(data) |-> ToEndpoint(data[k].name, data[k].auth)],
         ToEndpoint(0, target.auth))

SortInv ==
  /\ target \in ConnectionTarget /\ Named(target)
  /\ data \in Seq(Gateway) /\ Len(data) = Len(gateways)
  /\ at \in Nat /\ pos \in Nat /\ 2 <= at /\ 1 <= pos /\ pos <= at
  /\ at > Len(data) => pos = at
  /\ Shuffled
  /\ chain # <<>> => at > Len(data) /\ chain = ChainOf

-----------------------------------------------------------------------------

LEMMA InitSortInv == SortInit => SortInv
<1>. SUFFICES ASSUME SortInit PROVE SortInv
  OBVIOUS
<1>1. /\ target \in ConnectionTarget /\ Named(target)
      /\ data \in Seq(Gateway) /\ data = gateways
  BY TargetsAssumption DEF SortInit, gateways, ConnectionTarget
<1>2. Shuffled
  <2>. DEFINE id == [k \in Positions |-> k]
  <2>1. id \in [Positions -> Positions] /\ Inverse2(id, id)
    BY DEF Inverse2
  <2>2. Rearranges(id)
    BY <1>1 DEF Rearranges, Positions
  <2>. QED
    BY <2>1, <2>2 DEF Shuffled
<1>. QED
  BY <1>1, <1>2 DEF SortInit, SortInv

\* Exchanging two elements of the copy exchanges where they came from.
LEMMA SwapShuffles == ASSUME SortInv, Swap PROVE Shuffled'
<1>. DEFINE a == pos - 1  b == pos
<1>1. /\ a \in Positions /\ b \in Positions /\ a # b
      /\ data' = [data EXCEPT ![b] = data[a], ![a] = data[b]]
      /\ data \in Seq(Gateway) /\ DOMAIN data = Positions
      /\ gateways' = gateways
  BY DEF SortInv, Swap, Positions, gateways
<1>2. PICK p, q \in [Positions -> Positions] : Inverse2(p, q) /\ Rearranges(p)
  BY DEF SortInv, Shuffled
<1>. DEFINE turn(k) == IF k = a THEN b ELSE IF k = b THEN a ELSE k
            pp == [k \in Positions |-> p[turn(k)]]
            qq == [k \in Positions |-> turn(q[k])]
<1>3. \A k \in Positions : turn(k) \in Positions /\ turn(turn(k)) = k
  BY <1>1
<1>4. pp \in [Positions -> Positions] /\ qq \in [Positions -> Positions]
  BY <1>2, <1>3
<1>5. \A k \in Positions : pp[qq[k]] = k /\ qq[pp[k]] = k
  <2>. SUFFICES ASSUME NEW k \in Positions PROVE pp[qq[k]] = k /\ qq[pp[k]] = k
    OBVIOUS
  <2>1. q[k] \in Positions /\ turn(k) \in Positions /\ p[turn(k)] \in Positions
    BY <1>2, <1>3
  <2>2. pp[qq[k]] = p[turn(turn(q[k]))] /\ qq[pp[k]] = turn(q[p[turn(k)]])
    BY <2>1, <1>3
  <2>. QED
    BY <2>1, <2>2, <1>2, <1>3 DEF Inverse2
<1>6. \A k \in Positions : data'[k] = gateways[pp[k]]
  <2>. SUFFICES ASSUME NEW k \in Positions PROVE data'[k] = data[turn(k)]
    BY <1>2, <1>3 DEF Rearranges, Positions
  <2>. QED
    BY <1>1
<1>. HIDE DEF pp, qq
<1>7. PICK f, g \in [Positions -> Positions] :
        \A k \in Positions : f[g[k]] = k /\ g[f[k]] = k /\ data'[k] = gateways[f[k]]
  BY <1>4, <1>5, <1>6
<1>8. Inverse2(f, g)' /\ Rearranges(f)' /\ Positions' = Positions
  BY <1>1, <1>7 DEF Inverse2, Rearranges, Positions
<1>. QED
  BY <1>8 DEF Shuffled

LEMMA SwapKeeps == ASSUME SortInv, Swap PROVE SortInv'
<1>1. data' \in Seq(Gateway) /\ Len(data') = Len(data)
  BY DEF SortInv, Swap
<1>. QED
  BY <1>1, SwapShuffles DEF SortInv, Swap, gateways

LEMMA PlacedKeeps == ASSUME SortInv, Placed PROVE SortInv'
<1>1. gateways' = gateways /\ data' = data /\ Shuffled'
  BY DEF SortInv, Placed, gateways, Shuffled, Inverse2, Rearranges, Positions
<1>. QED
  BY <1>1 DEF SortInv, Placed

LEMMA ReturnKeeps == ASSUME SortInv, Return PROVE SortInv'
<1>1. gateways' = gateways /\ data' = data /\ Shuffled'
  BY DEF SortInv, Return, gateways, Shuffled, Inverse2, Rearranges, Positions
<1>. QED
  BY <1>1 DEF SortInv, Return, ChainOf, ToEndpoint

LEMMA SortStutterKeeps == ASSUME SortInv, UNCHANGED sortVars PROVE SortInv'
<1>1. gateways' = gateways /\ data' = data /\ Shuffled'
  BY DEF SortInv, sortVars, gateways, Shuffled, Inverse2, Rearranges, Positions
<1>. QED
  BY <1>1 DEF SortInv, sortVars, ChainOf, ToEndpoint

LEMMA SortInvariance == SortSpec => []SortInv
<1>1. SortInv /\ [SortNext]_sortVars => SortInv'
  BY SwapKeeps, PlacedKeeps, ReturnKeeps, SortStutterKeeps DEF SortNext
<1>. QED
  BY InitSortInv, <1>1, PTL DEF SortSpec

-----------------------------------------------------------------------------

LEMMA ShuffledMeansOnce == SortInv => EveryGatewayOnce
<1>. SUFFICES ASSUME SortInv PROVE EveryGatewayOnce
  OBVIOUS
<1>1. PICK p, q \in [Positions -> Positions] : Inverse2(p, q) /\ Rearranges(p)
  BY DEF SortInv, Shuffled
<1>2. Permutes(p)
  <2>. SUFFICES ASSUME NEW k \in Positions, NEW l \in Positions, p[k] = p[l] PROVE k = l
    BY <1>1 DEF Permutes
  <2>. QED
    BY <1>1 DEF Inverse2
<1>. QED
  BY <1>1, <1>2 DEF EveryGatewayOnce, SortInv, Positions

\* ToGatewayChain keeps every gateway exactly once, for any number of gateways
\* and however their weights compare.
THEOREM NoGatewayLostOrDoubled == SortSpec => []EveryGatewayOnce
  BY SortInvariance, ShuffledMeansOnce, PTL

LEMMA GatewaysAreASequence ==
  ASSUME SortInv
  PROVE  /\ gateways \in Seq(Gateway) /\ Len(gateways) \in Nat /\ Len(data) = Len(gateways)
         /\ \A k \in Positions : gateways[k].name # 0
<1>1. gateways \in Seq(Gateway) /\ Len(data) = Len(gateways)
  BY DEF SortInv, ConnectionTarget, gateways
<1>2. \A k \in 1..Len(gateways) : gateways[k] \in Gateway
  BY <1>1
<1>3. \A g \in Gateway : g.name # 0
  BY DEF Gateway
<1>. QED
  BY <1>1, <1>2, <1>3 DEF Positions

LEMMA PositionOf == ASSUME SortInv, NEW l \in Positions
                    PROVE  Position(gateways[l].name) = l
<1>1. \A k \in Positions : gateways[k].name = gateways[l].name => k = l
  BY DEF SortInv, Named, Positions, gateways
<1>2. Position(gateways[l].name) \in Positions
      /\ gateways[Position(gateways[l].name)].name = gateways[l].name
  BY DEF Position, Positions
<1>. QED
  BY <1>1, <1>2

\* Where an element of the copy came from.
Came(k) == Position(data[k].name)

LEMMA WhereFrom ==
  ASSUME SortInv
  PROVE  /\ \A k \in Positions : Came(k) \in Positions /\ gateways[Came(k)] = data[k]
         /\ \A k, l \in Positions : Came(k) = Came(l) => k = l
         /\ \A k, l \in Positions : data[k] = gateways[l] => Came(k) = l
<1>1. PICK p, q \in [Positions -> Positions] : Inverse2(p, q) /\ Rearranges(p)
  BY DEF SortInv, Shuffled
<1>2. \A k \in Positions : p[k] \in Positions /\ data[k] = gateways[p[k]] /\ q[p[k]] = k
  BY <1>1 DEF Rearranges, Inverse2, Positions
<1>3. \A k, l \in Positions : data[k] = gateways[l] => Came(k) = l
  BY PositionOf DEF Came
<1>4. \A k \in Positions : Came(k) = p[k]
  BY <1>2, <1>3
<1>. QED
  BY <1>2, <1>3, <1>4

\* A result that fits does not wrap around, and then the comparison is the one of
\* the weights.
LEMMA Fits == ASSUME NEW n \in Weights PROVE Wrapped(n) = n
<1>1. Half \in Nat \ {0}
  BY HalfAssumption
<1>2. n + Half \in 0..2 * Half - 1
  BY <1>1 DEF Weights
<1>3. \A d \in Nat \ {0} : \A m \in 0..d - 1 : m % d = m
  OBVIOUS
<1>4. (n + Half) % (2 * Half) = n + Half
  BY <1>1, <1>2, <1>3
<1>. QED
  BY <1>1, <1>4 DEF Wrapped, Weights

LEMMA WeightsAreIntegers == \A g \in Gateway : g.sort \in Int
<1>1. Weights \subseteq Int
  BY HalfAssumption DEF Weights
<1>. QED
  BY <1>1 DEF Gateway

LEMMA ComparesWeights ==
  ASSUME SortInv, Comparable, NEW k \in Positions, NEW l \in Positions
  PROVE  Less(data[k], data[l]) <=> data[k].sort < data[l].sort
<1>1. PICK a \in Positions, b \in Positions : data[k] = gateways[a] /\ data[l] = gateways[b]
  BY WhereFrom
<1>2. data[k].sort - data[l].sort \in Weights
  BY <1>1 DEF Comparable, Positions
<1>3. data[k].sort \in Int /\ data[l].sort \in Int
  <2>1. data[k] \in Gateway /\ data[l] \in Gateway
    BY DEF SortInv, Positions
  <2>. QED
    BY <2>1, WeightsAreIntegers
<1>. QED
  BY <1>2, <1>3, Fits DEF Less

-----------------------------------------------------------------------------
(* The order *)

\* Elements l and k of the copy: the smaller weight first, of equal weights the one
\* that is listed first.
InOrder(l, k) ==
  \/ data[l].sort < data[k].sort
  \/ data[l].sort = data[k].sort /\ Came(l) < Came(k)

\* What an insertion has done so far: behind the element being inserted, all is as
\* it was; before, all but the element is in order; and the element goes before those
\* it has passed.
OrderInv ==
  /\ \A k \in Positions : k > at => data[k] = gateways[k]
  /\ at \in Positions => data[pos] = gateways[at]
  /\ Comparable =>
       /\ \A l, k \in Positions :
            l < k /\ k <= at /\ l # pos /\ k # pos => InOrder(l, k)
       /\ \A k \in Positions : pos < k /\ k <= at => data[pos].sort < data[k].sort

LEMMA InitOrderInv == SortInit => OrderInv
<1>. SUFFICES ASSUME SortInit PROVE OrderInv
  OBVIOUS
<1>1. at = 2 /\ pos = 2 /\ data = gateways
  BY DEF SortInit, gateways
<1>2. Len(gateways) \in Nat
  BY InitSortInv, GatewaysAreASequence
<1>. QED
  BY <1>1, <1>2 DEF OrderInv, Positions

LEMMA SwapKeepsOrder == ASSUME SortInv, OrderInv, Swap PROVE OrderInv'
<1>1. SortInv' /\ gateways' = gateways /\ Positions' = Positions /\ Comparable' = Comparable
  BY SwapKeeps DEF Swap, gateways, Positions, Comparable
<1>2. /\ at \in Positions /\ pos \in Positions /\ pos - 1 \in Positions
      /\ at \in Nat /\ pos \in 2..at /\ at' = at /\ pos' = pos - 1
  BY GatewaysAreASequence DEF SortInv, Swap, Positions
<1>3. \A k \in Positions : data'[k] = IF k = pos THEN data[pos - 1]
                                    ELSE IF k = pos - 1 THEN data[pos] ELSE data[k]
  BY <1>2 DEF Swap, SortInv, Positions
<1>4. \A k \in Positions : Came(k)' = IF k = pos THEN Came(pos - 1)
                                    ELSE IF k = pos - 1 THEN Came(pos) ELSE Came(k)
  BY <1>1, <1>3 DEF Came, Position
<1>5. \A k \in Positions : k \in Nat
  BY DEF Positions
<1>6. /\ \A k \in Positions : k > at' => data'[k] = gateways'[k]
      /\ at' \in Positions' => data'[pos'] = gateways'[at']
  BY <1>1, <1>2, <1>3, <1>5 DEF OrderInv
<1>7. ASSUME Comparable
      PROVE  /\ \A l, k \in Positions :
                  l < k /\ k <= at /\ l # pos - 1 /\ k # pos - 1 => InOrder(l, k)'
             /\ \A k \in Positions : pos - 1 < k /\ k <= at => data'[pos - 1].sort < data'[k].sort
  <2>1. data[pos].sort < data[pos - 1].sort
    BY <1>2, <1>7, ComparesWeights DEF Swap
  <2>2. ASSUME NEW l \in Positions, NEW k \in Positions,
               l < k, k <= at, l # pos - 1, k # pos - 1
        PROVE  InOrder(l, k)'
    <3>. DEFINE from(j) == IF j = pos THEN pos - 1 ELSE j
    <3>1. InOrder(from(l), from(k))
      <4>1. from(l) \in Positions /\ from(k) \in Positions
        BY <1>2
      <4>2. from(l) < from(k) /\ from(k) <= at /\ from(l) # pos /\ from(k) # pos
        BY <1>2, <1>5, <2>2
      <4>. QED
        BY <1>7, <4>1, <4>2 DEF OrderInv
    <3>2. /\ data'[l] = data[from(l)] /\ data'[k] = data[from(k)]
          /\ Came(l)' = Came(from(l)) /\ Came(k)' = Came(from(k))
      BY <1>3, <1>4, <2>2
    <3>. HIDE DEF from
    <3>. QED
      BY <3>1, <3>2 DEF InOrder
  <2>3. ASSUME NEW k \in Positions, pos - 1 < k, k <= at
        PROVE  data'[pos - 1].sort < data'[k].sort
    <3>1. data'[pos - 1] = data[pos]
      BY <1>2, <1>3
    <3>2. CASE k = pos
      BY <1>3, <2>1, <3>1, <3>2
    <3>3. CASE k # pos
      <4>1. pos < k /\ data'[k] = data[k]
        BY <1>2, <1>3, <1>5, <2>3, <3>3
      <4>. QED
        BY <1>7, <2>3, <3>1, <4>1 DEF OrderInv
    <3>. QED
      BY <3>2, <3>3
  <2>. QED
    BY <2>2, <2>3
<1>. QED
  BY <1>1, <1>2, <1>6, <1>7 DEF OrderInv

\* In front of the element being inserted, everything was listed before it.
LEMMA ListedBefore ==
  ASSUME SortInv, OrderInv, at \in Positions, NEW l \in Positions, l <= at, l # pos
  PROVE  Came(l) < at
<1>1. /\ Came(l) \in Positions /\ gateways[Came(l)] = data[l]
      /\ pos \in Positions /\ at \in Nat
  BY WhereFrom, GatewaysAreASequence DEF SortInv, Positions
<1>2. Came(pos) = at
  BY <1>1, WhereFrom DEF OrderInv
<1>3. Came(l) # at
  BY <1>1, <1>2, WhereFrom
<1>4. ~(Came(l) > at)
  <2>1. SUFFICES ASSUME Came(l) > at PROVE FALSE
    OBVIOUS
  <2>2. data[Came(l)] = gateways[Came(l)]
    BY <1>1, <2>1 DEF OrderInv
  <2>3. Came(Came(l)) = Came(l)
    BY <1>1, <2>2, WhereFrom
  <2>4. Came(l) = l
    BY <1>1, <2>3, WhereFrom
  <2>. QED
    BY <1>1, <2>1, <2>4 DEF Positions
<1>. QED
  BY <1>1, <1>3, <1>4 DEF Positions

LEMMA PlacedKeepsOrder == ASSUME SortInv, OrderInv, Placed PROVE OrderInv'
<1>1. /\ gateways' = gateways /\ Positions' = Positions /\ Comparable' = Comparable
      /\ data' = data /\ \A k : Came(k)' = Came(k)
  BY DEF Placed, gateways, Positions, Comparable, Came, Position
<1>2. /\ at \in Positions /\ pos \in Positions /\ at \in Nat /\ pos \in 1..at
      /\ at' = at + 1 /\ pos' = at + 1
      /\ Len(gateways) \in Nat
  BY GatewaysAreASequence DEF SortInv, Placed, Positions
<1>3. \A k \in Positions : k \in Nat
  BY DEF Positions
<1>4. /\ \A k \in Positions : k > at' => data'[k] = gateways'[k]
      /\ at' \in Positions' => data'[pos'] = gateways'[at']
  <2>1. \A k \in Positions : k > at => data[k] = gateways[k]
    BY DEF OrderInv
  <2>2. \A k \in Positions : k > at' => k > at
    BY <1>2, <1>3
  <2>3. at' > at
    BY <1>2
  <2>. QED
    BY <1>1, <1>2, <2>1, <2>2, <2>3
<1>5. ASSUME Comparable, NEW l \in Positions, NEW k \in Positions, l < k, k <= at
      PROVE  InOrder(l, k)
  <2>1. \A j \in Positions : data[j].sort \in Int
    <3>1. \A j \in Positions : data[j] \in Gateway
      BY DEF SortInv, Positions
    <3>. QED
      BY <3>1, WeightsAreIntegers
  <2>2. CASE l # pos /\ k # pos
    BY <1>5, <2>2 DEF OrderInv
  <2>3. CASE l = pos
    BY <1>5, <2>3 DEF OrderInv, InOrder
  <2>4. CASE k = pos
    <3>1. pos > 1 /\ pos - 1 \in Positions
      BY <1>2, <1>3, <1>5, <2>4 DEF Positions
    <3>2. ~(data[pos].sort < data[pos - 1].sort)
      BY <1>2, <1>5, <3>1, ComparesWeights DEF Placed
    <3>3. data[l].sort <= data[pos - 1].sort
      <4>1. CASE l = pos - 1
        BY <2>1, <4>1
      <4>2. CASE l # pos - 1
        <5>1. InOrder(l, pos - 1)
          <6>1. l < pos - 1 /\ pos - 1 <= at /\ l # pos /\ pos - 1 # pos
            BY <1>2, <1>3, <1>5, <2>4, <4>2
          <6>. QED
            BY <1>5, <3>1, <6>1 DEF OrderInv
        <5>. QED
          BY <2>1, <3>1, <5>1 DEF InOrder
      <4>. QED
        BY <4>1, <4>2
    <3>4. Came(l) < Came(k)
      <4>1. Came(l) < at
        BY <1>2, <1>3, <1>5, <2>4, ListedBefore
      <4>2. Came(k) = at
        BY <1>2, <2>4, WhereFrom DEF OrderInv
      <4>. QED
        BY <4>1, <4>2
    <3>. QED
      BY <2>1, <2>4, <3>1, <3>2, <3>3, <3>4 DEF InOrder
  <2>. QED
    BY <2>2, <2>3, <2>4
<1>6. \A l, k : InOrder(l, k)' <=> InOrder(l, k)
  BY <1>1 DEF InOrder
<1>7. ASSUME Comparable
      PROVE  /\ \A l, k \in Positions :
                  l < k /\ k <= at' /\ l # pos' /\ k # pos' => InOrder(l, k)'
             /\ \A k \in Positions : ~(pos' < k /\ k <= at')
  BY <1>2, <1>3, <1>5, <1>6, <1>7
<1>. QED
  BY <1>1, <1>4, <1>7 DEF OrderInv

LEMMA OthersKeepOrder == ASSUME OrderInv, Return \/ UNCHANGED sortVars PROVE OrderInv'
<1>1. UNCHANGED <<target, data, at, pos>>
  BY DEF Return, sortVars
<1>2. /\ gateways' = gateways /\ Positions' = Positions /\ Comparable' = Comparable
      /\ \A k : Came(k)' = Came(k)
  BY <1>1 DEF gateways, Positions, Comparable, Came, Position
<1>3. \A l, k : InOrder(l, k)' <=> InOrder(l, k)
  BY <1>1, <1>2 DEF InOrder
<1>. QED
  BY <1>1, <1>2, <1>3 DEF OrderInv

-----------------------------------------------------------------------------
(* The chain *)

LEMMA ChainParts ==
  ASSUME SortInv, chain # <<>>
  PROVE  /\ Len(chain) = Len(gateways) + 1
         /\ chain[Len(gateways) + 1] = ToEndpoint(0, target.auth)
         /\ \A k \in Positions : chain[k] = ToEndpoint(data[k].name, data[k].auth)
<1>. DEFINE n == Len(gateways)
            ep(k) == ToEndpoint(data[k].name, data[k].auth)
            front == [k \in 1..n |-> ep(k)]
            last == ToEndpoint(0, target.auth)
            S == {ep(k) : k \in 1..n} \union {last}
<1>1. Len(data) = n /\ n \in Nat /\ chain = Append(front, last)
  BY GatewaysAreASequence DEF SortInv, ChainOf
<1>2. front \in Seq(S) /\ Len(front) = n /\ last \in S
  BY <1>1
<1>. HIDE DEF S
<1>3. Len(chain) = n + 1 /\ chain[n + 1] = last /\ \A k \in 1..n : chain[k] = front[k]
  BY <1>1, <1>2
<1>. QED
  BY <1>3 DEF Positions

LEMMA OrderShows == SortInv /\ OrderInv => ChainInOrder
<1>. SUFFICES ASSUME SortInv, OrderInv, chain # <<>> PROVE ChainInOrder
  BY DEF ChainInOrder
<1>1. Len(gateways) \in Nat /\ at > Len(gateways) /\ pos = at /\ at \in Nat
  BY GatewaysAreASequence DEF SortInv
<1>2. /\ Len(chain) = Len(gateways) + 1 /\ chain[Len(chain)].name = 0
      /\ \A k \in Positions : chain[k].name = data[k].name
  <2>1. \A who, how : ToEndpoint(who, how).name = who
    BY DEF ToEndpoint
  <2>. QED
    BY <2>1, ChainParts
<1>3. ASSUME Comparable, NEW k \in 1..Len(chain) - 1, NEW l \in 1..k - 1
      PROVE  LET a == Position(chain[l].name)  b == Position(chain[k].name)
             IN  \/ gateways[a].sort < gateways[b].sort
                 \/ gateways[a].sort = gateways[b].sort /\ a < b
  <2>1. l \in Positions /\ k \in Positions /\ l < k /\ k <= at /\ l # pos /\ k # pos
    BY <1>1, <1>2 DEF Positions
  <2>2. InOrder(l, k)
    BY <1>3, <2>1 DEF OrderInv
  <2>3. gateways[Came(l)] = data[l] /\ gateways[Came(k)] = data[k]
    BY <2>1, WhereFrom
  <2>4. Position(chain[l].name) = Came(l) /\ Position(chain[k].name) = Came(k)
    BY <1>2, <2>1 DEF Came
  <2>. QED
    BY <2>2, <2>3, <2>4 DEF InOrder
<1>. QED
  BY <1>2, <1>3 DEF ChainInOrder

\* "The sorted chain of gateways and the host" (README of the plugin): for any number
\* of gateways the hops come in the order of their weights, those of equal weight as
\* listed, as long as no two weights are so far apart that their difference wraps.
THEOREM ChainIsSorted == SortSpec => []ChainInOrder
<1>1. SortInv /\ OrderInv /\ [SortNext]_sortVars => OrderInv'
  BY SwapKeepsOrder, PlacedKeepsOrder, OthersKeepOrder DEF SortNext
<1>. QED
  BY SortInvariance, InitOrderInv, <1>1, OrderShows, PTL DEF SortSpec

-----------------------------------------------------------------------------
(* THE COMPOSITION *)

ConnectInv ==
  /\ IInv /\ SortInv
  /\ hops = Len(gateways) + 1
  /\ pc # "auth" => chain # <<>>

LEMMA InitConnectInv == ConnectInit => ConnectInv
  BY InitIInv, InitSortInv DEF ConnectInit, ConnectInv, Init

\* The steps of the composition are steps of its parts.
LEMMA DialIsAStep == ASSUME HopAuthOk \/ HopAuthFails \/ Dial
                     PROVE  Next /\ UNCHANGED sortVars /\ chain # <<>>
  BY DEF HopAuthOk, HopAuthFails, Dial, Dialling, Next

LEMMA SortIsAStep == ASSUME ToGatewayChain PROVE SortNext /\ UNCHANGED vars
  BY DEF ToGatewayChain, SortNext

LEMMA StepsOfTheParts == [ConnectNext]_connectVars => [Next]_vars /\ [SortNext]_sortVars
<1>1. Resolve \/ ResolveFails => UNCHANGED <<vars, sortVars>>
  BY DEF Resolve, ResolveFails
<1>2. UNCHANGED connectVars => UNCHANGED <<vars, sortVars>>
  BY DEF connectVars
<1>. QED
  BY <1>1, <1>2, DialIsAStep, SortIsAStep DEF ConnectNext

LEMMA PartsKeep == ASSUME IInv, SortInv, [Next]_vars, [SortNext]_sortVars
                   PROVE  IInv' /\ SortInv'
<1>1. IInv'
  BY AuthKeeps, TcpKeeps, SelectKeeps, NextHopKeeps, CloseKeeps, HandshakeKeeps,
     ReclaimKeeps, DropKeeps, ContextKeeps, StutterKeeps DEF Next
<1>2. SortInv'
  BY SwapKeeps, PlacedKeeps, ReturnKeeps, SortStutterKeeps DEF SortNext
<1>. QED
  BY <1>1, <1>2

\* The length of the chain and its gateways are those of the beginning.
LEMMA FixedParts == ASSUME [Next]_vars, [SortNext]_sortVars
                    PROVE  hops' = hops /\ target' = target
<1>1. hops' = hops
  BY DEF Next, vars, AuthOk, AuthFails, TcpOk, TcpFails, HandshakeOk, HandshakeFails,
     TakeResult, GiveUp, Reclaim, NextOk, NextFails, CloseSession, ContextEnds, LinkDrops
<1>2. target' = target
  BY DEF SortNext, sortVars, Swap, Placed, Return
<1>. QED
  BY <1>1, <1>2

LEMMA ConnectKeeps == ConnectInv /\ [ConnectNext]_connectVars => ConnectInv'
<1>. SUFFICES ASSUME ConnectInv, [ConnectNext]_connectVars PROVE ConnectInv'
  OBVIOUS
<1>1. [Next]_vars /\ [SortNext]_sortVars
  BY StepsOfTheParts
<1>2. IInv' /\ SortInv' /\ hops' = Len(gateways') + 1
  BY <1>1, PartsKeep, FixedParts DEF ConnectInv, gateways
<1>3. pc' # "auth" => chain' # <<>>
  <2>1. CASE HopAuthOk \/ HopAuthFails \/ Dial
    BY <2>1, DialIsAStep DEF sortVars
  <2>2. CASE ToGatewayChain
    <3>1. pc' = pc /\ (chain' = chain \/ Return)
      BY <2>2 DEF ToGatewayChain, Swap, Placed, vars
    <3>2. Return => chain = <<>>
      BY DEF Return
    <3>. QED
      BY <3>1, <3>2 DEF ConnectInv
  <2>3. CASE Resolve \/ ResolveFails \/ UNCHANGED connectVars
    BY <2>3 DEF Resolve, ResolveFails, connectVars, vars, sortVars, ConnectInv
  <2>. QED
    BY <2>1, <2>2, <2>3 DEF ConnectNext
<1>. QED
  BY <1>2, <1>3 DEF ConnectInv

LEMMA ConnectInvariance == SafeConnectSpec => []ConnectInv
  BY InitConnectInv, ConnectKeeps, PTL DEF SafeConnectSpec

-----------------------------------------------------------------------------
(* The endpoints of the chain *)

LEMMA EndpointParts ==
  ASSUME NEW who, NEW how
  PROVE  ToEndpoint(who, how).name = who
         /\ ToEndpoint(who, how).auth = ToEndpoint(0, how).auth
  BY DEF ToEndpoint

LEMMA ChainLength == ASSUME ConnectInv, chain # <<>>
                     PROVE  /\ Len(gateways) \in Nat /\ Len(chain) = hops
                            /\ chain[hops].name = 0
                            /\ chain[hops].auth = ToEndpoint(0, target.auth).auth
                            /\ \A k \in 1..Len(gateways) :
                                 /\ chain[k].name = data[k].name
                                 /\ chain[k].auth = ToEndpoint(0, data[k].auth).auth
<1>1. hops = Len(gateways) + 1 /\ Len(gateways) \in Nat
  BY GatewaysAreASequence DEF ConnectInv
<1>2. /\ Len(chain) = hops /\ chain[hops] = ToEndpoint(0, target.auth)
      /\ \A k \in Positions : chain[k] = ToEndpoint(data[k].name, data[k].auth)
  BY <1>1, ChainParts DEF ConnectInv
<1>3. chain[hops].name = 0 /\ chain[hops].auth = ToEndpoint(0, target.auth).auth
  BY <1>2, EndpointParts
<1>4. ASSUME NEW k \in Positions
      PROVE  /\ chain[k].name = data[k].name
             /\ chain[k].auth = ToEndpoint(0, data[k].auth).auth
  BY <1>2, EndpointParts
<1>. QED
  BY <1>1, <1>2, <1>3, <1>4 DEF Positions

\* Every element of the copy is one gateway, and every gateway is in it.
LEMMA CopyIsTheGateways ==
  ASSUME ConnectInv
  PROVE  /\ \A k \in Positions : \E l \in Positions : data[k] = gateways[l]
         /\ \A l \in Positions : \E k \in Positions : data[k] = gateways[l]
<1>1. PICK p, q \in [Positions -> Positions] : Inverse2(p, q) /\ Rearranges(p)
  BY DEF ConnectInv, SortInv, Shuffled
<1>2. \A k \in Positions : p[k] \in Positions /\ data[k] = gateways[p[k]]
  BY <1>1 DEF Rearranges, Positions
<1>3. \A l \in Positions : q[l] \in Positions /\ p[q[l]] = l
  BY <1>1 DEF Inverse2
<1>4. ASSUME NEW l \in Positions PROVE \E k \in Positions : data[k] = gateways[l]
  <2>1. q[l] \in Positions /\ data[q[l]] = gateways[l]
    BY <1>2, <1>3
  <2>. QED
    BY <2>1
<1>. QED
  BY <1>2, <1>4

-----------------------------------------------------------------------------
(* The properties of the parts *)

\* openSSHSession dials and sorts as its parts say: whatever the order of the steps,
\* its behaviours are behaviours of either.
THEOREM PartsAreImplemented == ConnectSpec => SafeSpec /\ SortSpec
<1>1. ConnectInit => Init /\ SortInit
  BY DEF ConnectInit
<1>. QED
  BY <1>1, StepsOfTheParts, PTL DEF ConnectSpec, SafeConnectSpec, SafeSpec, SortSpec

\* The guarantees of the dial hold in openSSHSession: it goes through open
\* clients only, and leaves nothing of the hop it stopped at.
THEOREM DialInHostConnect == ConnectSpec => [](ChainUnbroken /\ OnlyEarlierHopsRemain)
<1>1. ConnectInv => ChainUnbroken /\ OnlyEarlierHopsRemain
  BY HopsAssumption
     DEF ConnectInv, IInv, TypeOK, PhaseInv, ResultInv, OnlyEarlierHopsRemain, Settled, Open
<1>. QED
  BY ConnectInvariance, <1>1, PTL DEF ConnectSpec

\* Whatever the dial does, the chain it goes along has every gateway once.
THEOREM SortInHostConnect == ConnectSpec => []EveryGatewayOnce
<1>1. ConnectInv => EveryGatewayOnce
  BY ShuffledMeansOnce DEF ConnectInv
<1>. QED
  BY ConnectInvariance, <1>1, PTL DEF ConnectSpec

\* The hops a session is dialled along come in the order of the weights.
THEOREM OrderInHostConnect == ConnectSpec => []ChainInOrder
<1>1. ConnectInit => OrderInv
  BY InitOrderInv DEF ConnectInit
<1>2. ConnectInv /\ OrderInv /\ [ConnectNext]_connectVars => OrderInv'
  BY StepsOfTheParts, SwapKeepsOrder, PlacedKeepsOrder, OthersKeepOrder
     DEF SortNext, ConnectInv
<1>3. ConnectInv /\ OrderInv => ChainInOrder
  BY OrderShows DEF ConnectInv
<1>. QED
  BY ConnectInvariance, <1>1, <1>2, <1>3, PTL DEF ConnectSpec, SafeConnectSpec

-----------------------------------------------------------------------------
(* The properties of the composition *)

\* A session that openSSHSession returns is one of the host, reached through
\* every gateway the host lists.
THEOREM SessionsEndAtHost == ConnectSpec => []EndsAtHost
<1>1. ConnectInv => EndsAtHost
  <2>. SUFFICES ASSUME ConnectInv, pc \in {"connected", "closed"}
                PROVE  /\ chain[hop].name = 0
                       /\ \A k \in 1..Len(gateways) :
                            \E l \in 1..hop - 1 : chain[l].name = gateways[k].name
    BY DEF EndsAtHost
  <2>1. chain # <<>> /\ hop = hops /\ hops = Len(gateways) + 1 /\ Len(gateways) \in Nat
    BY ChainLength DEF ConnectInv, IInv, PhaseInv
  <2>2. chain[hop].name = 0
    BY <2>1, ChainLength
  <2>3. ASSUME NEW k \in 1..Len(gateways)
        PROVE  \E l \in 1..hop - 1 : chain[l].name = gateways[k].name
    <3>1. PICK l \in Positions : data[l] = gateways[k]
      BY CopyIsTheGateways DEF Positions
    <3>2. l \in 1..hop - 1 /\ chain[l].name = gateways[k].name
      BY <3>1, <2>1, ChainLength DEF Positions
    <3>. QED
      BY <3>2
  <2>. QED
    BY <2>2, <2>3
<1>. QED
  BY ConnectInvariance, <1>1, PTL DEF ConnectSpec

LEMMA InFront == ASSUME NEW n \in Nat, NEW k \in 1..n + 1, k # n + 1 PROVE k \in 1..n
  OBVIOUS

LEMMA RefusedOnlyAtAuth ==
  ASSUME ConnectInv, [ConnectNext]_connectVars, pc = "auth", pc' = "failed"
  PROVE  HopAuthFails
<1>1. ~(UNCHANGED pc)
  OBVIOUS
<1>2. CASE Dial
  BY <1>2 DEF Dial, TcpOk, TcpFails, HandshakeOk, HandshakeFails, TakeResult, GiveUp,
     Reclaim, NextOk, NextFails, CloseSession, ContextEnds, LinkDrops, Goto, Advance
<1>3. CASE Resolve \/ ResolveFails \/ ToGatewayChain \/ UNCHANGED connectVars
  BY <1>1, <1>3 DEF Resolve, ResolveFails, ToGatewayChain, connectVars, vars
<1>4. CASE HopAuthOk
  BY <1>4 DEF HopAuthOk, AuthOk, Goto
<1>. QED
  BY <1>2, <1>3, <1>4 DEF ConnectNext

\* A hop whose record leaves the way to authenticate open is dialled with the
\* default and never refused before.
THEOREM DefaultsAreNeverRefused == ConnectSpec => DefaultNeverRefused
<1>1. ConnectInv /\ [ConnectNext]_connectVars
        => (pc = "auth" /\ pc' = "failed" => ListedAuth(hop) # "")
  <2>. SUFFICES ASSUME ConnectInv, [ConnectNext]_connectVars, pc = "auth", pc' = "failed",
                       ListedAuth(hop) = ""
                PROVE  FALSE
    OBVIOUS
  <2>1. chain # <<>> /\ chain[hop].auth # "passwd"
    BY RefusedOnlyAtAuth DEF HopAuthFails, Dialling
  <2>2. hop \in 1..hops /\ hops = Len(gateways) + 1 /\ Len(gateways) \in Nat
    BY <2>1, ChainLength DEF ConnectInv, IInv, TypeOK
  <2>3. CASE hop = hops
    BY <2>1, <2>3, ChainLength DEF ListedAuth, ToEndpoint
  <2>4. CASE hop # hops
    <3>1. hop \in Positions
      BY <2>2, <2>4, InFront DEF Positions
    <3>2. PICK l \in Positions : data[hop] = gateways[l]
      BY <3>1, CopyIsTheGateways
    <3>3. chain[hop].name = gateways[l].name
          /\ chain[hop].auth = ToEndpoint(0, gateways[l].auth).auth
      BY <2>1, <3>1, <3>2, ChainLength DEF Positions
    <3>4. gateways[l].name # 0
      BY GatewaysAreASequence DEF ConnectInv
    <3>5. ListedAuth(hop) = gateways[l].auth
      BY <3>2, <3>3, <3>4, PositionOf DEF ListedAuth, ConnectInv
    <3>. QED
      BY <2>1, <3>3, <3>5 DEF ToEndpoint
  <2>. QED
    BY <2>3, <2>4
<1>. QED
  BY ConnectInvariance, <1>1, PTL DEF ConnectSpec, SafeConnectSpec, DefaultNeverRefused
=============================================================================
