-------------------------- MODULE GuacTunnelProofs --------------------------
(***************************************************************************)
(* Safety of GuacTunnel for any stream of instructions, any parameters and *)
(* whatever guacd asks for: the outcome of the handshake, the instructions *)
(* the browser gets, and what is still written after Stop.                 *)
(***************************************************************************)
EXTENDS GuacTunnel, Integers, WellFoundedInduction, SequenceTheorems, TLAPS

-----------------------------------------------------------------------------
(* Flattening a sequence of sequences *)

LEMMA LeastOf ==
  ASSUME NEW S \in SUBSET Nat, S # {}
  PROVE  \E m \in S : \A k \in S : m <= k
<1>. DEFINE R == OpToRel(<, Nat)
<1>1. IsWellFoundedOn(R, Nat)
  BY NatLessThanWellFounded
<1>. HIDE DEF R
<1>2. PICK m \in S : \A k \in S : ~ (<<k, m>> \in R)
  BY <1>1, WFMin
<1>3. \A k \in S : m \in Nat /\ k \in Nat /\ <<k, m>> \in Nat \X Nat /\ ~(k < m)
  BY <1>2 DEF R, OpToRel
<1>4. ASSUME NEW k \in S PROVE m <= k
  <2>1. m \in Nat /\ k \in Nat /\ ~(k < m)
    BY <1>3
  <2>. QED
    BY <2>1
<1>. QED
  BY <1>4

\* Induction up to n, over a set.
LEMMA UpTo ==
  ASSUME NEW n \in Nat, NEW S, 0 \in S, \A k \in 0..n - 1 : k \in S => k + 1 \in S
  PROVE  0..n \subseteq S
<1>. DEFINE T == (0..n) \ S
<1>1. SUFFICES ASSUME T # {} PROVE FALSE
  OBVIOUS
<1>2. T \in SUBSET Nat
  OBVIOUS
<1>3. PICK m \in T : \A k \in T : m <= k
  BY <1>1, <1>2, LeastOf
<1>4. m # 0 /\ m - 1 \in 0..n - 1 /\ m - 1 \notin T
  BY <1>3
<1>5. (m - 1) + 1 \in S
  BY <1>4
<1>. QED
  BY <1>3, <1>5

\* The parts of s up to each place, put together.
Partial(s, f) ==
  /\ f[0] = <<>>
  /\ \A i \in 1..Len(s) : f[i] = f[i - 1] \o s[i]

LEMMA PartialExists ==
  ASSUME NEW X, NEW s \in Seq(Seq(X))
  PROVE  \E f \in [0..Len(s) -> Seq(X)] : Partial(s, f)
<1>. DEFINE upTo(n) == \E f \in [0..n -> Seq(X)] :
              f[0] = <<>> /\ \A i \in 1..n : f[i] = f[i - 1] \o s[i]
            S == {n \in 0..Len(s) : upTo(n)}
<1>1. Len(s) \in Nat
  OBVIOUS
<1>2. upTo(0)
  <2>. DEFINE e == [i \in 0..0 |-> <<>>]
  <2>1. e \in [0..0 -> Seq(X)] /\ e[0] = <<>> /\ 1..0 = {}
    OBVIOUS
  <2>. HIDE DEF e
  <2>. QED
    BY <2>1
<1>3. ASSUME NEW n \in 0..Len(s) - 1, upTo(n) PROVE upTo(n + 1)
  <2>1. PICK f \in [0..n -> Seq(X)] : f[0] = <<>> /\ \A i \in 1..n : f[i] = f[i - 1] \o s[i]
    BY <1>3
  <2>. DEFINE g == [i \in 0..n + 1 |-> IF i = n + 1 THEN f[n] \o s[n + 1] ELSE f[i]]
  <2>2. n \in Nat /\ s[n + 1] \in Seq(X) /\ f[n] \in Seq(X)
    BY <1>1
  <2>3. g \in [0..n + 1 -> Seq(X)]
    BY <2>2
  <2>4. g[0] = <<>> /\ g[n + 1] = f[n] \o s[n + 1] /\ g[n] = f[n]
    <3>1. /\ 0 \in 0..n + 1 /\ n + 1 \in 0..n + 1 /\ n \in 0..n + 1
          /\ 0 # n + 1 /\ n # n + 1
      BY <2>2
    <3>2. \A i \in 0..n + 1 : g[i] = IF i = n + 1 THEN f[n] \o s[n + 1] ELSE f[i]
      OBVIOUS
    <3>. HIDE DEF g
    <3>. QED
      BY <2>1, <3>1, <3>2
  <2>5. ASSUME NEW i \in 1..n + 1 PROVE g[i] = g[i - 1] \o s[i]
    <3>1. CASE i = n + 1
      <4>1. i - 1 = n
        BY <2>2, <3>1
      <4>. HIDE DEF g
      <4>. QED
        BY <2>4, <3>1, <4>1
    <3>2. CASE i # n + 1
      <4>1. i \in 1..n /\ i \in 0..n + 1 /\ i - 1 \in 0..n + 1 /\ i - 1 # n + 1
        BY <2>2, <3>2
      <4>2. g[i] = f[i] /\ g[i - 1] = f[i - 1]
        BY <3>2, <4>1
      <4>. QED
        BY <2>1, <4>1, <4>2
    <3>. QED
      BY <3>1, <3>2
  <2>. HIDE DEF g
  <2>. QED
    BY <2>3, <2>4, <2>5
<1>. HIDE DEF upTo
<1>4. 0..Len(s) \subseteq S
  <2>1. 0 \in S
    BY <1>1, <1>2
  <2>2. \A n \in 0..Len(s) - 1 : n \in S => n + 1 \in S
    BY <1>1, <1>3
  <2>. HIDE DEF S
  <2>. QED
    BY <1>1, <2>1, <2>2, UpTo
<1>5. upTo(Len(s))
  BY <1>1, <1>4
<1>. QED
  BY <1>5 DEF upTo, Partial

\* FlattenSeq computes the last of them.
Flattens(s, g) ==
  g = [i \in 1..Len(s) |-> IF i = 1 THEN s[i] ELSE g[i - 1] \o s[i]]

LEMMA FirstPart ==
  ASSUME NEW X, NEW s \in Seq(Seq(X)), NEW f \in [0..Len(s) -> Seq(X)], Partial(s, f),
         Len(s) # 0
  PROVE  f[1] = s[1]
<1>1. 1 \in 1..Len(s) /\ s[1] \in Seq(X) /\ 1 - 1 = 0
  OBVIOUS
<1>2. f[1] = f[1 - 1] \o s[1] /\ f[0] = <<>>
  BY <1>1 DEF Partial
<1>3. f[1] = <<>> \o s[1]
  BY <1>1, <1>2
<1>. QED
  BY <1>1, <1>3

LEMMA FlattenIsPartial ==
  ASSUME NEW X, NEW s \in Seq(Seq(X)), NEW f \in [0..Len(s) -> Seq(X)], Partial(s, f)
  PROVE  FlattenSeq(s) = f[Len(s)]
<1>1. Len(s) \in Nat /\ \A i \in 1..Len(s) : s[i] \in Seq(X)
  OBVIOUS
<1>2. CASE Len(s) = 0
  <2>1. s = <<>>
    BY <1>2
  <2>. QED
    BY <1>2, <2>1 DEF FlattenSeq, Partial
<1>3. CASE Len(s) # 0
  <2>. DEFINE h == [i \in 1..Len(s) |-> f[i]]
              g == CHOOSE x : Flattens(s, x)
  <2>1. ASSUME NEW i \in 1..Len(s) PROVE h[i] = IF i = 1 THEN s[i] ELSE h[i - 1] \o s[i]
    <3>1. CASE i = 1
      <4>1. h[1] = f[1] /\ f[1] = s[1]
        BY <1>1, <1>3, FirstPart
      <4>. QED
        BY <3>1, <4>1
    <3>2. CASE i # 1
      <4>1. i - 1 \in 1..Len(s)
        BY <1>1, <3>2
      <4>2. f[i] = f[i - 1] \o s[i]
        BY DEF Partial
      <4>. QED
        BY <3>2, <4>1, <4>2
    <3>. QED
      BY <3>1, <3>2
  <2>2. Flattens(s, h)
    BY <2>1 DEF Flattens
  <2>3. Flattens(s, g)
    BY <2>2
  <2>. HIDE DEF g
  <2>4. \A i \in 1..Len(s) : g[i] = IF i = 1 THEN s[i] ELSE g[i - 1] \o s[i]
    BY <2>3 DEF Flattens
  <2>. DEFINE S == {k \in 0..Len(s) : k # 0 => g[k] = f[k]}
  <2>5. 0..Len(s) \subseteq S
    <3>1. 0 \in S
      BY <1>1
    <3>2. ASSUME NEW k \in 0..Len(s) - 1, k \in S PROVE k + 1 \in S
      <4>1. k + 1 \in 1..Len(s) /\ k + 1 \in 0..Len(s) /\ (k + 1) - 1 = k
        BY <1>1
      <4>2. CASE k = 0
        <5>1. 1 \in 1..Len(s)
          BY <4>1, <4>2
        <5>2. g[1] = s[1]
          BY <2>4, <5>1
        <5>3. f[1] = s[1]
          BY <1>3, FirstPart
        <5>. QED
          BY <4>1, <4>2, <5>2, <5>3
      <4>3. CASE k # 0
        <5>1. k + 1 # 1 /\ g[k] = f[k]
          BY <3>2, <4>3
        <5>2. g[k + 1] = g[k] \o s[k + 1]
          BY <2>4, <4>1, <5>1
        <5>3. f[k + 1] = f[k] \o s[k + 1]
          BY <4>1 DEF Partial
        <5>4. g[k + 1] = f[k + 1]
          BY <5>1, <5>2, <5>3
        <5>. QED
          BY <4>1, <5>4
      <4>. QED
        BY <4>2, <4>3
    <3>. HIDE DEF S
    <3>. QED
      BY <1>1, <3>1, <3>2, UpTo
  <2>6. g[Len(s)] = f[Len(s)]
    BY <1>1, <1>3, <2>5
  <2>7. FlattenSeq(s) = g[Len(s)]
    BY <1>3 DEF FlattenSeq, g, Flattens
  <2>. QED
    BY <2>6, <2>7
<1>. QED
  BY <1>2, <1>3

LEMMA JoinFacts ==
  ASSUME NEW X, NEW a \in Seq(X), NEW b \in Seq(X)
  PROVE  /\ Len(a) \in Nat /\ Len(b) \in Nat /\ Len(a \o b) = Len(a) + Len(b)
         /\ \A x \in 1..Len(a) : (a \o b)[x] = a[x]
         /\ \A m \in 1..Len(b) : Len(a) + m \in 1..Len(a \o b) /\ (a \o b)[Len(a) + m] = b[m]
<1>1. Len(a) \in Nat /\ Len(b) \in Nat /\ Len(a \o b) = Len(a) + Len(b)
  OBVIOUS
<1>2. \A x \in 1..Len(a) : (a \o b)[x] = a[x]
  OBVIOUS
<1>3. \A m \in 1..Len(b) : Len(a) + m \in 1..Len(a \o b)
  BY <1>1
<1>4. \A m \in 1..Len(b) : (a \o b)[Len(a) + m] = b[m]
  OBVIOUS
<1>. QED
  BY <1>1, <1>2, <1>3, <1>4

\* Where the parts are: part i stands behind the first B[i - 1] elements.
Placed(s, B) ==
  /\ B \in [0..Len(s) -> Nat]
  /\ B[0] = 0 /\ B[Len(s)] = Len(FlattenSeq(s))
  /\ \A i \in 1..Len(s) :
       /\ B[i] = B[i - 1] + Len(s[i])
       /\ \A m \in 1..Len(s[i]) : FlattenSeq(s)[B[i - 1] + m] = s[i][m]

LEMMA FlattenPlaces ==
  ASSUME NEW X, NEW s \in Seq(Seq(X))
  PROVE  FlattenSeq(s) \in Seq(X) /\ \E B : Placed(s, B)
<1>1. PICK f \in [0..Len(s) -> Seq(X)] : Partial(s, f)
  BY PartialExists
<1>2. Len(s) \in Nat /\ \A i \in 1..Len(s) : s[i] \in Seq(X)
  OBVIOUS
<1>3. FlattenSeq(s) = f[Len(s)]
  BY <1>1, FlattenIsPartial
<1>. DEFINE B == [i \in 0..Len(s) |-> Len(f[i])]
            S == {k \in 0..Len(s) : \A i \in 0..k :
                    Len(f[i]) <= Len(f[k]) /\ \A x \in 1..Len(f[i]) : f[k][x] = f[i][x]}
\* What is put together is a prefix of all that follow.
<1>4. ASSUME NEW k \in 0..Len(s) - 1
      PROVE  /\ k \in 0..Len(s) /\ k + 1 \in 1..Len(s) /\ k + 1 \in 0..Len(s)
             /\ f[k] \in Seq(X) /\ s[k + 1] \in Seq(X) /\ f[k + 1] = f[k] \o s[k + 1]
  <2>1. /\ k \in 0..Len(s) /\ k + 1 \in 1..Len(s) /\ k + 1 \in 0..Len(s)
        /\ (k + 1) - 1 = k
    BY <1>2
  <2>2. f[k + 1] = f[k] \o s[k + 1]
    BY <1>1, <2>1 DEF Partial
  <2>. QED
    BY <1>2, <2>1, <2>2
<1>5. 0..Len(s) \subseteq S
  <2>1. 0 \in S
    BY <1>1, <1>2
  <2>2. ASSUME NEW k \in 0..Len(s) - 1, k \in S PROVE k + 1 \in S
    <3>1. ASSUME NEW i \in 0..k + 1
          PROVE  /\ Len(f[i]) <= Len(f[k + 1])
                 /\ \A x \in 1..Len(f[i]) : f[k + 1][x] = f[i][x]
      <4>1. CASE i = k + 1
        BY <1>2, <1>4, <4>1
      <4>2. CASE i # k + 1
        <5>1. i \in 0..k /\ i \in 0..Len(s)
          BY <1>2, <4>2
        <5>2. Len(f[i]) <= Len(f[k]) /\ \A x \in 1..Len(f[i]) : f[k][x] = f[i][x]
          BY <2>2, <5>1
        <5>3. /\ Len(f[k + 1]) = Len(f[k]) + Len(s[k + 1])
              /\ Len(f[k]) \in Nat /\ Len(s[k + 1]) \in Nat
              /\ \A x \in 1..Len(f[k]) : f[k + 1][x] = f[k][x]
          <6>. DEFINE a == f[k]  b == s[k + 1]
          <6>1. a \in Seq(X) /\ b \in Seq(X) /\ f[k + 1] = a \o b
            BY <1>4
          <6>. HIDE DEF a, b
          <6>2. /\ Len(a) \in Nat /\ Len(b) \in Nat /\ Len(a \o b) = Len(a) + Len(b)
                /\ \A x \in 1..Len(a) : (a \o b)[x] = a[x]
            BY <6>1, JoinFacts
          <6>. QED
            BY <6>1, <6>2 DEF a, b
        <5>4. f[i] \in Seq(X)
          BY <5>1
        <5>5. Len(f[i]) \in Nat
          BY <5>4
        <5>6. Len(f[i]) <= Len(f[k + 1]) /\ \A x \in 1..Len(f[i]) : x \in 1..Len(f[k])
          <6>. DEFINE p == Len(f[i])  q == Len(f[k])  r == Len(s[k + 1])
          <6>1. p \in Nat /\ q \in Nat /\ r \in Nat /\ p <= q /\ Len(f[k + 1]) = q + r
            BY <5>2, <5>3, <5>5
          <6>. HIDE DEF p, q, r
          <6>2. p <= Len(f[k + 1]) /\ \A x \in 1..p : x \in 1..q
            BY <6>1
          <6>. QED
            BY <6>2 DEF p, q
        <5>. QED
          BY <5>2, <5>3, <5>6
      <4>. QED
        BY <4>1, <4>2
    <3>. QED
      BY <1>4, <3>1
  <2>. HIDE DEF S
  <2>. QED
    BY <1>2, <2>1, <2>2, UpTo
<1>6. \A i \in 0..Len(s) : \A x \in 1..Len(f[i]) : FlattenSeq(s)[x] = f[i][x]
  <2>1. Len(s) \in S
    BY <1>2, <1>5
  <2>. QED
    BY <1>3, <2>1
<1>. HIDE DEF S
<1>7. B \in [0..Len(s) -> Nat] /\ \A i \in 0..Len(s) : B[i] = Len(f[i])
  <2>1. \A i \in 0..Len(s) : Len(f[i]) \in Nat
    OBVIOUS
  <2>. QED
    BY <2>1
<1>. HIDE DEF B
<1>8. ASSUME NEW i \in 1..Len(s)
      PROVE  /\ B[i] = B[i - 1] + Len(s[i])
             /\ \A m \in 1..Len(s[i]) : FlattenSeq(s)[B[i - 1] + m] = s[i][m]
  <2>. DEFINE k == i - 1
  <2>1. k \in 0..Len(s) - 1 /\ k + 1 = i /\ k \in 0..Len(s) /\ i \in 0..Len(s)
    BY <1>2
  <2>. HIDE DEF k
  <2>2. f[k] \in Seq(X) /\ s[i] \in Seq(X) /\ f[i] = f[k] \o s[i]
    BY <1>4, <2>1
  <2>3. /\ Len(f[i]) = Len(f[k]) + Len(s[i]) /\ Len(f[k]) \in Nat /\ Len(s[i]) \in Nat
        /\ \A m \in 1..Len(s[i]) : /\ Len(f[k]) + m \in 1..Len(f[i])
                                  /\ f[i][Len(f[k]) + m] = s[i][m]
    <3>. DEFINE a == f[k]  b == s[i]
    <3>1. a \in Seq(X) /\ b \in Seq(X) /\ f[i] = a \o b
      BY <2>2
    <3>. HIDE DEF a, b
    <3>2. /\ Len(a) \in Nat /\ Len(b) \in Nat /\ Len(a \o b) = Len(a) + Len(b)
          /\ \A m \in 1..Len(b) : Len(a) + m \in 1..Len(a \o b) /\ (a \o b)[Len(a) + m] = b[m]
      BY <3>1, JoinFacts
    <3>. QED
      BY <3>1, <3>2 DEF a, b
  <2>4. ASSUME NEW m \in 1..Len(s[i])
        PROVE  FlattenSeq(s)[Len(f[k]) + m] = s[i][m]
    <3>1. Len(f[k]) + m \in 1..Len(f[i])
      BY <2>3
    <3>2. FlattenSeq(s)[Len(f[k]) + m] = f[i][Len(f[k]) + m]
      BY <1>6, <2>1, <3>1
    <3>. QED
      BY <2>3, <3>2
  <2>. QED
    BY <1>7, <2>1, <2>3, <2>4 DEF k
<1>9. B[0] = 0 /\ B[Len(s)] = Len(FlattenSeq(s)) /\ FlattenSeq(s) \in Seq(X)
  BY <1>1, <1>2, <1>3, <1>7 DEF Partial
<1>10. Placed(s, B)
  BY <1>7, <1>8, <1>9 DEF Placed
<1>. QED
  BY <1>9, <1>10

\* One element of each part: the parts without their brackets.
LEMMA FlattenSingles ==
  ASSUME NEW X, NEW e \in Seq(X)
  PROVE  FlattenSeq([k \in DOMAIN e |-> <<e[k]>>]) = e
<1>. DEFINE s == [k \in DOMAIN e |-> <<e[k]>>]
<1>1. /\ s \in Seq(Seq(X)) /\ Len(s) = Len(e) /\ Len(e) \in Nat
      /\ \A k \in 1..Len(e) : Len(s[k]) = 1 /\ s[k][1] = e[k]
  <2>1. Len(e) \in Nat /\ DOMAIN e = 1..Len(e) /\ \A k \in 1..Len(e) : e[k] \in X
    OBVIOUS
  <2>2. \A k \in 1..Len(e) : s[k] = <<e[k]>>
    BY <2>1
  <2>3. \A k \in 1..Len(e) : <<e[k]>> \in Seq(X)
    BY <2>1
  <2>4. s = [k \in 1..Len(e) |-> <<e[k]>>]
    BY <2>1
  <2>. HIDE DEF s
  <2>5. s \in [1..Len(e) -> Seq(X)]
    BY <2>3, <2>4
  <2>6. s \in Seq(Seq(X)) /\ Len(s) = Len(e)
    BY <2>1, <2>5
  <2>7. \A k \in 1..Len(e) : Len(<<e[k]>>) = 1 /\ <<e[k]>>[1] = e[k]
    OBVIOUS
  <2>. QED
    BY <2>1, <2>2, <2>6, <2>7
<1>. HIDE DEF s
<1>2. FlattenSeq(s) \in Seq(X)
  BY <1>1, FlattenPlaces
<1>3. PICK B : Placed(s, B)
  BY <1>1, FlattenPlaces
<1>. DEFINE S == {k \in 0..Len(e) : B[k] = k}
<1>4. \A i \in 1..Len(e) : B[i] = B[i - 1] + 1 /\ FlattenSeq(s)[B[i - 1] + 1] = e[i]
  <2>1. ASSUME NEW i \in 1..Len(e)
        PROVE  B[i] = B[i - 1] + 1 /\ FlattenSeq(s)[B[i - 1] + 1] = e[i]
    <3>1. 1 \in 1..Len(s[i]) /\ Len(s[i]) = 1 /\ s[i][1] = e[i] /\ i \in 1..Len(s)
      BY <1>1
    <3>. QED
      BY <1>3, <3>1 DEF Placed
  <2>. QED
    BY <2>1
<1>5. 0..Len(e) \subseteq S
  <2>1. 0 \in S
    BY <1>1, <1>3 DEF Placed
  <2>2. ASSUME NEW k \in 0..Len(e) - 1, k \in S PROVE k + 1 \in S
    <3>1. k + 1 \in 1..Len(e) /\ (k + 1) - 1 = k /\ k + 1 \in 0..Len(e)
      BY <1>1
    <3>2. B[k + 1] = B[k] + 1
      BY <1>4, <3>1
    <3>. QED
      BY <2>2, <3>1, <3>2
  <2>. HIDE DEF S
  <2>. QED
    BY <1>1, <2>1, <2>2, UpTo
<1>6. Len(FlattenSeq(s)) = Len(e)
  BY <1>1, <1>3, <1>5 DEF Placed
<1>7. ASSUME NEW i \in 1..Len(e) PROVE FlattenSeq(s)[i] = e[i]
  <2>1. i - 1 \in 0..Len(e) /\ (i - 1) + 1 = i
    BY <1>1
  <2>2. B[i - 1] = i - 1
    BY <1>5, <2>1
  <2>. QED
    BY <1>4, <2>1, <2>2
<1>8. FlattenSeq(s) = e
  BY <1>2, <1>6, <1>7
<1>. QED
  BY <1>8 DEF s

-----------------------------------------------------------------------------
(* The codec *)

LEMMA SingleElement ==
  ASSUME NEW X, NEW s \in Seq(X), Len(s) = 1
  PROVE  s = <<s[1]>> /\ Tail(s) = <<>>
<1>1. <<s[1]>> \in Seq(X) /\ Len(<<s[1]>>) = 1 /\ <<s[1]>>[1] = s[1]
  OBVIOUS
<1>2. s = <<s[1]>>
  BY <1>1
<1>. DEFINE t == Tail(s)
<1>3. t \in Seq(X) /\ Len(t) = 0
  OBVIOUS
<1>. HIDE DEF t
<1>4. t = <<>>
  BY <1>3
<1>. QED
  BY <1>2, <1>4 DEF t

LEMMA Singleton ==
  ASSUME NEW X, NEW x \in X
  PROVE  <<x>> \in Seq(X) /\ Len(<<x>>) = 1 /\ <<x>> # <<>>
  OBVIOUS

\* The pieces a value is cut into; the provers do not know literals for strings.
Pieces == STRING \union {"length", "args"}

\* A value without a comma is one run of pieces, and not cut into nothing.
OneRun(v) == v \in Seq(Seq(Pieces)) /\ Len(v) = 1 /\ v[1] # <<>>

LEMMA OneRunParts ==
  ASSUME NEW v, OneRun(v)
  PROVE  /\ Head(v) \in Seq(Pieces) /\ Head(v) # <<>> /\ v = <<Head(v)>>
         /\ Tail(v) = <<>>
<1>1. v \in Seq(Seq(Pieces)) /\ Len(v) = 1 /\ v[1] # <<>>
  BY DEF OneRun
<1>2. v[1] \in Seq(Pieces) /\ Head(v) = v[1]
  BY <1>1
<1>3. v = <<v[1]>> /\ Tail(v) = <<>>
  BY <1>1, SingleElement
<1>. QED
  BY <1>1, <1>2, <1>3

LEMMA WordIsOneRun ==
  ASSUME NEW w \in Pieces
  PROVE  /\ <<w>> \in Seq(Pieces) /\ Len(<<w>>) = 1
         /\ OneRun(Word(w))
<1>1. <<w>> \in Seq(Pieces) /\ Len(<<w>>) = 1 /\ <<w>> # <<>>
  BY Singleton
<1>. DEFINE r == <<w>>
<1>. HIDE DEF r
<1>2. r \in Seq(Pieces) /\ r # <<>>
  BY <1>1 DEF r
<1>3. <<r>> \in Seq(Seq(Pieces)) /\ Len(<<r>>) = 1 /\ <<r>>[1] = r
  BY <1>2
<1>4. OneRun(<<r>>)
  BY <1>2, <1>3 DEF OneRun
<1>. QED
  BY <1>1, <1>4 DEF Word, r

\* What is written behind the first dot is what was before the length came there.
LEMMA BehindTheDot ==
  ASSUME NEW h \in Seq(Pieces), h # <<>>
  PROVE  /\ <<"length">> \o h \in Seq(Pieces)
         /\ ~(Len(<<"length">> \o h) < 2)
         /\ Tail(<<"length">> \o h) = h
<1>. DEFINE t == <<"length">> \o h
<1>1. <<"length">> \in Seq(Pieces) /\ Len(<<"length">>) = 1
  <2>1. "length" \in Pieces
    BY DEF Pieces
  <2>. QED
    BY <2>1, Singleton
<1>2. t \in Seq(Pieces) /\ Len(t) = 1 + Len(h) /\ Len(h) \in Nat /\ Len(h) # 0
  BY <1>1
<1>3. \A k \in 1..Len(h) : t[k + 1] = h[k]
  BY <1>1
<1>. HIDE DEF t
<1>4. Tail(t) \in Seq(Pieces) /\ Len(Tail(t)) = Len(h)
  BY <1>2
<1>5. \A k \in 1..Len(h) : Tail(t)[k] = h[k]
  BY <1>2, <1>3
<1>6. Tail(t) = h
  BY <1>4, <1>5
<1>7. ~(Len(t) < 2)
  BY <1>2
<1>. QED
  BY <1>2, <1>6, <1>7 DEF t

\* Parse undoes String for values without commas, whatever dots they have.
LEMMA RoundTrip ==
  ASSUME NEW i \in Seq(Seq(Seq(Pieces))), i # <<>>, \A k \in DOMAIN i : OneRun(i[k])
  PROVE  Parse(Elements(i)) = i
<1>. DEFINE e == [k \in DOMAIN i |-> <<"length">> \o Head(i[k])]
<1>2. ASSUME NEW k \in DOMAIN i
      PROVE  /\ Head(i[k]) \in Seq(Pieces) /\ Head(i[k]) # <<>> /\ i[k] = <<Head(i[k])>>
             /\ Tail(i[k]) = <<>>
  BY OneRunParts
<1>3. e \in Seq(Seq(Pieces))
  <2>1. \A k \in DOMAIN i : <<"length">> \o Head(i[k]) \in Seq(Pieces)
    BY <1>2, BehindTheDot
  <2>2. DOMAIN i = 1..Len(i) /\ Len(i) \in Nat
    OBVIOUS
  <2>. QED
    BY <2>1, <2>2
<1>4. DOMAIN e = DOMAIN i /\ \A k \in DOMAIN i : e[k] = <<"length">> \o Head(i[k])
  OBVIOUS
<1>. HIDE DEF e
<1>5. Elements(i) = e
  <2>1. ASSUME NEW k \in DOMAIN i
        PROVE  << <<"length">> \o Head(i[k]) >> \o Tail(i[k]) = <<e[k]>>
    <3>1. e[k] \in Seq(Pieces)
      BY <1>3, <1>4
    <3>2. <<e[k]>> \o <<>> = <<e[k]>>
      BY <3>1
    <3>. QED
      BY <1>2, <1>4, <3>2
  <2>2. [k \in DOMAIN i |-> << <<"length">> \o Head(i[k]) >> \o Tail(i[k])]
          = [k \in DOMAIN e |-> <<e[k]>>]
    BY <1>4, <2>1
  <2>. QED
    BY <1>3, <2>2, FlattenSingles DEF Elements
<1>6. ASSUME NEW k \in DOMAIN e
      PROVE  (IF Len(e[k]) < 2 THEN <<>> ELSE << << Tail(e[k]) >> >>) = <<i[k]>>
  <2>1. ~(Len(e[k]) < 2) /\ Tail(e[k]) = Head(i[k])
    BY <1>2, <1>4, BehindTheDot
  <2>. QED
    BY <1>2, <1>4, <2>1
<1>7. [k \in DOMAIN e |-> IF Len(e[k]) < 2 THEN <<>> ELSE << << Tail(e[k]) >> >>]
        = [k \in DOMAIN i |-> <<i[k]>>]
  BY <1>4, <1>6
<1>8. FlattenSeq([k \in DOMAIN e |-> IF Len(e[k]) < 2 THEN <<>> ELSE << << Tail(e[k]) >> >>]) = i
  BY <1>7, FlattenSingles
<1>. QED
  BY <1>5, <1>8 DEF Parse

\* The names guacd asks for are read as it sent them.
LEMMA NamesAreRead ==
  ASSUME NEW names \in Asked
  PROVE  Tail(Parse(Elements(<<Word("args")>> \o names))) = names
<1>1. ASSUME NEW k \in DOMAIN names PROVE OneRun(names[k])
  <2>1. names \in Seq(Values) /\ \A n \in Range(names) : Len(n) = 1
    BY AskedAssumption
  <2>2. names[k] \in Values /\ Len(names[k]) = 1
    BY <2>1 DEF Range
  <2>. DEFINE X == Seq(STRING) \ {<<>>}
              v == names[k]
  <2>3. v \in Seq(X) /\ Len(v) = 1
    BY <2>2 DEF Values
  <2>4. X \subseteq Seq(Pieces) /\ <<>> \notin X
    BY DEF Pieces
  <2>. HIDE DEF X, v
  <2>5. v[1] \in X /\ v \in Seq(Seq(Pieces))
    BY <2>3, <2>4
  <2>. QED
    BY <2>3, <2>4, <2>5 DEF OneRun, v
<1>. DEFINE w == Word("args")  i == <<w>> \o names  V == Seq(Seq(Pieces))
<1>2. OneRun(w)
  <2>1. "args" \in Pieces
    BY DEF Pieces
  <2>. QED
    BY <2>1, WordIsOneRun
<1>. HIDE DEF w
<1>3. names \in Seq(V) /\ w \in V /\ DOMAIN names = 1..Len(names) /\ Len(names) \in Nat
  <2>1. names \in Seq(Values)
    BY AskedAssumption
  <2>2. DOMAIN names = 1..Len(names) /\ Len(names) \in Nat
    BY <2>1
  <2>3. \A k \in DOMAIN names : names[k] \in V
    BY <1>1 DEF OneRun
  <2>4. names = [k \in 1..Len(names) |-> names[k]]
    BY <2>1, <2>2
  <2>. HIDE DEF V
  <2>5. names \in Seq(V)
    BY <2>2, <2>3, <2>4
  <2>. QED
    BY <1>2, <2>2, <2>5 DEF OneRun, V
<1>. HIDE DEF V
<1>4. i \in Seq(V) /\ Len(i) = 1 + Len(names) /\ i # <<>>
  BY <1>3
<1>5. ASSUME NEW k \in 1..Len(i) PROVE OneRun(i[k])
  <2>1. CASE k = 1
    <3>1. i[1] = w
      BY <1>3
    <3>. QED
      BY <1>2, <2>1, <3>1
  <2>2. CASE k # 1
    <3>1. k - 1 \in DOMAIN names /\ i[k] = names[k - 1]
      BY <1>3, <1>4, <2>2
    <3>. QED
      BY <1>1, <3>1
  <2>. QED
    BY <2>1, <2>2
<1>6. Tail(i) = names
  BY <1>3
<1>7. DOMAIN i = 1..Len(i)
  BY <1>4
<1>. HIDE DEF i
<1>8. Parse(Elements(i)) = i
  BY <1>4, <1>5, <1>7, RoundTrip DEF V
<1>. QED
  BY <1>6, <1>8 DEF i, w

-----------------------------------------------------------------------------
(* The handshake *)

States == {"none", "select", "args", "ready", "done", "failed", "empty"}

Select == <<Word("select"), SelectArg>>

\* The "connect" that answers what was asked for.
Connect(names) == <<Word("connect")>> \o
  [k \in DOMAIN names |-> IF names[k] \in DOMAIN Parameters THEN Parameters[names[k]] ELSE Empty]

\* What was written so far; the Config changes with the success only.
ShakeInv ==
  /\ conn = "none" => hs = "none"
  /\ hs \in {"none", "select"} => wrote = <<>>
  /\ hs = "args" => wrote = <<Select>>
  /\ hs \in {"ready", "done"} => Last(wrote) = Connect(asked)
  /\ hs # "done" /\ wrote # <<>> => wrote[1] = Select
  /\ hs = "done" => connectionID = Word("ready")
  /\ hs = "failed" => conn # "open"

\* What stands first and last in what is written after the "args".
LEMMA FirstAndLast ==
  ASSUME NEW a, NEW x1, NEW x2, NEW x3, NEW x4, NEW x5, NEW z
  PROVE  LET s == <<a>> \o <<x1, x2, x3, x4, x5>> \o <<z>>
         IN  s[1] = a /\ Last(s) = z
<1>. DEFINE X == {a, x1, x2, x3, x4, x5, z}
            u == <<a>>  v == <<x1, x2, x3, x4, x5>>  w == <<z>>  s == u \o v \o w
<1>1. /\ u \in Seq(X) /\ Len(u) = 1 /\ u[1] = a
      /\ v \in Seq(X) /\ Len(v) = 5
      /\ w \in Seq(X) /\ Len(w) = 1 /\ w[1] = z
  OBVIOUS
<1>. HIDE DEF X, u, v, w
<1>. DEFINE p == u \o v
<1>2. p \in Seq(X) /\ Len(p) = 6 /\ p[1] = a
  <2>1. 1 \in 1..Len(u)
    BY <1>1
  <2>2. Len(p) = Len(u) + Len(v) /\ \A x \in 1..Len(u) : p[x] = u[x]
    BY <1>1, JoinFacts
  <2>. QED
    BY <1>1, <2>2
<1>. HIDE DEF p
<1>3. Len(p \o w) = 7 /\ (p \o w)[1] = a /\ (p \o w)[7] = z
  <2>1. 1 \in 1..Len(p) /\ 1 \in 1..Len(w)
    BY <1>1, <1>2
  <2>2. /\ Len(p \o w) = Len(p) + Len(w)
        /\ \A x \in 1..Len(p) : (p \o w)[x] = p[x]
        /\ \A m \in 1..Len(w) : Len(p) + m \in 1..Len(p \o w) /\ (p \o w)[Len(p) + m] = w[m]
    <3>1. p \in Seq(X) /\ w \in Seq(X)
      BY <1>1, <1>2
    <3>. QED
      BY <3>1, JoinFacts
  <2>. QED
    BY <1>1, <1>2, <2>1, <2>2
<1>. QED
  BY <1>3 DEF Last, p, u, v, w

LEMMA ArgsStep == ASSUME ShakeInv, AssertArgs PROVE ShakeInv'
<1>1. /\ hs = "args" /\ hs' = "ready" /\ asked' \in Asked
      /\ wrote' = wrote \o Settings \o
           << <<Word("connect")>> \o Answers(Tail(Parse(Elements(<<Word("args")>> \o asked')))) >>
      /\ UNCHANGED <<connectionID, conn>>
  BY DEF AssertArgs
<1>2. Tail(Parse(Elements(<<Word("args")>> \o asked'))) = asked'
  BY <1>1, NamesAreRead
<1>3. <<Word("connect")>> \o Answers(asked') = Connect(asked)'
  BY DEF Answers, Connect, GetParameter
<1>4. wrote = <<Select>>
  BY <1>1 DEF ShakeInv
<1>5. wrote' = <<Select>> \o Settings \o <<Connect(asked)'>>
  BY <1>1, <1>2, <1>3, <1>4
<1>6. wrote'[1] = Select /\ Last(wrote') = Connect(asked)'
  BY <1>5, FirstAndLast DEF Settings
<1>7. Select' = Select
  BY <1>1 DEF Select, SelectArg
<1>. QED
  BY <1>1, <1>6, <1>7 DEF ShakeInv

LEMMA SelectStep == ASSUME ShakeInv, WriteSelect PROVE ShakeInv'
<1>1. /\ hs = "select" /\ hs' = "args" /\ wrote' = <<Select>>
      /\ UNCHANGED <<connectionID, asked, conn>>
  BY DEF WriteSelect, Select
<1>2. Select' = Select /\ wrote'[1] = Select
  BY <1>1 DEF Select, SelectArg
<1>. QED
  BY <1>1, <1>2 DEF ShakeInv

\* All other steps write nothing.
LEMMA ShakeKept ==
  ASSUME ShakeInv, UNCHANGED <<wrote, asked>>,
         hs' = hs \/ hs' \in {"select", "done", "failed", "empty"},
         hs' = hs => UNCHANGED connectionID /\ conn' \in {conn, "closed"},
         hs' # hs /\ hs' = "select" => conn = "none" /\ conn' # "none" /\ UNCHANGED connectionID,
         hs' # hs /\ hs' = "done" => hs = "ready" /\ conn' = conn /\ connectionID' = Word("ready"),
         hs' # hs /\ hs' = "failed" => conn' \in {"closed", "refused"} /\ hs # "done"
                                        /\ UNCHANGED connectionID,
         hs' # hs /\ hs' = "empty" => hs = "ready" /\ UNCHANGED <<connectionID, conn>>
  PROVE  ShakeInv'
<1>1. connectionID' = connectionID => Select' = Select
  BY DEF Select, SelectArg
<1>2. Connect(asked)' = Connect(asked)
  BY DEF Connect
<1>. QED
  BY <1>1, <1>2 DEF ShakeInv

LEMMA ShakeSteps == ShakeInv /\ [Next]_vars => ShakeInv'
<1>. SUFFICES ASSUME ShakeInv, [Next]_vars PROVE ShakeInv'
  OBVIOUS
<1>1. CASE NewTunnel
  BY <1>1, ShakeKept DEF NewTunnel, shakeVars, ShakeInv
<1>2. CASE AssertReady
  BY <1>2, ShakeKept DEF AssertReady
<1>3. CASE HandshakeFails
  BY <1>3, ShakeKept DEF HandshakeFails, shakeVars
<1>4. CASE EmptyConnectionID
  BY <1>4, ShakeKept DEF EmptyConnectionID, shakeVars
<1>5. CASE Start \/ Forward \/ Stop \/ World \/ UNCHANGED vars
  <2>1. UNCHANGED <<shakeVars, hs>> /\ conn' \in {conn, "closed"}
    BY <1>5 DEF Start, Forward, CheckContext, Read, ReadFails, WriteMessage, Stop, StopCancel,
       StopClose, World, GuacdSends, GuacdCloses, Browser, vars, connVars
  <2>. QED
    BY <2>1, ShakeKept DEF shakeVars
<1>. QED
  BY <1>1, <1>2, <1>3, <1>4, <1>5, ArgsStep, SelectStep DEF Next, Handshake

LEMMA ShakeInit == Init => ShakeInv
  BY DEF Init, ShakeInv

\* However a handshake ends, nothing is left half done: Tunnel.Handshake has answered
\* each name guacd asked for at its place, or has closed the connection.
THEOREM HandshakeEndsWell == Spec => []HandshakeOutcome
<1>1. ShakeInv => HandshakeOutcome
  BY DEF ShakeInv, HandshakeOutcome, Connect, Select
<1>. QED
  BY ShakeInit, ShakeSteps, <1>1, PTL DEF Spec

-----------------------------------------------------------------------------
(* The wire, and what is forwarded *)

AllFrames ==
  Instructions \union ({"head"} \X Nat \X {"L8", "L16"} \X Nat)
               \union ({"rate"} \X Rates \X {1, 2})

\* The frames of the stream, instruction by instruction.
Blocks == [k \in DOMAIN stream |-> FramesOf(stream[k])]

LEMMA InstructionKinds ==
  ASSUME NEW i \in Instructions
  PROVE  \/ i = <<"plain">> /\ i[1] = "plain"
         \/ /\ i[1] = "audio" /\ i[2] \in Nat /\ i[3] \in {"L8", "L16"}
            /\ i[4] \in Rates /\ i[5] \in {1, 2}
  BY DEF Instructions

HeadOf(i) == <<"head", i[2], i[3], TypeLength(i)>>
RateOf(i) == <<"rate", i[4], i[5]>>

LEMMA BlockShapes ==
  ASSUME NEW i \in Instructions
  PROVE  /\ FramesOf(i) \in Seq(AllFrames)
         /\ i[1] = "plain" => FramesOf(i) = <<i>> /\ Len(FramesOf(i)) = 1
         /\ i[1] # "plain" => /\ FramesOf(i) = <<HeadOf(i), RateOf(i)>>
                             /\ Len(FramesOf(i)) = 2
                             /\ i[1] = "audio"
<1>1. CASE i[1] = "plain"
  <2>1. FramesOf(i) = <<i>> /\ i \in AllFrames
    BY <1>1 DEF FramesOf, AllFrames
  <2>. QED
    BY <1>1, <2>1, Singleton
<1>2. CASE i[1] # "plain"
  <2>1. /\ i[1] = "audio" /\ i[2] \in Nat /\ i[3] \in {"L8", "L16"}
        /\ i[4] \in Rates /\ i[5] \in {1, 2}
    BY <1>2, InstructionKinds
  <2>2. TypeLength(i) \in Nat
    <3>. DEFINE a == IF i[3] = "L16" THEN 1 ELSE 0  b == IF i[4] < 10000 THEN 0 ELSE 1
    <3>1. a \in Nat /\ b \in Nat
      OBVIOUS
    <3>2. TypeLength(i) = 29 + a + b
      BY DEF TypeLength
    <3>. HIDE DEF a, b
    <3>. QED
      BY <3>1, <3>2
  <2>3. HeadOf(i) \in AllFrames /\ RateOf(i) \in AllFrames
    BY <2>1, <2>2 DEF AllFrames, HeadOf, RateOf
  <2>4. FramesOf(i) = <<HeadOf(i), RateOf(i)>>
    BY <1>2 DEF FramesOf, HeadOf, RateOf
  <2>5. FramesOf(i) \in Seq(AllFrames) /\ Len(FramesOf(i)) = 2
    BY <2>3, <2>4
  <2>. QED
    BY <1>2, <2>1, <2>4, <2>5
<1>. QED
  BY <1>1, <1>2

LEMMA BlocksType ==
  ASSUME stream \in Seq(Instructions)
  PROVE  /\ Blocks \in Seq(Seq(AllFrames)) /\ Len(Blocks) = Len(stream) /\ Len(stream) \in Nat
         /\ DOMAIN stream = 1..Len(stream)
         /\ \A k \in 1..Len(stream) : stream[k] \in Instructions /\ Blocks[k] = FramesOf(stream[k])
<1>1. DOMAIN stream = 1..Len(stream) /\ Len(stream) \in Nat
  OBVIOUS
<1>2. \A k \in 1..Len(stream) : stream[k] \in Instructions
  OBVIOUS
<1>3. \A k \in 1..Len(stream) : FramesOf(stream[k]) \in Seq(AllFrames)
  BY <1>2, BlockShapes
<1>4. Blocks = [k \in 1..Len(stream) |-> FramesOf(stream[k])]
  BY <1>1 DEF Blocks
<1>5. Blocks \in [1..Len(stream) -> Seq(AllFrames)]
  BY <1>3, <1>4
<1>6. Blocks \in Seq(Seq(AllFrames)) /\ Len(Blocks) = Len(stream)
  BY <1>1, <1>5
<1>. QED
  BY <1>1, <1>2, <1>4, <1>6

LEMMA FramesPlaces ==
  ASSUME stream \in Seq(Instructions)
  PROVE  Frames \in Seq(AllFrames) /\ Frames = FlattenSeq(Blocks) /\ \E B : Placed(Blocks, B)
<1>1. Frames = FlattenSeq(Blocks)
  BY DEF Frames, Blocks
<1>2. Blocks \in Seq(Seq(AllFrames))
  BY BlocksType
<1>. HIDE DEF Blocks
<1>. QED
  BY <1>1, <1>2, FlattenPlaces

LEMMA RenderedType == ASSUME NEW f \in AllFrames PROVE Rendered(f) \in Seq(AllFrames)
<1>1. CASE f = KnownHead
  <2>. DEFINE y == <<"rate", 44100, 2>>
  <2>1. y \in AllFrames
    <3>1. 44100 \in Rates
      BY DEF Rates
    <3>. QED
      BY <3>1 DEF AllFrames
  <2>2. Rendered(f) = <<f, y>>
    BY <1>1 DEF Rendered, KnownHead, KnownRates
  <2>. HIDE DEF y
  <2>. QED
    BY <2>1, <2>2
<1>2. CASE f # KnownHead /\ f \in KnownRates
  <2>1. Rendered(f) = <<>>
    BY <1>2 DEF Rendered
  <2>. QED
    BY <2>1
<1>3. CASE f # KnownHead /\ f \notin KnownRates
  <2>1. Rendered(f) = <<f>>
    BY <1>3 DEF Rendered
  <2>. QED
    BY <2>1
<1>. QED
  BY <1>1, <1>2, <1>3

\* Counters of the wire, and what the goroutine has.
WireInv ==
  /\ stream \in Seq(Instructions)
  /\ sentN \in Nat /\ bufN \in Nat /\ readN \in Nat
  /\ readN <= bufN /\ bufN <= sentN /\ sentN <= Len(Frames)
  /\ fwd \in {"none", "check", "read", "write", "over"}
  /\ out \in Seq(Seq(AllFrames))
  /\ fwd = "write" => msg \in Seq(AllFrames)
  /\ hs # "done" => fwd = "none"
  /\ fwd = "none" => readN = 0 /\ out = <<>>

LEMMA WireInit == Init => WireInv
<1>. SUFFICES ASSUME Init PROVE WireInv
  OBVIOUS
<1>1. stream \in Seq(Instructions)
  BY StreamsAssumption DEF Init
<1>2. Len(Frames) \in Nat
  BY <1>1, FramesPlaces
<1>. QED
  BY <1>1, <1>2 DEF Init, WireInv

\* What Read takes is there.
LEMMA ReadTakes ==
  ASSUME WireInv, Read
  PROVE  /\ readN + 1 \in 1..Len(Frames) /\ Frames[readN + 1] \in AllFrames
         /\ readN' = readN + 1 /\ msg' = Rendered(Frames[readN + 1])
         /\ bufN' \in Nat /\ readN' <= bufN' /\ bufN' <= sentN
<1>1. Len(Frames) \in Nat /\ Frames \in Seq(AllFrames)
  BY FramesPlaces DEF WireInv
<1>2. bufN' \in Nat /\ readN + 1 <= bufN' /\ bufN' <= sentN
  BY DEF WireInv, Read
<1>3. readN + 1 \in 1..Len(Frames)
  BY <1>1, <1>2 DEF WireInv
<1>. QED
  BY <1>1, <1>2, <1>3 DEF Read

LEMMA WireSteps == ShakeInv /\ WireInv /\ [Next]_vars => WireInv'
<1>. SUFFICES ASSUME ShakeInv, WireInv, [Next]_vars PROVE WireInv'
  OBVIOUS
<1>1. stream' = stream /\ Frames' = Frames
  BY DEF Next, Handshake, NewTunnel, WriteSelect, AssertArgs, AssertReady, HandshakeFails,
     EmptyConnectionID, Start, Forward, CheckContext, Read, ReadFails, WriteMessage, Stop,
     StopCancel, StopClose, World, GuacdSends, GuacdCloses, Browser, vars, wireVars, Frames
<1>2. Len(Frames) \in Nat
  BY FramesPlaces DEF WireInv
<1>3. CASE NewTunnel \/ WriteSelect \/ AssertArgs \/ HandshakeFails \/ EmptyConnectionID
  BY <1>1, <1>3 DEF NewTunnel, WriteSelect, AssertArgs, HandshakeFails, EmptyConnectionID,
     ShakeInv, WireInv, wireVars, fwdVars
<1>4. CASE AssertReady
  BY <1>1, <1>2, <1>4 DEF AssertReady, WireInv, fwdVars
<1>5. CASE Start \/ CheckContext \/ ReadFails
  BY <1>1, <1>5 DEF Start, CheckContext, ReadFails, WireInv, wireVars, connVars
<1>6. CASE Read
  BY <1>1, <1>6, ReadTakes, RenderedType DEF Read, WireInv, connVars
<1>7. CASE WriteMessage
  <2>1. out' \in Seq(Seq(AllFrames))
    <3>1. out \in Seq(Seq(AllFrames)) /\ msg \in Seq(AllFrames)
      BY <1>7 DEF WriteMessage, WireInv
    <3>2. out' = out \/ out' = Append(out, msg)
      BY <1>7 DEF WriteMessage
    <3>. QED
      BY <3>1, <3>2
  <2>. QED
    BY <1>1, <1>7, <2>1 DEF WriteMessage, WireInv, wireVars, connVars
<1>8. CASE Stop \/ GuacdCloses \/ Browser \/ UNCHANGED vars
  <2>1. UNCHANGED <<hs, wireVars, fwdVars>>
    BY <1>8 DEF Stop, StopCancel, StopClose, GuacdCloses, Browser, vars, connVars
  <2>. QED
    BY <1>1, <2>1 DEF WireInv, wireVars, fwdVars
<1>9. CASE GuacdSends
  BY <1>1, <1>2, <1>9 DEF GuacdSends, WireInv, connVars, fwdVars
<1>. QED
  BY <1>3, <1>4, <1>5, <1>6, <1>7, <1>8, <1>9 DEF Next, Handshake, Forward, World

-----------------------------------------------------------------------------
(* Stop *)

\* Once the context is cancelled, the goroutine that is past its check has one
\* message left at most.
StopInv ==
  /\ stop # "no" => outAtStop \in Nat /\ Len(out) <= outAtStop + 1
  /\ stop # "no" /\ fwd \in {"read", "write"} => Len(out) <= outAtStop

LEMMA StopSteps == WireInv /\ StopInv /\ [Next]_vars => StopInv'
<1>. SUFFICES ASSUME WireInv, StopInv, [Next]_vars PROVE StopInv'
  OBVIOUS
<1>1. Len(out) \in Nat
  BY DEF WireInv
<1>2. CASE Handshake \/ World \/ UNCHANGED vars
  <2>1. UNCHANGED <<fwdVars, stopVars>>
    BY <1>2 DEF Handshake, NewTunnel, WriteSelect, AssertArgs, AssertReady, HandshakeFails,
       EmptyConnectionID, World, GuacdSends, GuacdCloses, Browser, vars
  <2>. QED
    BY <2>1 DEF StopInv, fwdVars, stopVars
<1>3. CASE Start \/ CheckContext \/ Read \/ ReadFails
  BY <1>3 DEF Start, CheckContext, Read, ReadFails, StopInv, stopVars
<1>4. CASE WriteMessage
  <2>1. out' = out \/ Len(out') = Len(out) + 1
    BY <1>4 DEF WriteMessage, WireInv
  <2>2. /\ fwd = "write" /\ fwd' \in {"check", "over"} /\ UNCHANGED <<stop, outAtStop>>
    BY <1>4 DEF WriteMessage, stopVars
  <2>. QED
    BY <1>1, <2>1, <2>2 DEF StopInv
<1>5. CASE StopCancel
  BY <1>1, <1>5 DEF StopCancel, StopInv, fwdVars
<1>6. CASE StopClose
  BY <1>6 DEF StopClose, StopInv, fwdVars
<1>. QED
  BY <1>2, <1>3, <1>4, <1>5, <1>6 DEF Next, Forward, Stop

\* After Stop, frames that were read into the buffer before are not forwarded: the
\* goroutine of Start looks at the context before each of them.
THEOREM AtMostOneAfterStop == Spec => []OneMessageAfterStop
<1>1. Init => StopInv
  BY DEF Init, StopInv
<1>2. StopInv => OneMessageAfterStop
  BY DEF StopInv, OneMessageAfterStop
<1>. QED
  BY ShakeInit, ShakeSteps, WireInit, WireSteps, StopSteps, <1>1, <1>2, PTL DEF Spec

-----------------------------------------------------------------------------
(* Whole instructions *)

\* The first k instructions are there, and Read keeps them whole.
Good(k) == k \in 0..Len(stream) /\ \A m \in 1..k : Kept(stream[m])

\* The reader is behind the frames of the first j instructions, or between the two
\* of the j-th.
AtFrame(j) ==
  /\ j \in 0..Len(stream)
  /\ \E B : /\ Placed(Blocks, B)
           /\ \/ readN = B[j]
              \/ j > 0 /\ stream[j][1] = "audio" /\ readN + 1 = B[j]

\* What was written, and what is about to be, are the first instructions of the
\* stream, as far as they are good.
ForwardInv ==
  /\ Good(Len(stream)) => Len(out) <= Len(stream)
  /\ \A k \in 1..Len(out) : Good(k) => out[k] = Delivered(stream[k])
  /\ fwd \in {"none", "check", "read"} /\ Good(Len(out)) => AtFrame(Len(out))
  /\ fwd = "write" =>
       /\ Good(Len(out)) => Len(out) + 1 <= Len(stream)
       /\ Good(Len(out) + 1) => /\ msg = Delivered(stream[Len(out) + 1])
                                /\ AtFrame(Len(out) + 1)

LEMMA ForwardInit == Init => ForwardInv
<1>. SUFFICES ASSUME Init PROVE ForwardInv
  OBVIOUS
<1>1. /\ stream \in Seq(Instructions) /\ Len(stream) \in Nat /\ Len(Blocks) = Len(stream)
      /\ readN = 0 /\ fwd = "none" /\ out = <<>> /\ Len(out) = 0
  BY WireInit, BlocksType DEF WireInv, Init
<1>2. PICK B : Placed(Blocks, B)
  BY <1>1, FramesPlaces
<1>3. AtFrame(0)
  <2>1. B[0] = readN /\ 0 \in 0..Len(stream)
    BY <1>1, <1>2 DEF Placed
  <2>. QED
    BY <1>2, <2>1 DEF AtFrame
<1>. QED
  BY <1>1, <1>3 DEF ForwardInv

\* What is rendered of the frames of an instruction.
LEMMA RenderedFrames ==
  ASSUME NEW i \in Instructions
  PROVE  /\ i[1] = "plain" => Rendered(i) = Delivered(i)
         /\ i[1] # "plain" => Rendered(HeadOf(i)) # <<>>
         /\ i[1] # "plain" /\ Kept(i) => /\ Rendered(HeadOf(i)) = Delivered(i)
                                        /\ Rendered(RateOf(i)) = <<>>
         /\ Delivered(i) # <<>>
<1>1. CASE i[1] = "plain"
  <2>1. i # KnownHead /\ i \notin KnownRates
    BY <1>1 DEF KnownHead, KnownRates
  <2>2. Rendered(i) = <<i>> /\ Delivered(i) = <<i>>
    BY <1>1, <2>1 DEF Rendered, Delivered
  <2>. QED
    BY <1>1, <2>2
<1>2. CASE i[1] # "plain"
  <2>1. HeadOf(i) \notin KnownRates /\ RateOf(i) # KnownHead
    BY DEF HeadOf, RateOf, KnownHead, KnownRates
  <2>2. Rendered(HeadOf(i)) # <<>>
    BY <2>1 DEF Rendered
  <2>3. Delivered(i) = <<KnownHead, <<"rate", 44100, 2>>>>
    BY <1>2 DEF Delivered
  <2>4. ASSUME Kept(i)
        PROVE  Rendered(HeadOf(i)) = Delivered(i) /\ Rendered(RateOf(i)) = <<>>
    <3>1. i[2] = 1 /\ i[3] = "L16" /\ RateOf(i) \in KnownRates
      BY <1>2, <2>4 DEF Kept, RateOf
    <3>2. i[4] \in {44100, 22050}
      BY <3>1 DEF RateOf, KnownRates
    <3>3. HeadOf(i) = KnownHead
      BY <3>1, <3>2 DEF HeadOf, KnownHead, TypeLength
    <3>. QED
      BY <2>1, <2>3, <3>1, <3>3 DEF Rendered
  <2>. QED
    BY <1>2, <2>2, <2>3, <2>4
<1>. QED
  BY <1>1, <1>2

\* The frame that is read next, when what was forwarded is whole.
LEMMA NextFrame ==
  ASSUME WireInv, NEW j \in Nat, Good(j), AtFrame(j), readN + 1 \in 1..Len(Frames)
  PROVE  LET f == Rendered(Frames[readN + 1])
         IN  \E B : /\ Placed(Blocks, B)
                   /\ \/ /\ j + 1 \in 1..Len(stream) /\ f # <<>>
                         /\ Kept(stream[j + 1]) =>
                              /\ f = Delivered(stream[j + 1])
                              /\ \/ readN + 1 = B[j + 1]
                                 \/ stream[j + 1][1] = "audio" /\ (readN + 1) + 1 = B[j + 1]
                      \/ f = <<>> /\ readN + 1 = B[j]
<1>. DEFINE n == Len(stream)
            f == Rendered(Frames[readN + 1])
<1>1. /\ n \in Nat /\ Len(Blocks) = n /\ readN \in Nat /\ DOMAIN stream = 1..n
      /\ \A k \in 1..n : stream[k] \in Instructions /\ Blocks[k] = FramesOf(stream[k])
  BY BlocksType DEF WireInv
<1>2. Frames = FlattenSeq(Blocks)
  BY FramesPlaces DEF WireInv
<1>3. PICK B : /\ Placed(Blocks, B)
               /\ \/ readN = B[j]
                  \/ j > 0 /\ stream[j][1] = "audio" /\ readN + 1 = B[j]
  BY DEF AtFrame
<1>4. /\ B \in [0..n -> Nat] /\ B[n] = Len(Frames)
      /\ \A k \in 1..n :
           /\ B[k] = B[k - 1] + Len(Blocks[k])
           /\ \A m \in 1..Len(Blocks[k]) : Frames[B[k - 1] + m] = Blocks[k][m]
  BY <1>1, <1>2, <1>3 DEF Placed
<1>5. ASSUME NEW k \in 1..n
      PROVE  /\ stream[k] \in Instructions
             /\ k - 1 \in 0..n /\ k \in 0..n /\ B[k - 1] \in Nat /\ B[k] \in Nat
  BY <1>1, <1>4
<1>6. CASE readN = B[j]
  <2>1. j # n
    BY <1>1, <1>4, <1>6
  <2>2. j \in 0..n
    BY DEF AtFrame
  <2>. DEFINE k == j + 1
  <2>3. k \in 1..n /\ k - 1 = j
    BY <1>1, <2>1, <2>2
  <2>4. Frames[readN + 1] = Blocks[k][1] /\ B[k] = readN + Len(Blocks[k])
    <3>1. 1 \in 1..Len(Blocks[k])
      <4>1. Len(FramesOf(stream[k])) \in {1, 2}
        BY <1>5, <2>3, BlockShapes
      <4>2. Blocks[k] = FramesOf(stream[k])
        BY <1>1, <2>3
      <4>3. Len(Blocks[k]) \in {1, 2}
        BY <4>1, <4>2
      <4>4. \A x \in {1, 2} : 1 \in 1..x
        OBVIOUS
      <4>. QED
        BY <4>3, <4>4
    <3>. QED
      BY <1>4, <1>6, <2>3, <3>1
  <2>5. CASE stream[k][1] = "plain"
    <3>1. Blocks[k] = <<stream[k]>> /\ Len(Blocks[k]) = 1
      BY <1>1, <2>3, <2>5, BlockShapes
    <3>2. f = Rendered(stream[k])
      BY <2>4, <3>1
    <3>3. f = Delivered(stream[k]) /\ f # <<>>
      BY <1>5, <2>3, <2>5, <3>2, RenderedFrames
    <3>4. readN + 1 = B[k]
      BY <2>4, <3>1
    <3>. QED
      BY <1>3, <2>3, <3>3, <3>4
  <2>6. CASE stream[k][1] # "plain"
    <3>1. /\ Blocks[k] = <<HeadOf(stream[k]), RateOf(stream[k])>>
          /\ Len(Blocks[k]) = 2 /\ stream[k][1] = "audio"
      BY <1>1, <2>3, <2>6, BlockShapes
    <3>2. f = Rendered(HeadOf(stream[k]))
      BY <2>4, <3>1
    <3>3. f # <<>> /\ (Kept(stream[k]) => f = Delivered(stream[k]))
      BY <1>5, <2>3, <2>6, <3>2, RenderedFrames
    <3>4. (readN + 1) + 1 = B[k]
      BY <1>1, <2>4, <3>1
    <3>. QED
      BY <1>3, <2>3, <3>1, <3>3, <3>4
  <2>. QED
    BY <2>5, <2>6
<1>7. CASE j > 0 /\ stream[j][1] = "audio" /\ readN + 1 = B[j]
  <2>1. j \in 1..n /\ Kept(stream[j])
    BY <1>1, <1>7 DEF AtFrame, Good
  <2>2. /\ Blocks[j] = <<HeadOf(stream[j]), RateOf(stream[j])>>
        /\ Len(Blocks[j]) = 2 /\ stream[j][1] # "plain"
    BY <1>1, <1>7, <2>1, BlockShapes
  <2>3. Frames[readN + 1] = Blocks[j][2]
    <3>1. readN + 1 = B[j - 1] + 2
      BY <1>4, <1>7, <2>1, <2>2
    <3>. QED
      <4>1. \A m \in 1..2 : Frames[B[j - 1] + m] = Blocks[j][m]
        BY <1>4, <2>1, <2>2
      <4>. QED
        BY <3>1, <4>1
  <2>4. f = <<>>
    BY <1>5, <2>1, <2>2, <2>3, RenderedFrames
  <2>. QED
    BY <1>3, <1>7, <2>4
<1>. QED
  BY <1>3, <1>6, <1>7

\* A good beginning has good beginnings.
LEMMA GoodBefore ==
  ASSUME stream \in Seq(Instructions), NEW j \in Nat
  PROVE  /\ Good(j + 1) => Good(j) /\ j + 1 \in 1..Len(stream) /\ Kept(stream[j + 1])
         /\ Good(Len(stream)) /\ j <= Len(stream) => Good(j)
  BY DEF Good

LEMMA ReadForwards ==
  ASSUME WireInv, ForwardInv, Read
  PROVE  ForwardInv'
<1>1. /\ fwd = "read" /\ fwd' = IF msg' = <<>> THEN "check" ELSE "write"
      /\ UNCHANGED <<stream, out>> /\ Len(out) \in Nat /\ Len(stream) \in Nat
      /\ stream \in Seq(Instructions)
  BY DEF Read, WireInv
<1>2. /\ readN + 1 \in 1..Len(Frames) /\ readN' = readN + 1
      /\ msg' = Rendered(Frames[readN + 1])
  BY ReadTakes
<1>. DEFINE j == Len(out)
<1>3. /\ Good(Len(stream)) => j <= Len(stream)
      /\ \A k \in 1..j : Good(k) => out[k] = Delivered(stream[k])
      /\ Good(j) => AtFrame(j)
  BY <1>1 DEF ForwardInv
<1>4. \A k : Good(k)' <=> Good(k)
  BY <1>1 DEF Good
<1>5. CASE ~Good(j)
  <2>1. ~Good(j + 1) /\ ~Good(Len(stream))
    BY <1>1, <1>3, <1>5, GoodBefore
  <2>. QED
    BY <1>1, <1>3, <1>4, <1>5, <2>1 DEF ForwardInv
<1>6. CASE Good(j)
  <2>1. PICK B : /\ Placed(Blocks, B)
                 /\ \/ /\ j + 1 \in 1..Len(stream) /\ msg' # <<>>
                       /\ Kept(stream[j + 1]) =>
                            /\ msg' = Delivered(stream[j + 1])
                            /\ \/ readN' = B[j + 1]
                               \/ stream[j + 1][1] = "audio" /\ readN' + 1 = B[j + 1]
                    \/ msg' = <<>> /\ readN' = B[j]
    BY <1>1, <1>2, <1>3, <1>6, NextFrame
  <2>2. Blocks' = Blocks
    BY <1>1 DEF Blocks
  <2>3. CASE msg' # <<>>
    <3>1. /\ j + 1 \in 1..Len(stream)
          /\ Kept(stream[j + 1]) =>
               /\ msg' = Delivered(stream[j + 1])
               /\ \/ readN' = B[j + 1]
                  \/ stream[j + 1][1] = "audio" /\ readN' + 1 = B[j + 1]
      BY <2>1, <2>3
    <3>2. j + 1 > 0 /\ j + 1 \in 0..Len(stream) /\ j + 1 <= Len(stream)
      BY <1>1, <3>1
    <3>3. Good(j + 1) => msg' = Delivered(stream[j + 1]) /\ AtFrame(j + 1)'
      <4>1. SUFFICES ASSUME Good(j + 1)
            PROVE  msg' = Delivered(stream[j + 1]) /\ AtFrame(j + 1)'
        OBVIOUS
      <4>2. Kept(stream[j + 1])
        BY <1>1, <4>1, GoodBefore
      <4>. QED
        BY <1>1, <2>1, <2>2, <3>1, <3>2, <4>2 DEF AtFrame, Placed
    <3>4. fwd' = "write"
      BY <1>1, <2>3
    <3>. QED
      BY <1>1, <1>3, <1>4, <3>2, <3>3, <3>4 DEF ForwardInv
  <2>4. CASE msg' = <<>>
    <3>1. readN' = B[j]
      BY <2>1, <2>4
    <3>2. AtFrame(j)'
      BY <1>1, <1>3, <1>6, <2>1, <2>2, <3>1 DEF AtFrame, Placed
    <3>3. fwd' = "check"
      BY <1>1, <2>4
    <3>. QED
      BY <1>1, <1>3, <1>4, <3>2, <3>3 DEF ForwardInv
  <2>. QED
    BY <2>3, <2>4
<1>. QED
  BY <1>5, <1>6

LEMMA WriteForwards ==
  ASSUME WireInv, ForwardInv, WriteMessage
  PROVE  ForwardInv'
<1>1. /\ fwd = "write" /\ UNCHANGED <<stream, readN>>
      /\ \/ out' = Append(out, msg) /\ fwd' = "check"
         \/ out' = out /\ fwd' = "over"
      /\ out \in Seq(Seq(AllFrames)) /\ msg \in Seq(AllFrames)
      /\ stream \in Seq(Instructions)
  BY DEF WriteMessage, WireInv, wireVars
<1>. DEFINE j == Len(out)
<1>2. /\ Good(Len(stream)) => j <= Len(stream)
      /\ \A k \in 1..j : Good(k) => out[k] = Delivered(stream[k])
      /\ Good(j) => j + 1 <= Len(stream)
      /\ Good(j + 1) => msg = Delivered(stream[j + 1]) /\ AtFrame(j + 1)
  BY <1>1 DEF ForwardInv
<1>3. \A k : /\ AtFrame(k)' <=> AtFrame(k)
             /\ Good(k)' <=> Good(k)
  BY <1>1 DEF AtFrame, Placed, Blocks, Good
<1>4. CASE out' = Append(out, msg) /\ fwd' = "check"
  <2>1. Len(out') = j + 1 /\ j \in Nat
    BY <1>1, <1>4
  <2>2. ASSUME NEW k \in 1..Len(out'), Good(k) PROVE out'[k] = Delivered(stream[k])
    <3>1. CASE k = j + 1
      <4>1. Append(out, msg)[j + 1] = msg
        BY <1>1
      <4>. QED
        BY <1>2, <1>4, <2>2, <3>1, <4>1
    <3>2. CASE k # j + 1
      <4>1. k \in 1..j
        BY <2>1, <3>2
      <4>2. Append(out, msg)[k] = out[k]
        BY <1>1, <4>1
      <4>. QED
        BY <1>2, <1>4, <2>2, <4>1, <4>2
    <3>. QED
      BY <3>1, <3>2
  <2>3. Good(Len(stream)) => j + 1 <= Len(stream)
    BY <1>1, <1>2, <2>1, GoodBefore
  <2>. QED
    BY <1>1, <1>2, <1>3, <1>4, <2>1, <2>2, <2>3 DEF ForwardInv
<1>5. CASE out' = out /\ fwd' = "over"
  BY <1>1, <1>2, <1>3, <1>5 DEF ForwardInv
<1>. QED
  BY <1>1, <1>4, <1>5

\* Nothing else reads or writes.
LEMMA OthersForward ==
  ASSUME ForwardInv, UNCHANGED <<stream, readN, msg, out>>,
         \/ fwd' = fwd
         \/ fwd' = "over"
         \/ fwd \in {"none", "check"} /\ fwd' \in {"check", "read"}
  PROVE  ForwardInv'
<1>1. \A k : /\ AtFrame(k)' <=> AtFrame(k)
             /\ Good(k)' <=> Good(k)
  BY DEF AtFrame, Placed, Blocks, Good
<1>. QED
  BY <1>1 DEF ForwardInv

LEMMA ForwardSteps == WireInv /\ ForwardInv /\ [Next]_vars => ForwardInv'
<1>. SUFFICES ASSUME WireInv, ForwardInv, [Next]_vars PROVE ForwardInv'
  OBVIOUS
<1>1. CASE Handshake \/ Stop \/ World \/ UNCHANGED vars
  <2>1. UNCHANGED <<stream, readN, fwdVars>>
    BY <1>1 DEF Handshake, NewTunnel, WriteSelect, AssertArgs, AssertReady, HandshakeFails,
       EmptyConnectionID, Stop, StopCancel, StopClose, World, GuacdSends, GuacdCloses, Browser,
       vars, wireVars
  <2>. QED
    BY <2>1, OthersForward DEF fwdVars
<1>2. CASE Start \/ CheckContext \/ ReadFails
  <2>1. /\ UNCHANGED <<stream, readN, msg, out>>
        /\ \/ fwd' = "over"
           \/ fwd \in {"none", "check"} /\ fwd' \in {"check", "read"}
    BY <1>2 DEF Start, CheckContext, ReadFails, wireVars
  <2>. QED
    BY <2>1, OthersForward
<1>. QED
  BY <1>1, <1>2, ReadForwards, WriteForwards DEF Next, Forward

\* Whatever instructions guacd sends, of whatever types and rates: up to the first
\* audio that Read does not know, the cut its reader makes inside the type of an
\* audio stream is mended before the WebSocket, and the browser gets whole
\* instructions in guacd's order, however they are buffered.
THEOREM InstructionsStayWhole == Spec => []ForwardedWhole
<1>1. WireInv /\ ForwardInv => ForwardedWhole
  <2>. SUFFICES ASSUME WireInv, ForwardInv, NEW k \in DOMAIN out,
                       \A m \in DOMAIN stream : m <= k => Kept(stream[m])
                PROVE  k \in DOMAIN stream /\ out[k] = Delivered(stream[k])
    BY DEF ForwardedWhole
  <2>1. /\ stream \in Seq(Instructions) /\ Len(stream) \in Nat
        /\ DOMAIN stream = 1..Len(stream)
    BY DEF WireInv
  <2>2. k \in 1..Len(out) /\ Len(out) \in Nat
    BY DEF WireInv
  <2>3. k \in 1..Len(stream)
    <3>1. SUFFICES ASSUME k > Len(stream) PROVE FALSE
      BY <2>1, <2>2
    <3>2. Good(Len(stream))
      BY <2>1, <2>2, <3>1 DEF Good
    <3>. QED
      BY <2>1, <2>2, <3>1, <3>2 DEF ForwardInv
  <2>4. Good(k)
    BY <2>1, <2>3 DEF Good
  <2>. QED
    BY <2>1, <2>2, <2>3, <2>4 DEF ForwardInv
<1>. QED
  BY ShakeInit, ShakeSteps, WireInit, WireSteps, ForwardInit, ForwardSteps, <1>1, PTL DEF Spec
=============================================================================
