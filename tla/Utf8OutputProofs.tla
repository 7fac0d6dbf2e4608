-------------------------- MODULE Utf8OutputProofs --------------------------
(***************************************************************************)
(* Utf8Output for texts of any length and any size of the read buffer:     *)
(* no byte is lost, and no character of a valid text is cut.               *)
(***************************************************************************)
EXTENDS Utf8Output, SequenceTheorems, TLAPS

-----------------------------------------------------------------------------
(* Sequences of bytes *)

LEMMA JoinedInAnyOrder ==
  ASSUME NEW s \in Seq(Byte), NEW t \in Seq(Byte), NEW u \in Seq(Byte)
  PROVE  (s \o t) \o u = s \o (t \o u)
  BY ConcatAssociative

LEMMA Joined ==
  ASSUME NEW s \in Seq(Byte), NEW t \in Seq(Byte)
  PROVE  /\ Len(s \o t) = Len(s) + Len(t)
         /\ \A j \in 1..Len(t) : (s \o t)[Len(s) + j] = t[j]
  OBVIOUS

LEMMA CutAndJoined ==
  ASSUME NEW s \in Seq(Byte), NEW c \in 0..Len(s)
  PROVE  SubSeq(s, 1, c) \o SubSeq(s, c + 1, Len(s)) = s
<1>1. Len(s) \in Nat /\ 1 \in 1..Len(s) + 1 /\ c \in 1 - 1..Len(s) /\ Len(s) \in c..Len(s)
  OBVIOUS
<1>2. SubSeq(s, 1, c) \o SubSeq(s, c + 1, Len(s)) = SubSeq(s, 1, Len(s))
  BY <1>1, ConcatAdjacentSubSeq
<1>. QED
  BY <1>2, SubSeqFull

-----------------------------------------------------------------------------
(* Where the data is cut *)

\* One of at most three cut points is the last.
LEMMA LastCutPoint ==
  ASSUME NEW data \in Seq(Byte), CutPoints(data) # {}
  PROVE  /\ Max(CutPoints(data)) \in CutPoints(data)
         /\ \A k \in CutPoints(data) : k <= Max(CutPoints(data))
<1>. DEFINE S == CutPoints(data)
            L == Len(data)
<1>1. L \in Nat /\ S \subseteq {L - 2, L - 1, L}
  BY DEF CutPoints
<1>2. \E m \in S : \A k \in S : m >= k
  <2>1. CASE L \in S
    BY <1>1, <2>1
  <2>2. CASE L \notin S /\ L - 1 \in S
    BY <1>1, <2>2
  <2>3. CASE L \notin S /\ L - 1 \notin S
    <3>1. L - 2 \in S
      BY <1>1, <2>3
    <3>. QED
      BY <1>1, <2>3, <3>1
  <2>. QED
    BY <2>1, <2>2, <2>3
<1>3. Max(S) \in S /\ \A k \in S : Max(S) >= k
  BY <1>2 DEF Max
<1>4. \A k \in S : k \in Int /\ Max(S) \in Int
  BY <1>1, <1>3
<1>. QED
  BY <1>3, <1>4

\* The cut is within the data, at most three bytes before its end.
LEMMA CompleteRange ==
  ASSUME NEW data \in Seq(Byte)
  PROVE  Complete(data) \in 0..Len(data) /\ Len(data) - Complete(data) <= 3
<1>1. CASE CutPoints(data) = {}
  BY <1>1 DEF Complete
<1>2. CASE CutPoints(data) # {}
  <2>1. Max(CutPoints(data)) \in 1..Len(data) /\ Max(CutPoints(data)) > Len(data) - 3
    BY <1>2, LastCutPoint DEF CutPoints
  <2>. QED
    BY <1>2, <2>1 DEF Complete
<1>. QED
  BY <1>1, <1>2

\* Both parts together are the data.
LEMMA SplitKeeps ==
  ASSUME NEW data \in Seq(Byte)
  PROVE  LET split == SplitCompleteUTF8(data)
         IN  /\ split.valid \in Seq(Byte) /\ split.leftover \in Seq(Byte)
             /\ split.valid \o split.leftover = data
             /\ Len(split.valid) = Complete(data)
             /\ Len(split.leftover) <= 3
<1>. DEFINE c == Complete(data)
<1>1. c \in 0..Len(data) /\ Len(data) - c <= 3 /\ Len(data) \in Nat
  BY CompleteRange
<1>. HIDE DEF c
<1>2. SubSeq(data, 1, c) \o SubSeq(data, c + 1, Len(data)) = data
  BY <1>1, CutAndJoined
<1>4. SubSeq(data, 1, c) \in Seq(Byte) /\ SubSeq(data, c + 1, Len(data)) \in Seq(Byte)
  BY <1>1
<1>5. Len(SubSeq(data, 1, c)) = c /\ Len(SubSeq(data, c + 1, Len(data))) = Len(data) - c
  BY <1>1
<1>. QED
  BY <1>1, <1>2, <1>4, <1>5 DEF SplitCompleteUTF8, From, c

-----------------------------------------------------------------------------
(* Bytes are kept *)

\* What a round of output works on: n more bytes behind the leftover.
Data(n) == leftover \o SubSeq(text, pos + 1, pos + n)

KeptInv == TypeOK /\ BytesKept

LEMMA DataIsRead ==
  ASSUME KeptInv, NEW n \in 1..BufSize, Read(n)
  PROVE  /\ Data(n) \in Seq(Byte)
         /\ Len(Data(n)) = Len(leftover) + n
         /\ sent \o Data(n) = SubSeq(text, 1, pos + n)
         /\ pos + n \in 0..Len(text)
<1>1. text \in Seq(Byte) /\ leftover \in Seq(Byte) /\ sent \in Seq(Byte) /\ pos \in 0..Len(text)
  BY TextsAssumption DEF KeptInv, TypeOK
<1>2. n \in Nat /\ n > 0 /\ pos + n \in pos..Len(text) /\ Len(text) \in Nat
  BY <1>1, BufSizeAssumption DEF Read
<1>3. SubSeq(text, pos + 1, pos + n) \in Seq(Byte) /\ Len(SubSeq(text, pos + 1, pos + n)) = n
  BY <1>1, <1>2
<1>4. SubSeq(text, 1, pos) \o SubSeq(text, pos + 1, pos + n) = SubSeq(text, 1, pos + n)
  BY <1>1, <1>2, ConcatAdjacentSubSeq
<1>5. sent \o Data(n) = (sent \o leftover) \o SubSeq(text, pos + 1, pos + n)
  BY <1>1, <1>3, JoinedInAnyOrder DEF Data
<1>. QED
  BY <1>1, <1>2, <1>3, <1>4, <1>5, ConcatProperties DEF Data, KeptInv, BytesKept

LEMMA ReadKeeps ==
  ASSUME KeptInv, NEW n \in 1..BufSize, Read(n)
  PROVE  KeptInv'
<1>. DEFINE split == SplitCompleteUTF8(Data(n))
<1>1. Data(n) \in Seq(Byte) /\ sent \o Data(n) = SubSeq(text, 1, pos + n) /\ pos + n \in 0..Len(text)
  BY DataIsRead
<1>2. /\ split.valid \in Seq(Byte) /\ split.leftover \in Seq(Byte)
      /\ split.valid \o split.leftover = Data(n) /\ Len(split.leftover) <= 3
  BY <1>1, SplitKeeps
<1>3. /\ sent' = sent \o split.valid /\ leftover' = split.leftover
      /\ pos' = pos + n /\ text' = text
  BY DEF Read, Data
<1>4. sent \in Seq(Byte) /\ text \in Texts
  BY DEF KeptInv, TypeOK
<1>. HIDE DEF split
<1>5. sent' \o leftover' = sent \o (split.valid \o split.leftover)
  BY <1>2, <1>3, <1>4, JoinedInAnyOrder
<1>6. BytesKept'
  BY <1>1, <1>2, <1>3, <1>5 DEF BytesKept
<1>7. TypeOK'
  BY <1>1, <1>2, <1>3, <1>4, ConcatProperties DEF TypeOK
<1>. QED
  BY <1>6, <1>7 DEF KeptInv

LEMMA KeptInvariance == Spec => []KeptInv
<1>1. Init => KeptInv
  <2> SUFFICES ASSUME Init PROVE KeptInv
    OBVIOUS
  <2>1. text \in Seq(Byte) /\ pos = 0 /\ leftover = <<>> /\ sent = <<>> /\ text \in Texts
    BY TextsAssumption DEF Init
  <2>2. SubSeq(text, 1, 0) = <<>>
    BY <2>1, SubSeqEmpty
  <2>3. <<>> \in Seq(Byte) /\ Len(<<>>) = 0 /\ <<>> \o <<>> = <<>>
    OBVIOUS
  <2>. QED
    BY <2>1, <2>2, <2>3 DEF KeptInv, TypeOK, BytesKept
<1>2. KeptInv /\ [Next]_vars => KeptInv'
  <2>1. ASSUME KeptInv, UNCHANGED vars PROVE KeptInv'
    BY <2>1 DEF KeptInv, TypeOK, BytesKept, vars
  <2>. QED
    BY <2>1, ReadKeeps DEF Next
<1>. QED
  BY <1>1, <1>2, PTL DEF Spec

\* Types, and at most three bytes are held back, however large the reads are: the
\* read buffer of output always has room behind the leftover.
THEOREM LeftoverFits == Spec => []TypeOK
<1>1. KeptInv => TypeOK
  BY DEF KeptInv
<1>. QED
  BY <1>1, KeptInvariance, PTL

\* What output hands to dataChan is what stdout carries, byte for byte, whether or
\* not it is text.
THEOREM NoByteIsLost == Spec => []BytesKept
<1>1. KeptInv => BytesKept
  BY DEF KeptInv
<1>. QED
  BY <1>1, KeptInvariance, PTL

-----------------------------------------------------------------------------
(* Characters are whole *)

\* d is what follows position b, which is between two characters of t.
Follows(t, b, d) ==
  /\ b \in 0..Len(t) /\ Len(d) > 0 /\ b + Len(d) <= Len(t)
  /\ RuneStart(t[b + 1])
  /\ \A j \in 1..Len(d) : d[j] = t[b + j]

\* The character that begins at k does not end before position e.
Covers(t, k, e) ==
  /\ Starts(t, k) /\ k <= e /\ e < k + Width(t[k]) - 1
  /\ \A j \in k + 1..e + 1 : t[j] = 0

LEMMA WidthRange == ASSUME NEW b PROVE Width(b) \in 1..4 BY DEF Width

\* A byte that continues a character belongs to one that begins before it.
LEMMA ContinuationIsCovered ==
  ASSUME NEW t \in Seq(Byte), Valid(t), NEW e \in 1..Len(t) - 1, t[e + 1] = 0
  PROVE  \E k \in 1..e : Covers(t, k, e)
<1>1. Len(t) \in Nat /\ e + 1 \in 1..Len(t) /\ ~Starts(t, e + 1)
  BY DEF Starts, RuneStart
<1>2. PICK k \in 1..(e + 1) - 1 : Starts(t, k) /\ e + 1 < k + Width(t[k])
  BY <1>1 DEF Valid
<1>3. k \in 1..e /\ k \in 1..Len(t) /\ t[k] # 0 /\ Width(t[k]) \in 1..4
  BY <1>1, <1>2, WidthRange DEF Starts, RuneStart
<1>4. \A j \in k + 1..k + Width(t[k]) - 1 : t[j] = 0
  BY <1>3 DEF Valid
<1>5. \A j \in k + 1..e + 1 : j \in k + 1..k + Width(t[k]) - 1
  BY <1>2, <1>3
<1>. QED
  BY <1>2, <1>3, <1>4, <1>5 DEF Covers

\* A character that does not end with the data is held back.
LEMMA CoveredIsHeldBack ==
  ASSUME NEW t \in Seq(Byte), NEW b, NEW d \in Seq(Byte), Follows(t, b, d),
         NEW k \in Nat, Covers(t, k, b + Len(d))
  PROVE  Complete(d) # Len(d)
<1>. DEFINE e == b + Len(d)
            i == k - b
<1>1. b \in Nat /\ Len(d) \in Nat /\ Len(t) \in Nat /\ e \in Nat /\ e <= Len(t)
  BY DEF Follows
<1>2. k <= e /\ e < k + Width(t[k]) - 1 /\ Width(t[k]) \in 1..4 /\ t[k] # 0
  BY WidthRange DEF Covers, Starts, RuneStart
<1>3. k > b
  <2>1. SUFFICES ASSUME k <= b PROVE FALSE
    BY <1>1
  <2>2. b + 1 \in k + 1..e + 1
    BY <1>1, <2>1 DEF Follows
  <2>. QED
    BY <2>2 DEF Covers, Follows, RuneStart
<1>4. i \in 1..Len(d) /\ d[i] = t[k] /\ i > Len(d) - 3
  BY <1>1, <1>2, <1>3 DEF Follows
<1>5. \A j \in i + 1..Len(d) : d[j] = 0
  <2>1. TAKE j \in i + 1..Len(d)
  <2>2. b + j \in k + 1..e + 1 /\ j \in 1..Len(d)
    BY <1>1, <1>4
  <2>. QED
    BY <2>2 DEF Covers, Follows
<1>6. i \in CutPoints(d) /\ \A j \in CutPoints(d) : j <= i
  BY <1>2, <1>4, <1>5 DEF CutPoints, RuneStart
<1>7. Max(CutPoints(d)) = i
  <2>1. Max(CutPoints(d)) \in CutPoints(d) /\ i <= Max(CutPoints(d))
    BY <1>6, LastCutPoint
  <2>2. Max(CutPoints(d)) <= i /\ Max(CutPoints(d)) \in Int
    BY <1>6, <2>1 DEF CutPoints
  <2>. QED
    BY <1>4, <2>1, <2>2
<1>8. ~FullRune(From(d, i))
  <2>. DEFINE p == From(d, i)
  <2>1. Len(p) = Len(d) - i + 1 /\ \A j \in 1..Len(p) : p[j] = d[i + j - 1]
    BY <1>1, <1>4 DEF From
  <2>2. p[1] = t[k] /\ Len(p) < Width(t[k])
    BY <1>1, <1>2, <1>4, <2>1
  <2>3. Len(p) \in Nat /\ (Len(p) > 1 => p[2] = 0) /\ (Len(p) > 2 => p[3] = 0)
    <3>1. i \in Nat /\ Len(d) \in Nat /\ i <= Len(d)
      BY <1>1, <1>4
    <3>2. Len(p) \in Nat
      BY <2>1, <3>1
    <3>3. ASSUME NEW j \in {2, 3}, Len(p) > j - 1 PROVE p[j] = 0
      <4>1. j \in 1..Len(p) /\ i + j - 1 \in i + 1..Len(d)
        BY <2>1, <3>1, <3>2, <3>3
      <4>2. p[j] = d[i + j - 1] /\ d[i + j - 1] = 0
        BY <1>5, <2>1, <4>1
      <4>. QED
        BY <4>2
    <3>. HIDE DEF p
    <3>. QED
      BY <3>2, <3>3
  <2>. QED
    BY <1>2, <2>2, <2>3 DEF FullRune
<1>. QED
  BY <1>1, <1>4, <1>6, <1>7, <1>8 DEF Complete

\* A text has characters where one can begin.
LEMMA BetweenIsStart ==
  ASSUME NEW t \in Seq(Byte), Valid(t), NEW b \in Between(t), b < Len(t)
  PROVE  b \in 0..Len(t) /\ RuneStart(t[b + 1])
<1>1. Len(t) \in Nat /\ b \in 0..Len(t)
  BY DEF Between
<1>2. CASE b = 0
  <2>1. Starts(t, 1)
    BY <1>1, <1>2 DEF Valid
  <2>. QED
    BY <1>1, <1>2, <2>1 DEF Starts
<1>3. CASE b # 0
  BY <1>1, <1>3 DEF Between
<1>. QED
  BY <1>1, <1>2, <1>3

\* The cut is between two characters, and nothing is held back at the end.
LEMMA CutIsBetween ==
  ASSUME NEW t \in Seq(Byte), Valid(t), NEW b, NEW d \in Seq(Byte), Follows(t, b, d)
  PROVE  /\ b + Complete(d) \in Between(t)
         /\ b + Len(d) = Len(t) => Complete(d) = Len(d)
<1>. DEFINE e == b + Len(d)
            c == Complete(d)
<1>1. /\ b \in Nat /\ Len(d) \in Nat /\ Len(d) > 0 /\ Len(t) \in Nat
      /\ e \in 1..Len(t) /\ b \in 0..Len(t) - 1
  BY DEF Follows
<1>2. c \in 0..Len(d)
  BY CompleteRange
<1>3. CASE c = Len(d)
  <2>1. CASE e = Len(t)
    BY <1>1, <1>3, <2>1 DEF Between
  <2>2. CASE e < Len(t)
    <3>1. e \in 1..Len(t) - 1
      BY <1>1, <2>2
    <3>2. t[e + 1] # 0
      <4>1. SUFFICES ASSUME t[e + 1] = 0 PROVE FALSE
        OBVIOUS
      <4>2. PICK k \in 1..e : Covers(t, k, e)
        BY <3>1, <4>1, ContinuationIsCovered
      <4>3. k \in Nat
        BY <1>1
      <4>. QED
        BY <1>3, <4>2, <4>3, CoveredIsHeldBack
    <3>. QED
      BY <1>3, <2>2, <3>1, <3>2 DEF Between, RuneStart
  <2>. QED
    BY <1>1, <1>3, <2>1, <2>2
<1>4. CASE c # Len(d)
  <2>. DEFINE i == Max(CutPoints(d))
  <2>1. /\ CutPoints(d) # {} /\ c = i - 1 /\ ~FullRune(From(d, i))
    BY <1>4 DEF Complete
  <2>2. i \in CutPoints(d) /\ \A k \in CutPoints(d) : k <= i
    BY <2>1, LastCutPoint
  <2>. HIDE DEF i
  <2>3. i \in 1..Len(d) /\ i > Len(d) - 3 /\ RuneStart(d[i])
    BY <2>2 DEF CutPoints
  <2>4. b + i \in 1..Len(t) /\ t[b + i] = d[i]
    BY <1>1, <2>3 DEF Follows
  <2>5. b + c \in Between(t)
    <3>1. CASE b + c = 0
      BY <3>1 DEF Between
    <3>2. CASE b + c # 0
      <4>1. b + c \in 1..Len(t) - 1 /\ (b + c) + 1 = b + i
        BY <1>1, <1>2, <2>1, <2>3, <2>4, <3>2
      <4>. QED
        BY <2>3, <2>4, <4>1 DEF Between
    <3>. QED
      BY <3>1, <3>2
  <2>6. e # Len(t)
    <3>1. SUFFICES ASSUME e = Len(t) PROVE FALSE
      OBVIOUS
    <3>2. Starts(t, b + i) /\ (b + i) + Width(t[b + i]) - 1 <= Len(t)
      BY <2>3, <2>4 DEF Valid, RuneStart
    <3>3. Len(From(d, i)) = Len(d) - i + 1 /\ From(d, i)[1] = d[i]
      BY <1>1, <2>3 DEF From
    <3>4. Width(t[b + i]) \in 1..4
      BY WidthRange
    <3>5. Len(From(d, i)) >= Width(From(d, i)[1])
      BY <1>1, <2>3, <2>4, <3>1, <3>2, <3>3, <3>4
    <3>. QED
      BY <2>1, <3>5 DEF FullRune
  <2>. QED
    BY <2>5, <2>6
<1>. QED
  BY <1>3, <1>4

WholeInv == KeptInv /\ CharactersWhole

LEMMA ReadKeepsWhole ==
  ASSUME WholeInv, NEW n \in 1..BufSize, Read(n)
  PROVE  CharactersWhole'
<1>. DEFINE d == Data(n)
            split == SplitCompleteUTF8(d)
            b == Len(sent)
<1>1. /\ KeptInv /\ text' = text /\ pos' = pos + n
      /\ sent' = sent \o split.valid /\ n \in Nat /\ n > 0
  BY BufSizeAssumption DEF WholeInv, Read, Data
<1>2. /\ text \in Seq(Byte) /\ sent \in Seq(Byte) /\ leftover \in Seq(Byte)
      /\ sent \o leftover = SubSeq(text, 1, pos) /\ pos \in 0..Len(text)
  BY <1>1, TextsAssumption DEF KeptInv, TypeOK, BytesKept
<1>3. /\ d \in Seq(Byte) /\ Len(d) = Len(leftover) + n
      /\ sent \o d = SubSeq(text, 1, pos + n) /\ pos + n \in 0..Len(text)
  BY <1>1, DataIsRead
<1>4. split.valid \in Seq(Byte) /\ Len(split.valid) = Complete(d) /\ Complete(d) \in 0..Len(d)
  BY <1>3, SplitKeeps, CompleteRange
<1>. HIDE DEF d, split
<1>5. SUFFICES ASSUME Valid(text)
               PROVE  Len(sent') \in Between(text) /\ (pos' = Len(text) => sent' = text)
  BY <1>1 DEF CharactersWhole
<1>6. b \in Between(text)
  BY <1>5 DEF WholeInv, CharactersWhole
<1>7. b + Len(d) = pos + n /\ b \in Nat /\ b < Len(text)
  <2>1. Len(sent \o d) = b + Len(d) /\ Len(sent \o leftover) = b + Len(leftover)
    BY <1>2, <1>3, Joined
  <2>2. Len(SubSeq(text, 1, pos + n)) = pos + n /\ Len(SubSeq(text, 1, pos)) = pos
    BY <1>2, <1>3
  <2>. QED
    BY <1>1, <1>2, <1>3, <2>1, <2>2
<1>8. \A j \in 1..Len(d) : d[j] = text[b + j]
  <2>1. TAKE j \in 1..Len(d)
  <2>2. (sent \o d)[b + j] = d[j]
    BY <1>2, <1>3, <2>1, Joined
  <2>3. b + j \in 1..pos + n
    BY <1>3, <1>7, <2>1
  <2>4. SubSeq(text, 1, pos + n)[b + j] = text[b + j]
    BY <1>2, <1>3, <2>3
  <2>. QED
    BY <1>3, <2>2, <2>4
<1>9. Follows(text, b, d)
  <2>1. b \in 0..Len(text) /\ RuneStart(text[b + 1])
    BY <1>2, <1>5, <1>6, <1>7, BetweenIsStart
  <2>2. Len(d) > 0 /\ b + Len(d) <= Len(text)
    BY <1>1, <1>2, <1>3, <1>7
  <2>. QED
    BY <1>8, <2>1, <2>2 DEF Follows
<1>10. /\ b + Complete(d) \in Between(text)
       /\ b + Len(d) = Len(text) => Complete(d) = Len(d)
  BY <1>2, <1>3, <1>5, <1>9, CutIsBetween
<1>11. Len(sent') = b + Complete(d)
  BY <1>1, <1>2, <1>4, Joined
<1>12. ASSUME pos' = Len(text) PROVE sent' = text
  <2>1. Complete(d) = Len(d)
    BY <1>1, <1>7, <1>10, <1>12
  <2>2. split.valid = SubSeq(d, 1, Len(d))
    BY <2>1 DEF split, SplitCompleteUTF8
  <2>3. split.valid = d
    BY <1>3, <2>2, SubSeqFull
  <2>4. SubSeq(text, 1, Len(text)) = text
    BY <1>2, SubSeqFull
  <2>. QED
    BY <1>1, <1>3, <1>12, <2>3, <2>4
<1>. QED
  BY <1>10, <1>11, <1>12

\* "Strictly guarantees that Chinese characters or multi-byte symbols are not cut by
\* TCP fragmentation" (comment of splitCompleteUTF8): as long as stdout carries
\* text, every chunk ends between characters, wherever the reads end; and once all
\* of it was read, all of it was sent.
THEOREM CharactersAreWhole == Spec => []CharactersWhole
<1>1. Init => CharactersWhole
  <2> SUFFICES ASSUME Init PROVE CharactersWhole
    OBVIOUS
  <2>1. sent = <<>> /\ pos = 0 /\ text \in Seq(Byte) /\ Len(sent) = 0
    BY TextsAssumption DEF Init
  <2>2. Len(text) = 0 => text = <<>>
    BY <2>1
  <2>. QED
    BY <2>1, <2>2 DEF CharactersWhole, Between
<1>2. KeptInv /\ CharactersWhole /\ [Next]_vars => CharactersWhole'
  <2>1. ASSUME CharactersWhole, UNCHANGED vars PROVE CharactersWhole'
    BY <2>1 DEF CharactersWhole, vars
  <2>. QED
    BY <2>1, ReadKeepsWhole DEF Next, WholeInv
<1>. QED
  BY <1>1, <1>2, KeptInvariance, PTL DEF Spec
=============================================================================
