---------------------------- MODULE Utf8Output ----------------------------
(***************************************************************************)
(* How sshTerminalSession.output cuts the bytes of stdout into chunks:     *)
(* reads end anywhere, chunks end between characters, and the beginning of *)
(* an incomplete character waits for the next read.                        *)
(*                                                                         *)
(* Of a byte only its part in UTF-8 is kept: 1 to 4 leads a character of   *)
(* that many bytes, 0 continues one, Invalid can do neither.               *)
(***************************************************************************)
EXTENDS Integers, Sequences, FiniteSetsExt

CONSTANTS Texts,     \* what stdout may carry: a set of sequences of bytes
          BufSize    \* size of the read buffer: 4096 in the code

Invalid == 5
Byte == 0..5

ASSUME TextsAssumption == Texts \subseteq Seq(Byte)
ASSUME BufSizeAssumption == BufSize \in Nat /\ BufSize > 3

VARIABLES text,       \* what stdout carries in this behaviour
          pos,        \* bytes read from it
          leftover,   \* bytes held back for the next read
          sent        \* bytes handed to dataChan, in chunks

vars == <<text, pos, leftover, sent>>

Init == text \in Texts /\ pos = 0 /\ leftover = <<>> /\ sent = <<>>

-----------------------------------------------------------------------------
\* utf8.RuneStart and utf8.FullRune
RuneStart(b) == b # 0
Width(b) == IF b \in 1..4 THEN b ELSE 1

\* The bytes are a character, or no continuation can make them one.
FullRune(p) ==
  \/ Len(p) >= Width(p[1])
  \/ Len(p) > 1 /\ p[2] # 0
  \/ Len(p) > 2 /\ p[3] # 0

From(data, i) == SubSeq(data, i, Len(data))

\* Mutant of CutPoints: one byte too few is looked at.
CutPointsNear(data) ==
  {i \in 1..Len(data) : i > Len(data) - 2 /\ RuneStart(data[i])}

\* Where the last character may begin: at one of the last three bytes.
CutPoints(data) ==
  {i \in 1..Len(data) : i > Len(data) - 3 /\ RuneStart(data[i])}

\* Mutant of Complete: without a beginning in sight everything is held back.
CompleteHolds(data) ==
  IF CutPoints(data) = {} THEN 0
  ELSE LET i == Max(CutPoints(data))
       IN  IF FullRune(From(data, i)) THEN Len(data) ELSE i - 1

\* How many bytes of data splitCompleteUTF8 lets through.
Complete(data) ==
  IF CutPoints(data) = {} THEN Len(data)
  ELSE LET i == Max(CutPoints(data))
       IN  IF FullRune(From(data, i)) THEN Len(data) ELSE i - 1

\* Mutant of SplitCompleteUTF8: the byte at the cut is in neither part.
SplitSkips(data) ==
  [valid |-> SubSeq(data, 1, Complete(data)), leftover |-> From(data, Complete(data) + 2)]

SplitCompleteUTF8(data) ==
  [valid |-> SubSeq(data, 1, Complete(data)), leftover |-> From(data, Complete(data) + 1)]

\* One round of output: n bytes are read behind the leftover, and what is
\* complete is put into the channel.
Read(n) ==
  /\ Len(leftover) + n <= BufSize
  /\ pos + n <= Len(text)
  /\ LET data == leftover \o SubSeq(text, pos + 1, pos + n)
         split == SplitCompleteUTF8(data)
     IN  /\ sent' = sent \o split.valid
         /\ leftover' = split.leftover
  /\ pos' = pos + n
  /\ UNCHANGED text

Next == \E n \in 1..BufSize : Read(n)

Spec == Init /\ [][Next]_vars

-----------------------------------------------------------------------------
(* Properties *)

\* The positions between two characters, when the bytes are characters.
Starts(t, i) == i \in 1..Len(t) /\ RuneStart(t[i]) /\ t[i] # Invalid
Valid(t) ==
  \A i \in 1..Len(t) :
    \/ Starts(t, i) /\ i + Width(t[i]) - 1 <= Len(t)
                    /\ \A k \in i + 1 .. i + Width(t[i]) - 1 : t[k] = 0
    \/ t[i] = 0 /\ \E k \in 1..i - 1 : Starts(t, k) /\ i < k + Width(t[k])
Between(t) == {0, Len(t)} \union {i \in 1..Len(t) - 1 : RuneStart(t[i + 1])}

\* Types, and at most 3 bytes are held back (comment of output): the next read
\* always has room.
TypeOK ==
  /\ text \in Texts /\ pos \in 0..Len(text)
  /\ leftover \in Seq(Byte) /\ Len(leftover) <= 3 /\ sent \in Seq(Byte)

\* Every byte that was read is sent or held back, in order, whatever the
\* bytes are: invalid output is passed on, not swallowed.
BytesKept == sent \o leftover = SubSeq(text, 1, pos)

\* "Strictly guarantees that Chinese characters or multi-byte symbols are not
\* cut by TCP fragmentation" (comment of splitCompleteUTF8): chunks end
\* between characters, and at the end of the text nothing is held back.
CharactersWhole ==
  Valid(text) => /\ Len(sent) \in Between(text)
                 /\ pos = Len(text) => sent = text
===========================================================================
