--------------------------- MODULE MCUtf8Output ---------------------------
(* Utf8Output on all short texts, valid or not, for TLC. *)
EXTENDS Utf8Output, SequencesExt

\* The characters of 1 to 4 bytes, and texts of up to three of them.
Character == {<<1>>, <<2, 0>>, <<3, 0, 0>>, <<4, 0, 0, 0>>}
ValidTexts == {FlattenSeq(cs) : cs \in BoundedSeq(Character, 3)}

\* All sequences of up to five bytes, most of which are no text.
MCTexts == ValidTexts \union BoundedSeq(Byte, 5)
===========================================================================
