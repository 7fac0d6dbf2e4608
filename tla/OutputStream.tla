--------------------------- MODULE OutputStream ---------------------------
(***************************************************************************)
(* What a terminal session promises about the output of the remote shell:  *)
(* the browser is sent what the shell wrote, in order, each piece once,    *)
(* with nothing left out before it, and nothing else.  What was read but   *)
(* not yet sent when the session stops may be lost.                        *)
(***************************************************************************)
EXTENDS Naturals, Sequences

VARIABLES read,   \* what was read from the shell so far
          sent    \* what was sent to the browser so far

vars == <<read, sent>>

Init == read = <<>> /\ sent = <<>>

\* One more piece, whatever it is.
Read == /\ Len(read') = Len(read) + 1
        /\ SubSeq(read', 1, Len(read)) = read
        /\ UNCHANGED sent

\* The next pieces, one or several at once, are sent.
Send == /\ \E n \in Len(sent) + 1 .. Len(read) :
             sent' = sent \o SubSeq(read, Len(sent) + 1, n)
        /\ UNCHANGED read

Next == Read \/ Send

Spec == Init /\ [][Next]_vars
===========================================================================
