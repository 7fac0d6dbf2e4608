----------------------------- MODULE GuacTunnel -----------------------------
(***************************************************************************)
(* A tunnel to guacd (package guacx): the handshake of Tunnel, and the     *)
(* GuacamoleHandler that forwards instructions to a WebSocket until Stop.  *)
(*                                                                         *)
(* An instruction of the handshake is the sequence of its opcode and its   *)
(* arguments, each a value: its runs between commas, each run cut at its   *)
(* dots.  "192.168.1.1" is << <<"192", "168", "1", "1">> >>, the password  *)
(* "a,b" is << <<"a">>, <<"b">> >> and the empty value is << <<"">> >>.    *)
(*                                                                         *)
(* The reader of the tunnel cuts the stream at every ";", also at the one  *)
(* inside the type of an audio stream, "audio/L16;rate=44100,channels=2":  *)
(* an audio instruction comes as two frames, of which Read knows a few by  *)
(* their full text and puts them together again.  An instruction is        *)
(* <<"plain">> or <<"audio", index, type, rate, channels>>.                *)
(*                                                                         *)
(* guacd may stall, answer wrongly or close the connection at any point.   *)
(* The owner of the tunnel - no handler of the plugin yet - starts the     *)
(* forwarding after a handshake and may stop it at any time.               *)
(***************************************************************************)
EXTENDS Naturals, Sequences, SequencesExt

CONSTANTS Streams,     \* what guacd may send once the connection is ready
          Asked,       \* the parameter names "args" may ask for
          Parameters   \* those the Config has, as a function of their names

\* Rates of four or five digits; guacd has samples of one byte and of two.
Rates == 1000..99999
Instructions ==
  {<<"plain">>} \union ({"audio"} \X Nat \X {"L8", "L16"} \X Rates \X {1, 2})

\* Cutting leaves at least one piece.
Values == Seq(Seq(STRING) \ {<<>>}) \ {<<>>}

ASSUME StreamsAssumption == Streams \subseteq Seq(Instructions)
\* The names guacd knows have no comma.
ASSUME AskedAssumption ==
  Asked \subseteq Seq(Values) /\ \A names \in Asked : \A n \in Range(names) : Len(n) = 1
ASSUME ParametersAssumption ==
  DOMAIN Parameters \subseteq Values /\ Range(Parameters) \subseteq Values

VARIABLES
  connectionID,  \* of the Config: Empty, or the connection to join
  wrote,     \* the instructions Handshake wrote
  asked,     \* the names guacd asked for
  conn,      \* the connection of the tunnel
  hs,        \* where Handshake is, or how it ended
  guacd,     \* "up", or "down" once it has closed the connection
  stream,    \* the instructions guacd sends
  sentN,     \* frames of them it has sent,
  bufN,      \* of which so many were in the buffered reader,
  readN,     \* and so many were read
  fwd,       \* where the forwarding goroutine is
  msg,       \* the message it writes next
  out,       \* messages written to the WebSocket
  ws,        \* "reading", "stuck" or "gone": the browser
  stop,      \* how far Stop has got: "no", "cancelled", "closed"
  outAtStop  \* messages written when the context was cancelled

connVars == <<conn, hs>>
wireVars == <<stream, sentN, bufN, readN>>
fwdVars == <<fwd, msg, out>>
stopVars == <<stop, outAtStop>>
shakeVars == <<connectionID, wrote, asked>>
vars == <<shakeVars, connVars, guacd, wireVars, fwdVars, ws, stopVars>>

-----------------------------------------------------------------------------
(* The codec of instructions *)

Word(w) == << <<w>> >>
Empty == Word("")

\* String: every value goes behind its length, in characters, and a dot.  By the
\* length guacd tells the commas of a value from those between values; Parse
\* does not look at it.
Elements(instruction) ==
  FlattenSeq([k \in DOMAIN instruction |->
    << <<"length">> \o Head(instruction[k]) >> \o Tail(instruction[k])])

\* Parse: split at commas; of each element, what is behind its first dot.
\* Nothing left is an instruction with the empty opcode.
Parse(elements) ==
  LET args == FlattenSeq([k \in DOMAIN elements |->
                IF Len(elements[k]) < 2 THEN <<>> ELSE << << Tail(elements[k]) >> >>])
  IN  IF args = <<>> THEN <<Empty>> ELSE args

-----------------------------------------------------------------------------
\* The length in front of the type: "audio/L16;rate=44100,channels=2" has 31
\* characters, one less each for L8 and for a rate of four digits.
TypeLength(i) ==
  29 + (IF i[3] = "L16" THEN 1 ELSE 0) + (IF i[4] < 10000 THEN 0 ELSE 1)

\* What the stream of i is cut into: the head of an audio instruction ends
\* within its type, the rest is rate and channels.
FramesOf(i) ==
  IF i[1] = "plain" THEN <<i>>
  ELSE << <<"head", i[2], i[3], TypeLength(i)>>, <<"rate", i[4], i[5]>> >>
Frames == FlattenSeq([k \in DOMAIN stream |-> FramesOf(stream[k])])

Init ==
  /\ connectionID \in {Empty, Word("joined")} /\ wrote = <<>> /\ asked = <<>>
  /\ conn = "none" /\ hs = "none" /\ guacd = "up"
  /\ stream \in Streams /\ sentN = 0 /\ bufN = 0 /\ readN = 0
  /\ fwd = "none" /\ msg = <<>> /\ out = <<>>
  /\ ws = "reading" /\ stop = "no" /\ outAtStop = 0

-----------------------------------------------------------------------------
(* NewTunnel and Handshake *)

NewTunnel ==
  /\ conn = "none"
  /\ \/ conn' = "open" /\ hs' = "select"
     \/ conn' = "refused" /\ hs' = "failed"
  /\ UNCHANGED <<shakeVars, guacd, wireVars, fwdVars, ws, stopVars>>

\* The connection of the Config is joined, or a new one is begun.
SelectArg == IF connectionID = Empty THEN Word("protocol") ELSE connectionID

\* GetParameter: of a missing key, the zero value.
GetParameter(name) ==
  IF name \in DOMAIN Parameters THEN Parameters[name] ELSE Empty

\* Mutant of Answers: parameters the Config does not have are left out.
AnswersPresent(names) ==
  LET present == SelectSeq(names, LAMBDA n : n \in DOMAIN Parameters)
  IN  [k \in DOMAIN present |-> GetParameter(present[k])]

Answers(names) == [k \in DOMAIN names |-> GetParameter(names[k])]

Settings ==
  << <<Word("size"), GetParameter(Word("width")), GetParameter(Word("height")),
       GetParameter(Word("dpi"))>>,
     <<Word("audio"), Word("audio/L8")>>, <<Word("video")>>,
     <<Word("image"), Word("image/jpeg"), Word("image/png"), Word("image/webp")>>,
     <<Word("timezone"), Word("Asia/Shanghai")>> >>

\* A write gets as far as the kernel, also when guacd has gone.
WriteSelect ==
  /\ hs = "select" /\ hs' = "args"
  /\ wrote' = << <<Word("select"), SelectArg>> >>
  /\ UNCHANGED <<connectionID, asked, conn, guacd, wireVars, fwdVars, ws, stopVars>>

\* guacd's "args", as Parse reads them; what is written next, from "size" to
\* "connect", is one step.
AssertArgs ==
  /\ hs = "args" /\ hs' = "ready"
  /\ asked' \in Asked
  /\ LET args == Tail(Parse(Elements(<<Word("args")>> \o asked')))
     IN  wrote' = wrote \o Settings \o << <<Word("connect")>> \o Answers(args) >>
  /\ UNCHANGED <<connectionID, conn, guacd, wireVars, fwdVars, ws, stopVars>>

\* "ready" is read with what guacd sent right behind it.
AssertReady ==
  /\ hs = "ready" /\ hs' = "done"
  /\ connectionID' = Word("ready")
  /\ bufN' \in 0..sentN
  /\ UNCHANGED <<wrote, asked, conn, guacd, stream, sentN, readN, fwdVars, ws, stopVars>>

\* Mutant of HandshakeFails: an unexpected instruction is returned as an error
\* without setting the variable that the deferred function looks at.
HandshakeFailsUnset ==
  /\ hs \in {"select", "args", "ready"}
  /\ guacd = "down" \/ hs # "select"
  /\ hs' = "failed"
  /\ conn' = IF guacd = "down" THEN "closed" ELSE conn
  /\ UNCHANGED <<shakeVars, guacd, wireVars, fwdVars, ws, stopVars>>

\* guacd has gone, or it answers with another instruction: err is set, and the
\* deferred function closes the connection.  The Config stays as it was.
HandshakeFails ==
  /\ hs \in {"select", "args", "ready"}
  /\ guacd = "down" \/ hs # "select"
  /\ hs' = "failed" /\ conn' = "closed"
  /\ UNCHANGED <<shakeVars, guacd, wireVars, fwdVars, ws, stopVars>>

\* "ready" without a connection id: the error is returned, but err is nil.
EmptyConnectionID ==
  /\ hs = "ready" /\ hs' = "empty"
  /\ UNCHANGED <<shakeVars, conn, guacd, wireVars, fwdVars, ws, stopVars>>

-----------------------------------------------------------------------------
(* Start: the forwarding goroutine *)

Start ==
  /\ hs = "done" /\ fwd = "none"
  /\ fwd' = "check"
  /\ UNCHANGED <<shakeVars, connVars, guacd, wireVars, msg, out, ws, stopVars>>

\* Mutant of CheckContext: the context is not looked at.
CheckContextSkips ==
  /\ fwd = "check" /\ fwd' = "read"
  /\ UNCHANGED <<shakeVars, connVars, guacd, wireVars, msg, out, ws, stopVars>>

CheckContext ==
  /\ fwd = "check"
  /\ fwd' = IF stop = "no" THEN "read" ELSE "over"
  /\ UNCHANGED <<shakeVars, connVars, guacd, wireVars, msg, out, ws, stopVars>>

KnownHead == <<"head", 1, "L16", 31>>
KnownRates == {<<"rate", 44100, 2>>, <<"rate", 22050, 2>>}

\* Mutant of Rendered: the rate is not held back.
RenderedRaw(f) == IF f = KnownHead THEN <<f, <<"rate", 44100, 2>>>> ELSE <<f>>

\* Read: one head is completed, with the usual rate; two rates are swallowed,
\* behind whichever head they come; all else is handed on as it was cut.
Rendered(f) ==
  CASE f = KnownHead -> <<f, <<"rate", 44100, 2>>>>
    [] f \in KnownRates -> <<>>
    [] OTHER -> <<f>>

\* The next frame, from the buffer if one is there, from the connection if not.
Read ==
  /\ fwd = "read"
  /\ \/ readN < bufN /\ bufN' = bufN
     \/ readN = bufN /\ conn = "open" /\ bufN' \in bufN + 1..sentN
  /\ readN' = readN + 1
  /\ msg' = Rendered(Frames[readN + 1])
  /\ fwd' = IF msg' = <<>> THEN "check" ELSE "write"
  /\ UNCHANGED <<shakeVars, connVars, guacd, stream, sentN, out, ws, stopVars>>

\* Nothing is left in the buffer, and the connection was closed on either side;
\* what guacd sent last may get lost with it.
ReadFails ==
  /\ fwd = "read" /\ readN = bufN
  /\ conn = "closed" \/ guacd = "down"
  /\ fwd' = "over"
  /\ UNCHANGED <<shakeVars, connVars, guacd, wireVars, msg, out, ws, stopVars>>

\* WriteMessage waits while the browser does not read.
WriteMessage ==
  /\ fwd = "write"
  /\ \/ ws = "reading" /\ out' = Append(out, msg) /\ fwd' = "check"
     \/ ws = "gone" /\ out' = out /\ fwd' = "over"
  /\ msg' = <<>>
  /\ UNCHANGED <<shakeVars, connVars, guacd, wireVars, ws, stopVars>>

Forward == CheckContext \/ Read \/ ReadFails \/ WriteMessage

-----------------------------------------------------------------------------
(* Stop, and the world around *)

StopCancel ==
  /\ fwd # "none" /\ stop = "no"
  /\ stop' = "cancelled" /\ outAtStop' = Len(out)
  /\ UNCHANGED <<shakeVars, connVars, guacd, wireVars, fwdVars, ws>>

\* Mutant of StopClose: the goroutine is left to notice the context.
StopOnlyCancels ==
  /\ stop = "cancelled" /\ stop' = "closed"
  /\ UNCHANGED <<shakeVars, connVars, guacd, wireVars, fwdVars, ws, outAtStop>>

StopClose ==
  /\ stop = "cancelled"
  /\ stop' = "closed" /\ conn' = "closed"
  /\ UNCHANGED <<shakeVars, hs, guacd, wireVars, fwdVars, ws, outAtStop>>

GuacdSends ==
  /\ hs \in {"ready", "done"} /\ guacd = "up" /\ sentN < Len(Frames)
  /\ sentN' = sentN + 1
  /\ UNCHANGED <<shakeVars, connVars, guacd, stream, bufN, readN, fwdVars, ws, stopVars>>

GuacdCloses ==
  /\ conn # "none" /\ guacd = "up" /\ guacd' = "down"
  /\ UNCHANGED <<shakeVars, connVars, wireVars, fwdVars, ws, stopVars>>

\* The browser stops reading, reads again, or goes; Stop does not close its
\* connection.
Browser ==
  /\ ws # "gone" /\ fwd # "none" /\ ws' \in {"reading", "stuck", "gone"} \ {ws}
  /\ UNCHANGED <<shakeVars, connVars, guacd, wireVars, fwdVars, stopVars>>

Handshake ==
  NewTunnel \/ WriteSelect \/ AssertArgs \/ AssertReady
  \/ HandshakeFails \/ EmptyConnectionID
Stop == StopCancel \/ StopClose
World == GuacdSends \/ GuacdCloses \/ Browser

Next == Handshake \/ Start \/ Forward \/ Stop \/ World

\* The goroutine runs, and Stop runs to its end once it was called.
Fairness == WF_vars(Forward) /\ WF_vars(StopClose)

Spec == Init /\ [][Next]_vars /\ Fairness

-----------------------------------------------------------------------------
(* Properties *)

\* However a handshake ends, nothing is left half done.  After a success, the
\* connection guacd named in "ready" was opened for the parameters it had asked
\* for, each at its place, in a "connect" that came last.  After a failure in
\* whichever step, the Config still names what it named before and the
\* connection is closed - but for an empty connection id, for which it stays open.
HandshakeOutcome ==
  /\ hs = "done" =>
       /\ Last(wrote) = <<Word("connect")>> \o
            [k \in DOMAIN asked |-> IF asked[k] \in DOMAIN Parameters
                                    THEN Parameters[asked[k]] ELSE Empty]
       /\ connectionID = Word("ready")
  /\ hs = "failed" =>
       /\ conn # "open"
       /\ wrote # <<>> => wrote[1] = <<Word("select"), SelectArg>>

\* Audio as Read expects it: L16 on stream 1, at a rate it swallows.
Kept(i) ==
  i[1] = "plain" \/ (i[2] = 1 /\ i[3] = "L16" /\ <<"rate", i[4], i[5]>> \in KnownRates)

Delivered(i) == IF i[1] = "plain" THEN <<i>> ELSE <<KnownHead, <<"rate", 44100, 2>>>>

\* The reader's cuts do not show up to the first audio instruction of another kind:
\* what the browser gets are whole instructions in the order guacd sent them, none
\* missing and none twice, whatever was read together with "ready".  The rate is
\* then always 44100.  Another kind - the audio/L8 that Settings asks for is one -
\* is handed on in two messages, or without its rate.
ForwardedWhole ==
  \A k \in DOMAIN out :
    (\A m \in DOMAIN stream : m <= k => Kept(stream[m])) =>
      k \in DOMAIN stream /\ out[k] = Delivered(stream[k])

\* Frames that were already buffered when Stop was called are not forwarded:
\* at most the one message in the goroutine's hands is still written.
OneMessageAfterStop == stop # "no" => Len(out) <= outAtStop + 1

\* After Stop the goroutine ends, unless it waits for a browser that does not
\* read: Stop leaves the WebSocket to its owner.
StopEndsForwarding == (stop = "closed") ~> (fwd = "over" \/ ws = "stuck")
=============================================================================
