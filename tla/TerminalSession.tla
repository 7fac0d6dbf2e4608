-------------------------- MODULE TerminalSession --------------------------
(***************************************************************************)
(* One terminal of the SSH plugin: sshTerminalSession and the read loop of *)
(* wsSSHSession that drives it.  Three goroutines share it:                *)
(*                                                                         *)
(*   output  reads stdout of the shell and puts chunks into dataChan;      *)
(*   sender  (send) moves chunks from dataChan to buf, flushes buf to the  *)
(*           WebSocket on a tick or when it is large, and sends pings;     *)
(*   reader  (wsSSHSession) reads the WebSocket under a read deadline,     *)
(*           answers "ping" messages with "pong", feeds stdin, and stops   *)
(*           the session and closes the SSH client when it ends.           *)
(*                                                                         *)
(* Chunks are numbered in the order they are read.  A data write has no    *)
(* deadline: it waits while the browser does not drain the connection and  *)
(* the socket buffer is full.                                              *)
(***************************************************************************)
EXTENDS Naturals, Sequences

CONSTANTS ChanCap,     \* capacity of dataChan: 32 in the code
          Threshold,   \* maxFlushBufferSize, in chunks
          SendBuf,     \* messages the socket buffers for a browser not reading
          MaxChunks    \* bound on what the shell writes

ASSUME BoundsAssumption ==
  ChanCap \in Nat \ {0} /\ Threshold \in Nat \ {0} /\ SendBuf \in Nat /\ MaxChunks \in Nat

VARIABLES
  pc,        \* pc[g]: where goroutine g is
  got,       \* chunks that output has read
  dataChan,  \* the channel from output to sender
  buf,       \* t.buf
  msg,       \* the message that sender is sending
  wire,      \* stdout chunks written to the WebSocket
  writeMu,   \* the goroutine that holds t.writeMu, or "none"
  once,      \* t.stopOnce: "idle", "cancelled" (ctx done, closing) or "done"
  stopper,   \* the goroutine that runs the body of Stop, or "none"
  writeErr,  \* the WebSocket refuses writes: an earlier one failed
  shell,     \* "running", or "eof": stdout has ended
  peer,      \* the browser: "alive", "closed", "frozen" or "gone"
  room       \* messages the socket buffer still takes

vars == <<pc, got, dataChan, buf, msg, wire, writeMu, once, stopper, writeErr,
          shell, peer, room>>
pipeVars == <<got, dataChan, buf, msg, wire>>
stopVars == <<once, stopper>>
envVars == <<shell, peer>>

Goroutines == {"output", "sender", "reader"}

Init ==
  /\ pc = [output |-> "read", sender |-> "select", reader |-> "read"]
  /\ got = 0
  /\ dataChan = <<>> /\ buf = <<>> /\ msg = <<>> /\ wire = <<>>
  /\ writeMu = "none"
  /\ once = "idle" /\ stopper = "none"
  /\ writeErr = FALSE
  /\ shell = "running"
  /\ peer = "alive"
  /\ room = SendBuf

Goto(g, from, to) == pc[g] = from /\ pc' = [pc EXCEPT ![g] = to]

CtxDone == once # "idle"
ConnClosed == once = "done"

-----------------------------------------------------------------------------
(* Stop: the first caller runs it, later callers wait for it to return. *)

\* Where a caller of Stop goes on: the reader closes the SSH client next.
AfterStop(g) == IF g = "reader" THEN "closeSession" ELSE "done"

\* t.cancel
StopCancel(g) ==
  /\ pc[g] = "stop"
  /\ once = "idle"
  /\ once' = "cancelled" /\ stopper' = g
  /\ UNCHANGED <<pc, pipeVars, writeMu, writeErr, envVars, room>>

\* The rest of the body, up to conn.Close.  That session.Close makes the
\* server end stdout is left to ShellExits.
StopClose(g) ==
  /\ stopper = g
  /\ Goto(g, "stop", AfterStop(g))
  /\ once' = "done" /\ stopper' = "none"
  /\ UNCHANGED <<pipeVars, writeMu, writeErr, envVars, room>>

StopAgain(g) ==
  /\ once = "done"
  /\ Goto(g, "stop", AfterStop(g))
  /\ UNCHANGED <<pipeVars, writeMu, stopVars, writeErr, envVars, room>>

Stop(g) == StopCancel(g) \/ StopClose(g) \/ StopAgain(g)

-----------------------------------------------------------------------------
(* Writing to the WebSocket, under writeMu *)

Lock(g, from, to) ==
  /\ writeMu = "none"
  /\ Goto(g, from, to)
  /\ writeMu' = g
  /\ UNCHANGED <<pipeVars, stopVars, writeErr, envVars, room>>

Usable == ~ConnClosed /\ ~writeErr /\ peer # "closed"

\* The socket takes the message: the browser drains it, or it has room.
CanWrite == Usable /\ (peer = "alive" \/ room > 0)

TakeRoom == room' = IF peer = "alive" THEN room ELSE room - 1

\* A blocked write fails once the connection is closed; with the browser gone
\* the kernel gives up on it after the last retransmission.
CanFail == ~Usable \/ peer = "gone"

-----------------------------------------------------------------------------
(* output *)

ReadStdout ==
  /\ Goto("output", "read", "offer")
  /\ shell = "running" /\ got < MaxChunks
  /\ got' = got + 1
  /\ UNCHANGED <<dataChan, buf, msg, wire, writeMu, stopVars, writeErr, envVars, room>>

ReadEOF ==
  /\ Goto("output", "read", "stop")
  /\ shell = "eof"
  /\ UNCHANGED <<pipeVars, writeMu, stopVars, writeErr, envVars, room>>

\* Mutant of Offer: a chunk that does not fit is dropped.
OfferDrops ==
  /\ Goto("output", "offer", "read")
  /\ dataChan' = IF Len(dataChan) < ChanCap THEN Append(dataChan, got) ELSE dataChan
  /\ UNCHANGED <<got, buf, msg, wire, writeMu, stopVars, writeErr, envVars, room>>

Offer ==
  /\ Goto("output", "offer", "read")
  /\ Len(dataChan) < ChanCap
  /\ dataChan' = Append(dataChan, got)
  /\ UNCHANGED <<got, buf, msg, wire, writeMu, stopVars, writeErr, envVars, room>>

\* Mutant of OutputDone: ctx is only looked at when the channel has room.
OutputDoneLate ==
  /\ CtxDone /\ Len(dataChan) < ChanCap
  /\ Goto("output", "offer", "done")
  /\ UNCHANGED <<pipeVars, writeMu, stopVars, writeErr, envVars, room>>

OutputDone ==
  /\ CtxDone
  /\ Goto("output", "offer", "done")
  /\ UNCHANGED <<pipeVars, writeMu, stopVars, writeErr, envVars, room>>

\* Its steps that do not wait for the shell to write.
OutputRuns == ReadEOF \/ Offer \/ OutputDone \/ Stop("output")

Output == ReadStdout \/ OutputRuns

-----------------------------------------------------------------------------
(* sender: the select of send() *)

SenderDone ==
  /\ CtxDone
  /\ Goto("sender", "select", "done")
  /\ buf' = <<>>
  /\ UNCHANGED <<got, dataChan, msg, wire, writeMu, stopVars, writeErr, envVars, room>>

\* pingTicker: the keepalive on the SSH connection succeeds, ping comes next.
Heartbeat ==
  /\ Goto("sender", "select", "pingLock")
  /\ UNCHANGED <<pipeVars, writeMu, stopVars, writeErr, envVars, room>>

HeartbeatFails ==
  /\ shell = "eof"
  /\ Goto("sender", "select", "stop")
  /\ UNCHANGED <<pipeVars, writeMu, stopVars, writeErr, envVars, room>>

PingLock == Lock("sender", "pingLock", "pingWrite")

\* sendControl; its outcome is ignored.  Within its deadline of 5 seconds it
\* is written or fails, and a failed write makes the WebSocket refuse others.
PingWrite ==
  /\ Goto("sender", "pingWrite", "select")
  /\ writeMu' = "none"
  /\ \/ CanWrite /\ TakeRoom /\ UNCHANGED writeErr
     \/ ~(CanWrite /\ peer = "alive") /\ writeErr' = TRUE /\ UNCHANGED room
  /\ UNCHANGED <<pipeVars, stopVars, envVars>>

\* Mutant of Flush: the buffer is not reset.
FlushKeeps(data) ==
  /\ Goto("sender", "select", "flushLock")
  /\ msg' = data
  /\ buf' = data
  /\ UNCHANGED <<got, wire, writeMu, stopVars, writeErr, envVars, room>>

\* flush: the buffer becomes the message and is reset.
Flush(data) ==
  /\ Goto("sender", "select", "flushLock")
  /\ msg' = data
  /\ buf' = <<>>
  /\ UNCHANGED <<got, wire, writeMu, stopVars, writeErr, envVars, room>>

\* Mutant of TickFlush: the tick waits for a large buffer too.
TickFlushLarge ==
  /\ Len(buf) >= Threshold
  /\ Flush(buf)
  /\ UNCHANGED dataChan

\* t.tick, until Stop stops it
TickFlush ==
  /\ buf # <<>>
  /\ Flush(buf)
  /\ UNCHANGED dataChan

\* Mutant of Receive: only the tick flushes.
ReceiveOnly ==
  /\ pc["sender"] = "select"
  /\ dataChan # <<>>
  /\ dataChan' = Tail(dataChan)
  /\ buf' = Append(buf, Head(dataChan))
  /\ UNCHANGED <<pc, got, msg, wire, writeMu, stopVars, writeErr, envVars, room>>

\* Some data from dataChan; a large buffer is flushed at once.
Receive ==
  /\ pc["sender"] = "select"
  /\ dataChan # <<>>
  /\ dataChan' = Tail(dataChan)
  /\ LET data == Append(buf, Head(dataChan))
     IN  IF Len(data) >= Threshold
         THEN Flush(data)
         ELSE /\ buf' = data
              /\ UNCHANGED <<pc, got, msg, wire, writeMu, stopVars, writeErr, envVars, room>>

FlushLock == Lock("sender", "flushLock", "flushWrite")

FlushWrite ==
  /\ Goto("sender", "flushWrite", "select")
  /\ CanWrite /\ TakeRoom
  /\ writeMu' = "none"
  /\ wire' = wire \o msg
  /\ msg' = <<>>
  /\ UNCHANGED <<got, dataChan, buf, stopVars, writeErr, envVars>>

FlushFails ==
  /\ Goto("sender", "flushWrite", "stop")
  /\ CanFail
  /\ writeMu' = "none" /\ writeErr' = TRUE
  /\ msg' = <<>>
  /\ UNCHANGED <<got, dataChan, buf, wire, stopVars, envVars, room>>

Sender == SenderDone \/ Heartbeat \/ HeartbeatFails \/ PingLock \/ PingWrite \/ TickFlush
          \/ Receive \/ FlushLock \/ FlushWrite \/ FlushFails \/ Stop("sender")

-----------------------------------------------------------------------------
(* reader: the loop of wsSSHSession *)

\* A "ping" message arrives and the keepalive on the SSH connection succeeds.
ReadPing ==
  /\ Goto("reader", "read", "pongLock")
  /\ peer = "alive" /\ ~ConnClosed
  /\ UNCHANGED <<pipeVars, writeMu, stopVars, writeErr, envVars, room>>

\* A "resize" or "stdin" message arrives.
ReadInput ==
  /\ Goto("reader", "read", "input")
  /\ peer = "alive" /\ ~ConnClosed
  /\ UNCHANGED <<pipeVars, writeMu, stopVars, writeErr, envVars, room>>

\* The shell takes the input: the write waits for as long as it does not read
\* and the window of the SSH channel is full.
InputTaken ==
  /\ Goto("reader", "input", "read")
  /\ UNCHANGED <<pipeVars, writeMu, stopVars, writeErr, envVars, room>>

\* The SSH channel has been closed, by Stop or with the connection.
InputFails ==
  /\ Goto("reader", "input", "stop")
  /\ CtxDone \/ shell = "eof"
  /\ UNCHANGED <<pipeVars, writeMu, stopVars, writeErr, envVars, room>>

\* A "ping" message arrives and the keepalive fails: the SSH connection is dead.
ReadPingFails ==
  /\ Goto("reader", "read", "stop")
  /\ peer = "alive" /\ ~ConnClosed /\ shell = "eof"
  /\ UNCHANGED <<pipeVars, writeMu, stopVars, writeErr, envVars, room>>

\* Mutant of ReadFails: no read deadline.
ReadFailsOnClose ==
  /\ Goto("reader", "read", "stop")
  /\ ConnClosed \/ peer = "closed"
  /\ UNCHANGED <<pipeVars, writeMu, stopVars, writeErr, envVars, room>>

\* ReadMessage fails: the connection is closed on either side, or nothing
\* came from the browser for wsPongWait.
ReadFails ==
  /\ Goto("reader", "read", "stop")
  /\ ConnClosed \/ peer # "alive"
  /\ UNCHANGED <<pipeVars, writeMu, stopVars, writeErr, envVars, room>>

\* Mutant of PongLock: the pong is written without the lock.
PongUnlocked ==
  /\ Goto("reader", "pongLock", "pongWrite")
  /\ UNCHANGED <<pipeVars, writeMu, stopVars, writeErr, envVars, room>>

PongLock == Lock("reader", "pongLock", "pongWrite")

PongWrite ==
  /\ Goto("reader", "pongWrite", "read")
  /\ CanWrite /\ TakeRoom
  /\ writeMu' = "none"
  /\ UNCHANGED <<pipeVars, stopVars, writeErr, envVars>>

PongFails ==
  /\ Goto("reader", "pongWrite", "stop")
  /\ CanFail
  /\ writeMu' = "none" /\ writeErr' = TRUE
  /\ UNCHANGED <<pipeVars, stopVars, envVars, room>>

\* The deferred closeSession closes the SSH client, which ends stdout.
CloseSession ==
  /\ Goto("reader", "closeSession", "done")
  /\ shell' = "eof"
  /\ UNCHANGED <<pipeVars, writeMu, stopVars, writeErr, peer, room>>

Reader == ReadPing \/ ReadInput \/ InputTaken \/ InputFails \/ ReadPingFails \/ ReadFails
          \/ PongLock \/ PongWrite \/ PongFails \/ CloseSession \/ Stop("reader")

-----------------------------------------------------------------------------
(* The shell and the browser *)

ShellExits ==
  /\ shell = "running" /\ shell' = "eof"
  /\ UNCHANGED <<pc, pipeVars, writeMu, stopVars, writeErr, peer, room>>

\* closed: it closes the connection.  frozen: it neither reads nor sends, its
\* TCP stack stays up.  gone: it vanishes without a word.
PeerLeaves(how) ==
  /\ peer = "alive" \/ (peer = "frozen" /\ how # "frozen")
  /\ peer' = how
  /\ UNCHANGED <<pc, pipeVars, writeMu, stopVars, writeErr, shell, room>>

Environment == ShellExits \/ \E how \in {"closed", "frozen", "gone"} : PeerLeaves(how)

Next == Output \/ Sender \/ Reader \/ Environment

SafeSpec == Init /\ [][Next]_vars

\* Goroutines are scheduled.  A select takes a ready case at random and a
\* sync.Mutex starves nobody, so a case or a lock that is available again and
\* again is taken.  An SSH connection that was closed fails the writes to it,
\* the server answers the close of a channel.  Nothing is expected of the
\* shell, which need not even take its input, nor of the browser.
Fairness ==
  /\ WF_vars(OutputRuns)
  /\ WF_vars(Sender)
  /\ SF_vars(SenderDone) /\ SF_vars(TickFlush) /\ SF_vars(Receive)
  /\ SF_vars(PingLock) /\ SF_vars(FlushLock) /\ SF_vars(PongLock)
  /\ WF_vars(InputFails) /\ WF_vars(ReadFails) /\ WF_vars(PongWrite \/ PongFails)
  /\ WF_vars(CloseSession) /\ WF_vars(Stop("reader"))

Spec == SafeSpec /\ Fairness

-----------------------------------------------------------------------------
(* Properties *)

PcStates == [output |-> {"read", "offer", "stop", "done"},
             sender |-> {"select", "pingLock", "pingWrite", "flushLock", "flushWrite",
                         "stop", "done"},
             reader |-> {"read", "input", "pongLock", "pongWrite", "stop",
                         "closeSession", "done"}]

\* Types and bounds: between two rounds of the sender the buffer is under the
\* flush threshold, whatever the browser does: a slow one blocks the shell, and
\* does not fill the memory.
TypeOK ==
  /\ DOMAIN pc = Goroutines /\ \A g \in Goroutines : pc[g] \in PcStates[g]
  /\ got \in 0..MaxChunks
  /\ dataChan \in Seq(Nat) /\ Len(dataChan) <= ChanCap
  /\ buf \in Seq(Nat) /\ Len(buf) < Threshold
  /\ msg \in Seq(Nat) /\ wire \in Seq(Nat)
  /\ writeMu \in Goroutines \union {"none"}
  /\ once \in {"idle", "cancelled", "done"}
  /\ stopper \in Goroutines \union {"none"}
  /\ writeErr \in BOOLEAN
  /\ shell \in {"running", "eof"}
  /\ peer \in {"alive", "closed", "frozen", "gone"}
  /\ room \in 0..SendBuf

Writing(g) == pc[g] \in {"pingWrite", "flushWrite", "pongWrite"}
AllDone == \A g \in Goroutines : pc[g] = "done"

\* A WebSocket supports one concurrent writer: the read loop's pong and the
\* sender's data and pings never overlap, and who waits for nothing holds no lock.
OneWriter ==
  \A g \in Goroutines : Writing(g) <=> writeMu = g

Read == [i \in 1..got |-> i]
Offered == IF pc["output"] = "offer" THEN <<got>> ELSE <<>>

\* Between the shell and the browser no chunk is lost, doubled or reordered
\* while both pumps run: what was sent, is being sent, is buffered, is in the
\* channel and is on offer adds up to what was read.
NothingLost ==
  pc["output"] \in {"read", "offer"} /\ pc["sender"] \notin {"stop", "done"}
    => wire \o msg \o buf \o dataChan \o Offered = Read

\* The browser sees a gapless beginning of the output, also when the session
\* is stopped in the middle of it.
Stream == INSTANCE OutputStream WITH read <- Read, sent <- wire
ImplementsStream == Stream!Spec

\* Output is not left lying in the buffer: a chunk that was read is sent,
\* unless the session ends or the browser stops reading.
OutputArrives ==
  \A n \in 1..MaxChunks :
    (got >= n) ~> (Len(wire) >= n \/ CtxDone \/ shell = "eof" \/ peer # "alive")

\* Whoever calls Stop, all three goroutines exit: no goroutine is left on a
\* channel, on the lock or in a write.
StopEndsAll == (once # "idle") ~> AllDone

\* When either end of the terminal is lost, no goroutine is left for ever: the
\* browser has closed the connection or vanished without a word, or stdout of
\* the shell has ended, as it does when another tunnel closes the client.  Two
\* writes without a deadline are the exceptions: one to a browser that neither
\* reads nor leaves, and one to a running shell that does not take its input.
LostEndReaped ==
  (peer \in {"closed", "gone"} \/ shell = "eof") ~>
    \/ AllDone
    \/ peer = "frozen"
    \/ pc["reader"] = "input" /\ shell = "running" /\ ~CtxDone

\* "A single timeout does not close the connection, the timeout of the read
\* loop is the common fallback" (comment of heartbeat): when nothing comes
\* from the browser any more, the session ends.
SilentBrowserReaped == (peer # "alive") ~> (AllDone \/ peer \in {"closed", "gone"})
=============================================================================
