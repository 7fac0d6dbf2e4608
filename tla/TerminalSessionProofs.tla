----------------------- MODULE TerminalSessionProofs -----------------------
(***************************************************************************)
(* Safety of TerminalSession for channels, thresholds and socket buffers   *)
(* of any size and any amount of output.  Chunks carry the number under    *)
(* which they were read, so that the pipe from the shell to the browser    *)
(* can be described by indices: each queue of it goes on counting where    *)
(* the one before it, nearer to the browser, has ended.                    *)
(***************************************************************************)
EXTENDS TerminalSession, SequenceTheorems, TLAPS

SenderRuns == pc["sender"] \notin {"stop", "done"}
InPipe == Len(wire) + Len(msg) + Len(buf) + Len(dataChan)

\* A message exists only while it is being sent, and where it is, chunks are
\* numbered.
PipeInv ==
  /\ pc["sender"] \notin {"flushLock", "flushWrite"} => msg = <<>>
  /\ Len(wire) <= got
  /\ \A i \in 1..Len(wire) : wire[i] = i
  /\ SenderRuns =>
       /\ \A i \in 1..Len(msg) : msg[i] = Len(wire) + i
       /\ \A i \in 1..Len(buf) : buf[i] = Len(wire) + Len(msg) + i
       /\ \A i \in 1..Len(dataChan) :
            dataChan[i] = Len(wire) + Len(msg) + Len(buf) + i
       /\ InPipe <= got
       /\ pc["output"] = "read" => InPipe = got
       /\ pc["output"] = "offer" => InPipe = got - 1

IInv == TypeOK /\ OneWriter /\ PipeInv

-----------------------------------------------------------------------------
(* Types and bounds *)

LEMMA InitTypeOK == Init => TypeOK
<1>. SUFFICES ASSUME Init PROVE TypeOK
  OBVIOUS
<1>1. DOMAIN pc = Goroutines /\ \A g \in Goroutines : pc[g] \in PcStates[g]
  BY DEF Init, Goroutines, PcStates
<1>2. <<>> \in Seq(Nat) /\ Len(<<>>) = 0
  BY EmptySeq
<1>. QED
  <2>1. got \in 0..MaxChunks /\ room \in 0..SendBuf
    BY BoundsAssumption DEF Init
  <2>2. Len(dataChan) <= ChanCap /\ Len(buf) < Threshold
    BY <1>2, BoundsAssumption DEF Init
  <2>. QED
    BY <1>1, <1>2, <2>1, <2>2 DEF Init, TypeOK

\* A goroutine that goes to one of its own places leaves the types of pc.
LEMMA GotoType ==
  ASSUME TypeOK, NEW g \in Goroutines, NEW from, NEW to \in PcStates[g], Goto(g, from, to)
  PROVE  DOMAIN pc' = Goroutines /\ \A h \in Goroutines : pc'[h] \in PcStates[h]
  BY DEF TypeOK, Goto

LEMMA StopType == ASSUME TypeOK, NEW g \in Goroutines, Stop(g) PROVE TypeOK'
<1>1. CASE StopCancel(g)
  BY <1>1 DEF StopCancel, TypeOK, pipeVars, envVars, Goroutines
<1>2. AfterStop(g) \in PcStates[g]
  BY DEF AfterStop, PcStates, Goroutines
<1>3. CASE StopClose(g)
  BY <1>2, <1>3, GotoType DEF StopClose, TypeOK, pipeVars, envVars
<1>4. CASE StopAgain(g)
  BY <1>2, <1>4, GotoType DEF StopAgain, TypeOK, pipeVars, envVars, stopVars
<1>. QED
  BY <1>1, <1>3, <1>4 DEF Stop

LEMMA LockType ==
  ASSUME TypeOK, NEW g \in Goroutines, NEW from, NEW to \in PcStates[g], Lock(g, from, to)
  PROVE  TypeOK'
  BY GotoType DEF Lock, TypeOK, pipeVars, envVars, stopVars

LEMMA OutputType == ASSUME TypeOK, Output PROVE TypeOK'
<1>. "output" \in Goroutines /\ {"read", "offer", "stop", "done"} = PcStates["output"]
  BY DEF Goroutines, PcStates
<1>1. CASE ReadStdout
  <2>1. got' \in 0..MaxChunks
    BY <1>1, BoundsAssumption DEF ReadStdout, TypeOK
  <2>. QED
    BY <1>1, <2>1, GotoType DEF ReadStdout, TypeOK, stopVars, envVars
<1>2. CASE ReadEOF
  BY <1>2, GotoType DEF ReadEOF, TypeOK, pipeVars, stopVars, envVars
<1>3. CASE Offer
  <2>1. dataChan' \in Seq(Nat) /\ Len(dataChan') <= ChanCap
    BY <1>3, BoundsAssumption DEF Offer, TypeOK
  <2>. QED
    BY <1>3, <2>1, GotoType DEF Offer, TypeOK, stopVars, envVars
<1>4. CASE OutputDone
  BY <1>4, GotoType DEF OutputDone, TypeOK, pipeVars, stopVars, envVars
<1>. QED
  BY <1>1, <1>2, <1>3, <1>4, StopType DEF Output, OutputRuns

LEMMA FlushType ==
  ASSUME TypeOK, NEW data \in Seq(Nat), Flush(data), dataChan' \in Seq(Nat),
         Len(dataChan') <= ChanCap
  PROVE  TypeOK'
<1>. "sender" \in Goroutines /\ "flushLock" \in PcStates["sender"]
  BY DEF Goroutines, PcStates
<1>. QED
  BY GotoType, BoundsAssumption DEF Flush, TypeOK, stopVars, envVars

LEMMA ReceiveType == ASSUME TypeOK, Receive PROVE TypeOK'
<1>. DEFINE data == Append(buf, Head(dataChan))
<1>1. data \in Seq(Nat) /\ dataChan' \in Seq(Nat) /\ Len(dataChan') <= ChanCap
  BY BoundsAssumption DEF Receive, TypeOK
<1>2. CASE Len(data) >= Threshold
  BY <1>1, <1>2, FlushType DEF Receive
<1>3. CASE ~(Len(data) >= Threshold)
  <2>1. buf' \in Seq(Nat) /\ Len(buf') < Threshold
    <3>1. buf' = data
      BY <1>3 DEF Receive
    <3>. QED
      BY <1>1, <1>3, <3>1, BoundsAssumption, LenProperties
  <2>. QED
    BY <1>1, <1>3, <2>1 DEF Receive, TypeOK, stopVars, envVars
<1>. QED
  BY <1>2, <1>3

LEMMA RoomType ==
  ASSUME TypeOK, CanWrite, TakeRoom
  PROVE  room' \in 0..SendBuf
  BY BoundsAssumption DEF TypeOK, CanWrite, TakeRoom

LEMMA SenderType == ASSUME TypeOK, Sender PROVE TypeOK'
<1>. /\ "sender" \in Goroutines
     /\ PcStates["sender"] = {"select", "pingLock", "pingWrite", "flushLock",
                              "flushWrite", "stop", "done"}
  BY DEF Goroutines, PcStates
<1>1. CASE SenderDone
  BY <1>1, GotoType, BoundsAssumption DEF SenderDone, TypeOK, stopVars, envVars
<1>2. CASE Heartbeat
  BY <1>2, GotoType DEF Heartbeat, TypeOK, pipeVars, stopVars, envVars
<1>3. CASE HeartbeatFails
  BY <1>3, GotoType DEF HeartbeatFails, TypeOK, pipeVars, stopVars, envVars
<1>4. CASE PingLock
  BY <1>4, LockType DEF PingLock
<1>5. CASE PingWrite
  <2>1. room' \in 0..SendBuf /\ writeErr' \in BOOLEAN
    BY <1>5, RoomType DEF PingWrite, TypeOK
  <2>. QED
    BY <1>5, <2>1, GotoType DEF PingWrite, TypeOK, pipeVars, stopVars, envVars
<1>6. CASE TickFlush
  <2>1. buf \in Seq(Nat) /\ dataChan' \in Seq(Nat) /\ Len(dataChan') <= ChanCap
    BY <1>6 DEF TickFlush, TypeOK
  <2>. QED
    BY <1>6, <2>1, FlushType DEF TickFlush
<1>7. CASE Receive
  BY <1>7, ReceiveType
<1>8. CASE FlushLock
  BY <1>8, LockType DEF FlushLock
<1>9. CASE FlushWrite
  <2>1. room' \in 0..SendBuf /\ wire' \in Seq(Nat) /\ msg' \in Seq(Nat)
    BY <1>9, RoomType, ConcatProperties, EmptySeq DEF FlushWrite, TypeOK
  <2>. QED
    BY <1>9, <2>1, GotoType DEF FlushWrite, TypeOK, stopVars, envVars
<1>10. CASE FlushFails
  <2>1. msg' \in Seq(Nat)
    BY <1>10, EmptySeq DEF FlushFails
  <2>. QED
    BY <1>10, <2>1, GotoType DEF FlushFails, TypeOK, stopVars, envVars
<1>. QED
  BY <1>1, <1>2, <1>3, <1>4, <1>5, <1>6, <1>7, <1>8, <1>9, <1>10, StopType DEF Sender

LEMMA ReaderType == ASSUME TypeOK, Reader PROVE TypeOK'
<1>. /\ "reader" \in Goroutines
     /\ PcStates["reader"] = {"read", "input", "pongLock", "pongWrite", "stop",
                              "closeSession", "done"}
  BY DEF Goroutines, PcStates
<1>1. CASE ReadPing
  BY <1>1, GotoType DEF ReadPing, TypeOK, pipeVars, stopVars, envVars
<1>2. CASE ReadInput
  BY <1>2, GotoType DEF ReadInput, TypeOK, pipeVars, stopVars, envVars
<1>3. CASE InputTaken \/ InputFails
  BY <1>3, GotoType DEF InputTaken, InputFails, TypeOK, pipeVars, stopVars, envVars
<1>4. CASE ReadPingFails
  BY <1>4, GotoType DEF ReadPingFails, TypeOK, pipeVars, stopVars, envVars
<1>5. CASE ReadFails
  BY <1>5, GotoType DEF ReadFails, TypeOK, pipeVars, stopVars, envVars
<1>6. CASE PongLock
  BY <1>6, LockType DEF PongLock
<1>7. CASE PongWrite
  <2>1. room' \in 0..SendBuf
    BY <1>7, RoomType DEF PongWrite
  <2>. QED
    BY <1>7, <2>1, GotoType DEF PongWrite, TypeOK, pipeVars, stopVars, envVars
<1>8. CASE PongFails
  BY <1>8, GotoType DEF PongFails, TypeOK, pipeVars, stopVars, envVars
<1>9. CASE CloseSession
  BY <1>9, GotoType DEF CloseSession, TypeOK, pipeVars, stopVars
<1>. QED
  BY <1>1, <1>2, <1>3, <1>4, <1>5, <1>6, <1>7, <1>8, <1>9, StopType DEF Reader

LEMMA EnvironmentType == ASSUME TypeOK, Environment PROVE TypeOK'
  BY DEF TypeOK, Environment, ShellExits, PeerLeaves, pipeVars, stopVars

LEMMA NextType == ASSUME TypeOK, [Next]_vars PROVE TypeOK'
<1>1. CASE UNCHANGED vars
  BY <1>1 DEF vars, TypeOK
<1>. QED
  BY <1>1, OutputType, SenderType, ReaderType, EnvironmentType DEF Next

-----------------------------------------------------------------------------
(* The lock around writes *)

WriteStates == {"pingWrite", "flushWrite", "pongWrite"}

LEMMA InitWriter == Init => OneWriter
  BY DEF Init, OneWriter, Writing, Goroutines

LEMMA MoveWriter ==
  ASSUME TypeOK, OneWriter, NEW g \in Goroutines, NEW from, NEW to, Goto(g, from, to),
         from \notin WriteStates, to \notin WriteStates, writeMu' = writeMu
  PROVE  OneWriter'
  BY DEF TypeOK, OneWriter, Writing, Goto, WriteStates

LEMMA LockWriter ==
  ASSUME TypeOK, OneWriter, NEW g \in Goroutines, NEW from, NEW to, Lock(g, from, to),
         to \in WriteStates
  PROVE  OneWriter'
  BY DEF TypeOK, OneWriter, Writing, Goto, Lock, WriteStates, Goroutines

LEMMA UnlockWriter ==
  ASSUME TypeOK, OneWriter, NEW g \in Goroutines, NEW from, NEW to, Goto(g, from, to),
         from \in WriteStates, to \notin WriteStates, writeMu' = "none"
  PROVE  OneWriter'
  BY DEF TypeOK, OneWriter, Writing, Goto, WriteStates, Goroutines

LEMMA StillWriter == ASSUME OneWriter, UNCHANGED <<pc, writeMu>> PROVE OneWriter'
  BY DEF OneWriter, Writing

LEMMA StopWriter == ASSUME TypeOK, OneWriter, NEW g \in Goroutines, Stop(g) PROVE OneWriter'
<1>. "stop" \notin WriteStates /\ AfterStop(g) \notin WriteStates
  BY DEF WriteStates, AfterStop
<1>. QED
  BY MoveWriter, StillWriter DEF Stop, StopCancel, StopClose, StopAgain

LEMMA OutputWriter == ASSUME TypeOK, OneWriter, Output PROVE OneWriter'
<1>. "output" \in Goroutines /\ {"read", "offer", "stop", "done"} \cap WriteStates = {}
  BY DEF Goroutines, WriteStates
<1>1. CASE ReadStdout \/ ReadEOF \/ Offer \/ OutputDone
  BY <1>1, MoveWriter DEF ReadStdout, ReadEOF, Offer, OutputDone
<1>. QED
  BY <1>1, StopWriter DEF Output, OutputRuns

LEMMA SenderWriter == ASSUME TypeOK, OneWriter, Sender PROVE OneWriter'
<1>. /\ "sender" \in Goroutines /\ {"pingWrite", "flushWrite"} \subseteq WriteStates
     /\ {"select", "pingLock", "flushLock", "stop", "done"} \cap WriteStates = {}
  BY DEF Goroutines, WriteStates
<1>1. CASE SenderDone \/ Heartbeat \/ HeartbeatFails \/ TickFlush
  BY <1>1, MoveWriter DEF SenderDone, Heartbeat, HeartbeatFails, TickFlush, Flush
<1>2. CASE Receive
  BY <1>2, MoveWriter, StillWriter DEF Receive, Flush
<1>3. CASE PingLock \/ FlushLock
  BY <1>3, LockWriter DEF PingLock, FlushLock
<1>4. CASE PingWrite \/ FlushWrite \/ FlushFails
  BY <1>4, UnlockWriter DEF PingWrite, FlushWrite, FlushFails
<1>. QED
  BY <1>1, <1>2, <1>3, <1>4, StopWriter DEF Sender

LEMMA ReaderWriter == ASSUME TypeOK, OneWriter, Reader PROVE OneWriter'
<1>. /\ "reader" \in Goroutines /\ "pongWrite" \in WriteStates
     /\ {"read", "input", "pongLock", "stop", "closeSession", "done"} \cap WriteStates = {}
  BY DEF Goroutines, WriteStates
<1>1. CASE ReadPing \/ ReadInput \/ InputTaken \/ InputFails
            \/ ReadPingFails \/ ReadFails \/ CloseSession
  BY <1>1, MoveWriter DEF ReadPing, ReadInput, InputTaken, InputFails, ReadPingFails,
                          ReadFails, CloseSession
<1>2. CASE PongLock
  BY <1>2, LockWriter DEF PongLock
<1>3. CASE PongWrite \/ PongFails
  BY <1>3, UnlockWriter DEF PongWrite, PongFails
<1>. QED
  BY <1>1, <1>2, <1>3, StopWriter DEF Reader

LEMMA NextWriter == ASSUME TypeOK, OneWriter, [Next]_vars PROVE OneWriter'
<1>1. CASE UNCHANGED vars \/ Environment
  BY <1>1, StillWriter DEF vars, Environment, ShellExits, PeerLeaves
<1>. QED
  BY <1>1, OutputWriter, SenderWriter, ReaderWriter DEF Next

-----------------------------------------------------------------------------
(* The pipe from the shell to the browser *)

Flushing == {"flushLock", "flushWrite"}
Ended == {"stop", "done"}

LEMMA LengthsAreNat ==
  ASSUME TypeOK
  PROVE  /\ Len(wire) \in Nat /\ Len(msg) \in Nat /\ Len(buf) \in Nat
         /\ Len(dataChan) \in Nat /\ got \in Nat
  BY BoundsAssumption, LenProperties DEF TypeOK

LEMMA InitPipe == Init => PipeInv
<1>. SUFFICES ASSUME Init PROVE PipeInv
  OBVIOUS
<1>. Len(<<>>) = 0
  BY EmptySeq
<1>. QED
  BY DEF Init, PipeInv, SenderRuns, InPipe

\* The pipe is left alone, and neither of its ends goes on from where it ended.
LEMMA StillPipe ==
  ASSUME TypeOK, PipeInv, UNCHANGED pipeVars,
         pc'["sender"] \in Flushing <=> pc["sender"] \in Flushing,
         pc["sender"] \in Ended => pc'["sender"] \in Ended,
         pc'["output"] = pc["output"] \/ pc'["output"] \in Ended
  PROVE  PipeInv'
<1>1. UNCHANGED <<got, dataChan, buf, msg, wire, InPipe>>
  BY DEF pipeVars, InPipe
<1>2. SenderRuns' => SenderRuns
  BY DEF SenderRuns, Ended
<1>3. /\ pc'["output"] = "read" => pc["output"] = "read"
      /\ pc'["output"] = "offer" => pc["output"] = "offer"
  BY DEF Ended
<1>4. pc'["sender"] \notin Flushing => msg' = <<>>
  BY <1>1 DEF PipeInv, Flushing
<1>. QED
  BY <1>1, <1>2, <1>3, <1>4 DEF PipeInv, Flushing

LEMMA ReaderPipe ==
  ASSUME TypeOK, PipeInv, UNCHANGED pipeVars, NEW from, NEW to, Goto("reader", from, to)
  PROVE  PipeInv'
  BY StillPipe DEF Goto, TypeOK, Goroutines

LEMMA SenderPipe ==
  ASSUME TypeOK, PipeInv, UNCHANGED pipeVars, NEW from, NEW to, Goto("sender", from, to),
         to \in Flushing <=> from \in Flushing, from \in Ended => to \in Ended
  PROVE  PipeInv'
  BY StillPipe DEF Goto, TypeOK, Goroutines

LEMMA OutputPipe ==
  ASSUME TypeOK, PipeInv, UNCHANGED pipeVars, NEW from, NEW to, Goto("output", from, to),
         to \in Ended
  PROVE  PipeInv'
  BY StillPipe DEF Goto, TypeOK, Goroutines

LEMMA StopPipe == ASSUME TypeOK, PipeInv, NEW g \in Goroutines, Stop(g) PROVE PipeInv'
<1>1. CASE StopCancel(g)
  BY <1>1, StillPipe DEF StopCancel
<1>2. UNCHANGED pipeVars /\ Goto(g, "stop", AfterStop(g)) => PipeInv'
  <2>. SUFFICES ASSUME UNCHANGED pipeVars, Goto(g, "stop", AfterStop(g)) PROVE PipeInv'
    OBVIOUS
  <2>1. CASE g = "reader"
    BY <2>1, ReaderPipe
  <2>2. CASE g = "sender"
    BY <2>2, SenderPipe DEF AfterStop, Ended, Flushing
  <2>3. CASE g = "output"
    BY <2>3, OutputPipe DEF AfterStop, Ended
  <2>. QED
    BY <2>1, <2>2, <2>3 DEF Goroutines
<1>. QED
  BY <1>1, <1>2 DEF Stop, StopClose, StopAgain

LEMMA ReadPipe == ASSUME TypeOK, PipeInv, ReadStdout PROVE PipeInv'
  BY LengthsAreNat DEF ReadStdout, Goto, PipeInv, SenderRuns, InPipe, TypeOK, Goroutines

LEMMA OfferPipe == ASSUME TypeOK, PipeInv, Offer PROVE PipeInv'
<1>1. /\ pc["output"] = "offer" /\ pc'["output"] = "read" /\ pc'["sender"] = pc["sender"]
      /\ UNCHANGED <<got, buf, msg, wire>>
  BY DEF Offer, Goto, TypeOK, Goroutines
<1>2. /\ Len(dataChan') = Len(dataChan) + 1 /\ dataChan'[Len(dataChan) + 1] = got
      /\ \A i \in 1..Len(dataChan) : dataChan'[i] = dataChan[i]
  BY LengthsAreNat DEF Offer, TypeOK
<1>3. InPipe' = InPipe + 1 /\ SenderRuns' = SenderRuns
  BY <1>1, <1>2, LengthsAreNat DEF InPipe, SenderRuns
<1>4. SenderRuns => InPipe = got - 1 /\ got = Len(wire) + Len(msg) + Len(buf) + Len(dataChan) + 1
  <2>1. SenderRuns => InPipe = got - 1
    BY <1>1 DEF PipeInv
  <2>. QED
    BY <2>1, LengthsAreNat DEF InPipe
<1>5. SenderRuns => \A i \in 1..Len(dataChan') :
        dataChan'[i] = Len(wire) + Len(msg) + Len(buf) + i
  <2>. SUFFICES ASSUME SenderRuns, NEW i \in 1..Len(dataChan')
                PROVE  dataChan'[i] = Len(wire) + Len(msg) + Len(buf) + i
    OBVIOUS
  <2>1. CASE i \in 1..Len(dataChan)
    BY <1>2, <2>1 DEF PipeInv
  <2>2. CASE i = Len(dataChan) + 1
    BY <1>2, <1>4, <2>2, LengthsAreNat
  <2>. QED
    BY <1>2, <2>1, <2>2, LengthsAreNat
<1>6. SenderRuns => InPipe' = got'
  BY <1>1, <1>3, <1>4, LengthsAreNat
<1>7. pc'["sender"] \notin Flushing => msg' = <<>>
  BY <1>1 DEF PipeInv, Flushing
<1>. QED
  BY <1>1, <1>3, <1>5, <1>6, <1>7, LengthsAreNat DEF PipeInv, Flushing

LEMMA DonePipe == ASSUME TypeOK, PipeInv, SenderDone PROVE PipeInv'
  BY DEF SenderDone, Goto, PipeInv, SenderRuns, TypeOK, Goroutines

\* The buffer, or the buffer and a chunk of the channel, become the message.
LEMMA FlushPipe ==
  ASSUME TypeOK, PipeInv, NEW data \in Seq(Nat), Flush(data),
         Len(data) + Len(dataChan') = Len(buf) + Len(dataChan), Len(dataChan') \in Nat,
         \A i \in 1..Len(data) : data[i] = Len(wire) + i,
         \A i \in 1..Len(dataChan') : dataChan'[i] = Len(wire) + Len(data) + i
  PROVE  PipeInv'
<1>1. /\ pc["sender"] = "select" /\ pc'["sender"] = "flushLock" /\ msg = <<>>
      /\ pc'["output"] = pc["output"] /\ UNCHANGED <<got, wire>>
  BY DEF Flush, Goto, TypeOK, PipeInv, Goroutines
<1>2. msg' = data /\ buf' = <<>> /\ Len(buf') = 0 /\ Len(msg) = 0 /\ Len(data) \in Nat
  BY <1>1, EmptySeq, LenProperties DEF Flush
<1>3. SenderRuns /\ SenderRuns' /\ InPipe' = InPipe
  <2>1. SenderRuns /\ SenderRuns'
    BY <1>1 DEF SenderRuns
  <2>2. InPipe = Len(wire) + Len(buf) + Len(dataChan)
    BY <1>2, LengthsAreNat DEF InPipe
  <2>3. InPipe' = Len(wire) + Len(data) + Len(dataChan')
    BY <1>1, <1>2, LengthsAreNat DEF InPipe
  <2>. QED
    BY <2>1, <2>2, <2>3, LengthsAreNat, <1>2
<1>4. /\ \A i \in 1..Len(msg') : msg'[i] = Len(wire') + i
      /\ \A i \in 1..Len(buf') : buf'[i] = Len(wire') + Len(msg') + i
      /\ \A i \in 1..Len(dataChan') :
           dataChan'[i] = Len(wire') + Len(msg') + Len(buf') + i
  BY <1>1, <1>2, LengthsAreNat
<1>5. /\ InPipe' <= got' /\ (pc'["output"] = "read" => InPipe' = got')
      /\ (pc'["output"] = "offer" => InPipe' = got' - 1)
  BY <1>1, <1>3 DEF PipeInv
<1>. QED
  BY <1>1, <1>3, <1>4, <1>5 DEF PipeInv

LEMMA TickPipe == ASSUME TypeOK, PipeInv, TickFlush PROVE PipeInv'
<1>1. pc["sender"] = "select" /\ msg = <<>> /\ Len(msg) = 0 /\ buf \in Seq(Nat)
  BY EmptySeq DEF TickFlush, Flush, Goto, PipeInv, TypeOK
<1>. QED
  BY <1>1, FlushPipe, LengthsAreNat DEF TickFlush, PipeInv, SenderRuns, InPipe

LEMMA ReceivePipe == ASSUME TypeOK, PipeInv, Receive PROVE PipeInv'
<1>. DEFINE data == Append(buf, Head(dataChan))
<1>1. pc["sender"] = "select" /\ msg = <<>> /\ Len(msg) = 0 /\ SenderRuns
  BY EmptySeq DEF Receive, PipeInv, SenderRuns
<1>2. /\ Len(dataChan) # 0 /\ dataChan' \in Seq(Nat)
      /\ Len(dataChan') = Len(dataChan) - 1
      /\ \A i \in 1..Len(dataChan') : dataChan'[i] = dataChan[i + 1]
      /\ Head(dataChan) = dataChan[1] /\ Head(dataChan) \in Nat
  BY HeadTailProperties, LengthsAreNat DEF Receive, TypeOK
<1>3. /\ data \in Seq(Nat) /\ Len(data) = Len(buf) + 1
      /\ \A i \in 1..Len(buf) : data[i] = buf[i]
      /\ data[Len(buf) + 1] = dataChan[1]
  BY <1>2, LengthsAreNat DEF TypeOK
<1>4. \A i \in 1..Len(data) : data[i] = Len(wire) + i
  <2>. SUFFICES ASSUME NEW i \in 1..Len(data) PROVE data[i] = Len(wire) + i
    OBVIOUS
  <2>1. CASE i \in 1..Len(buf)
    BY <1>1, <1>3, <2>1, LengthsAreNat DEF PipeInv
  <2>2. CASE i = Len(buf) + 1
    <3>1. dataChan[1] = Len(wire) + Len(msg) + Len(buf) + 1
      BY <1>1, <1>2, LengthsAreNat DEF PipeInv
    <3>. QED
      BY <1>1, <1>3, <2>2, <3>1, LengthsAreNat
  <2>. QED
    BY <1>3, <2>1, <2>2, LengthsAreNat
<1>5. \A i \in 1..Len(dataChan') : dataChan'[i] = Len(wire) + Len(data) + i
  <2>. SUFFICES ASSUME NEW i \in 1..Len(dataChan')
                PROVE  dataChan'[i] = Len(wire) + Len(data) + i
    OBVIOUS
  <2>1. i + 1 \in 1..Len(dataChan)
    BY <1>2, LengthsAreNat
  <2>2. dataChan[i + 1] = Len(wire) + Len(msg) + Len(buf) + (i + 1)
    BY <1>1, <2>1 DEF PipeInv
  <2>3. Len(wire) + Len(data) + i = Len(wire) + Len(msg) + Len(buf) + (i + 1)
    BY <1>1, <1>3, LengthsAreNat
  <2>. QED
    BY <1>2, <2>2, <2>3
<1>6. Len(data) + Len(dataChan') = Len(buf) + Len(dataChan) /\ Len(dataChan') \in Nat
  BY <1>2, <1>3, LengthsAreNat
<1>7. CASE Len(data) >= Threshold
  <2>1. Flush(data)
    BY <1>7 DEF Receive
  <2>. QED
    BY <1>3, <1>4, <1>5, <1>6, <2>1, FlushPipe
<1>8. CASE ~(Len(data) >= Threshold)
  <2>1. buf' = data /\ UNCHANGED <<pc, got, msg, wire>>
    BY <1>8 DEF Receive
  <2>. QED
    <3>1. SenderRuns' = SenderRuns /\ InPipe' = InPipe
      BY <1>1, <1>6, <2>1, LengthsAreNat DEF SenderRuns, InPipe
    <3>2. /\ Len(wire) + Len(msg) = Len(wire)
          /\ Len(wire) + Len(msg) + Len(data) = Len(wire) + Len(data)
      BY <1>1, LengthsAreNat
    <3>. QED
      BY <1>1, <1>4, <1>5, <2>1, <3>1, <3>2 DEF PipeInv
<1>. QED
  BY <1>7, <1>8

LEMMA WritePipe == ASSUME TypeOK, PipeInv, FlushWrite PROVE PipeInv'
<1>1. /\ pc["sender"] = "flushWrite" /\ pc'["sender"] = "select" /\ SenderRuns
      /\ pc'["output"] = pc["output"] /\ UNCHANGED <<got, dataChan, buf>>
      /\ msg' = <<>> /\ Len(msg') = 0
  BY EmptySeq DEF FlushWrite, Goto, TypeOK, Goroutines, SenderRuns
<1>2. /\ Len(wire') = Len(wire) + Len(msg)
      /\ \A i \in 1..Len(wire) + Len(msg) :
           wire'[i] = IF i <= Len(wire) THEN wire[i] ELSE msg[i - Len(wire)]
  BY ConcatProperties DEF FlushWrite, TypeOK
<1>3. \A i \in 1..Len(wire') : wire'[i] = i
  <2>. SUFFICES ASSUME NEW i \in 1..Len(wire') PROVE wire'[i] = i
    OBVIOUS
  <2>1. CASE i <= Len(wire)
    BY <1>2, <2>1, LengthsAreNat DEF PipeInv
  <2>2. CASE ~(i <= Len(wire))
    <3>1. i - Len(wire) \in 1..Len(msg) /\ wire'[i] = msg[i - Len(wire)]
      BY <1>2, <2>2, LengthsAreNat
    <3>2. msg[i - Len(wire)] = Len(wire) + (i - Len(wire))
      BY <1>1, <3>1 DEF PipeInv
    <3>. QED
      BY <3>1, <3>2, LengthsAreNat
  <2>. QED
    BY <2>1, <2>2
<1>. QED
  BY <1>1, <1>2, <1>3, LengthsAreNat DEF PipeInv, SenderRuns, InPipe

LEMMA FailPipe == ASSUME TypeOK, PipeInv, FlushFails PROVE PipeInv'
  BY DEF FlushFails, Goto, PipeInv, SenderRuns, TypeOK, Goroutines

LEMMA NextPipe == ASSUME TypeOK, PipeInv, [Next]_vars PROVE PipeInv'
<1>. Goroutines = {"output", "sender", "reader"}
  BY DEF Goroutines
<1>1. CASE UNCHANGED vars \/ Environment
  BY <1>1, StillPipe DEF vars, pipeVars, Environment, ShellExits, PeerLeaves
<1>2. CASE Output
  <2>1. CASE ReadEOF \/ OutputDone
    BY <2>1, OutputPipe DEF ReadEOF, OutputDone, Ended
  <2>. QED
    BY <1>2, <2>1, ReadPipe, OfferPipe, StopPipe DEF Output, OutputRuns
<1>3. CASE Sender
  <2>1. CASE Heartbeat \/ HeartbeatFails \/ PingLock \/ PingWrite \/ FlushLock
    BY <2>1, SenderPipe
       DEF Heartbeat, HeartbeatFails, PingLock, PingWrite, FlushLock, Lock, Ended, Flushing
  <2>. QED
    BY <1>3, <2>1, DonePipe, TickPipe, ReceivePipe, WritePipe, FailPipe, StopPipe DEF Sender
<1>4. CASE Reader
  <2>1. CASE PongLock \/ PongWrite \/ PongFails \/ CloseSession
    BY <2>1, ReaderPipe DEF PongLock, PongWrite, PongFails, CloseSession, Lock
  <2>2. CASE ReadPing \/ ReadInput \/ InputTaken \/ InputFails \/ ReadPingFails \/ ReadFails
    BY <2>2, ReaderPipe
       DEF ReadPing, ReadInput, InputTaken, InputFails, ReadPingFails, ReadFails
  <2>. QED
    BY <1>4, <2>1, <2>2, StopPipe DEF Reader
<1>. QED
  BY <1>1, <1>2, <1>3, <1>4 DEF Next

-----------------------------------------------------------------------------
(* The invariant, and the properties that follow from it *)

\* IInv is an invariant: its parts hold at the start and are kept by each step.
THEOREM Invariance == SafeSpec => []IInv
<1>1. Init => IInv
  BY InitTypeOK, InitWriter, InitPipe DEF IInv
<1>2. IInv /\ [Next]_vars => IInv'
  BY NextType, NextWriter, NextPipe DEF IInv
<1>. QED
  BY <1>1, <1>2, PTL DEF SafeSpec

\* The types of all variables; the channel holds at most ChanCap chunks and,
\* between two rounds of send, the buffer less than Threshold.
THEOREM TypeCorrectness == Spec => []TypeOK
<1>1. IInv => TypeOK
  BY DEF IInv
<1>. QED
  BY Invariance, <1>1, PTL DEF Spec

\* sendMessage and sendControl: a goroutine writes to the WebSocket exactly
\* while it holds writeMu, so no two of them write at a time.
THEOREM OneWriterAtATime == Spec => []OneWriter
<1>1. IInv => OneWriter
  BY DEF IInv
<1>. QED
  BY Invariance, <1>1, PTL DEF Spec

LEMMA ReadIsSeq ==
  ASSUME TypeOK
  PROVE  Read \in Seq(Nat) /\ Len(Read) = got /\ \A i \in 1..got : Read[i] = i
<1>1. got \in Nat
  BY LengthsAreNat
<1>. QED
  BY <1>1 DEF Read

\* A sequence that counts from 1, and one that goes on counting.
LEMMA CountOn ==
  ASSUME NEW s \in Seq(Nat), NEW t \in Seq(Nat),
         \A i \in 1..Len(s) : s[i] = i, \A i \in 1..Len(t) : t[i] = Len(s) + i
  PROVE  /\ s \o t \in Seq(Nat) /\ Len(s \o t) = Len(s) + Len(t)
         /\ \A i \in 1..Len(s \o t) : (s \o t)[i] = i
<1>1. /\ s \o t \in Seq(Nat) /\ Len(s \o t) = Len(s) + Len(t)
      /\ \A i \in 1 .. Len(s) + Len(t) : (s \o t)[i] =
           IF i <= Len(s) THEN s[i] ELSE t[i - Len(s)]
  BY ConcatProperties
<1>2. Len(s) \in Nat /\ Len(t) \in Nat
  BY LenProperties
<1>3. ASSUME NEW i \in 1..Len(s) + Len(t) PROVE (s \o t)[i] = i
  <2>1. CASE i <= Len(s)
    BY <1>1, <1>2, <2>1
  <2>2. CASE ~(i <= Len(s))
    <3>1. i - Len(s) \in 1..Len(t) /\ Len(s) + (i - Len(s)) = i
      BY <1>2, <2>2
    <3>. QED
      BY <1>1, <2>2, <3>1
  <2>. QED
    BY <2>1, <2>2
<1>. QED
  BY <1>1, <1>3

\* The queues of the pipe, put together, are what was read.
LEMMA PipeAddsUp == IInv => NothingLost
<1>. SUFFICES ASSUME IInv, pc["output"] \in {"read", "offer"}, SenderRuns
              PROVE  wire \o msg \o buf \o dataChan \o Offered = Read
  BY DEF NothingLost, SenderRuns
<1>1. TypeOK /\ wire \in Seq(Nat) /\ msg \in Seq(Nat) /\ buf \in Seq(Nat)
      /\ dataChan \in Seq(Nat)
  BY DEF IInv, TypeOK
<1>2. /\ \A i \in 1..Len(wire) : wire[i] = i
      /\ \A i \in 1..Len(msg) : msg[i] = Len(wire) + i
      /\ \A i \in 1..Len(buf) : buf[i] = Len(wire) + Len(msg) + i
      /\ \A i \in 1..Len(dataChan) :
           dataChan[i] = Len(wire) + Len(msg) + Len(buf) + i
      /\ pc["output"] = "read" => InPipe = got
      /\ pc["output"] = "offer" => InPipe = got - 1
  BY DEF IInv, PipeInv
<1>. DEFINE s == wire \o msg
            t == s \o buf
            u == t \o dataChan
<1>3. s \in Seq(Nat) /\ Len(s) = Len(wire) + Len(msg) /\ \A i \in 1..Len(s) : s[i] = i
  BY <1>1, <1>2, CountOn
<1>. HIDE DEF s
<1>4. t \in Seq(Nat) /\ Len(t) = Len(s) + Len(buf) /\ \A i \in 1..Len(t) : t[i] = i
  BY <1>1, <1>2, <1>3, CountOn
<1>. HIDE DEF t
<1>5. /\ u \in Seq(Nat) /\ Len(u) = Len(t) + Len(dataChan)
      /\ \A i \in 1..Len(u) : u[i] = i
  <2>1. Len(t) = Len(wire) + Len(msg) + Len(buf)
    BY <1>3, <1>4
  <2>2. \A i \in 1..Len(dataChan) : dataChan[i] = Len(t) + i
    BY <1>2, <2>1
  <2>. QED
    BY <1>1, <1>4, <2>2, CountOn
<1>. HIDE DEF u
<1>6. Len(u) = InPipe
  BY <1>3, <1>4, <1>5 DEF InPipe
<1>7. /\ Offered \in Seq(Nat) /\ Len(u) + Len(Offered) = got
      /\ \A i \in 1..Len(Offered) : Offered[i] = Len(u) + i
  <2>1. CASE pc["output"] = "read"
    BY <1>1, <1>2, <1>6, <2>1, LengthsAreNat DEF Offered
  <2>2. CASE pc["output"] = "offer"
    <3>1. Offered = <<got>> /\ Len(u) = got - 1 /\ got \in Nat
      BY <1>1, <1>2, <1>6, <2>2, LengthsAreNat DEF Offered
    <3>. QED
      BY <3>1
  <2>. QED
    BY <2>1, <2>2
<1>8. /\ u \o Offered \in Seq(Nat) /\ Len(u \o Offered) = got
      /\ \A i \in 1..Len(u \o Offered) : (u \o Offered)[i] = i
  BY <1>5, <1>7, CountOn
<1>9. u \o Offered = Read
  BY <1>1, <1>8, ReadIsSeq, SeqEqual
<1>. QED
  BY <1>9 DEF s, t, u

\* output and send: while both run, every chunk that was read from the shell
\* is sent or in the pipe, once and in its place.
THEOREM NothingIsLost == Spec => []NothingLost
  BY Invariance, PipeAddsUp, PTL DEF Spec

-----------------------------------------------------------------------------
(* The session implements OutputStream *)

LEMMA StreamReads == ASSUME TypeOK, TypeOK', ReadStdout PROVE Stream!Read
<1>1. got' = got + 1 /\ wire' = wire /\ got \in Nat
  BY LengthsAreNat DEF ReadStdout
<1>2. Len(Read') = Len(Read) + 1
  BY <1>1 DEF Read
<1>3. SubSeq(Read', 1, Len(Read)) = Read
  BY <1>1 DEF Read
<1>. QED
  BY <1>1, <1>2, <1>3 DEF Stream!Read

LEMMA StreamSends == ASSUME IInv, FlushWrite PROVE Stream!Next \/ UNCHANGED Stream!vars
<1>1. /\ TypeOK /\ SenderRuns /\ UNCHANGED Read /\ wire' = wire \o msg
      /\ wire \in Seq(Nat) /\ msg \in Seq(Nat)
  BY DEF IInv, FlushWrite, Goto, SenderRuns, Read, TypeOK
<1>2. /\ \A i \in 1..Len(msg) : msg[i] = Len(wire) + i
      /\ InPipe <= got
  BY <1>1 DEF IInv, PipeInv
<1>3. Len(wire) + Len(msg) <= got
  BY <1>1, <1>2, LengthsAreNat DEF InPipe
<1>4. CASE msg = <<>>
  BY <1>1, <1>4, ConcatEmptySeq DEF Stream!vars
<1>5. CASE msg # <<>>
  <2>. DEFINE n == Len(wire) + Len(msg)
              sub == SubSeq(Read, Len(wire) + 1, n)
  <2>1. n \in Len(wire) + 1 .. Len(Read)
    BY <1>1, <1>3, <1>5, EmptySeq, LengthsAreNat, ReadIsSeq
  <2>2. \A i \in Len(wire) + 1 .. n : Read[i] = i /\ Read[i] \in Nat
    <3>1. n \in 1..got /\ got \in Nat /\ Len(wire) \in Nat
      BY <1>1, <2>1, LengthsAreNat, ReadIsSeq
    <3>2. Len(wire) + 1 .. n \subseteq 1..got
      BY <3>1
    <3>. QED
      BY <1>1, <3>1, <3>2, ReadIsSeq
  <2>3. /\ sub \in Seq(Nat) /\ Len(sub) = Len(msg)
        /\ \A i \in 1..Len(msg) : sub[i] = Read[Len(wire) + 1 + i - 1]
    <3>1. Len(wire) + 1 \in Int /\ n \in Int /\ Len(wire) + 1 <= n
      BY <1>1, <2>1, LengthsAreNat
    <3>. QED
      BY <1>1, <2>2, <3>1, SubSeqProperties, LengthsAreNat
  <2>4. \A i \in 1..Len(msg) : sub[i] = msg[i]
    <3>. SUFFICES ASSUME NEW i \in 1..Len(msg) PROVE sub[i] = msg[i]
      OBVIOUS
    <3>1. /\ Len(wire) + 1 + i - 1 = Len(wire) + i
          /\ Len(wire) + i \in Len(wire) + 1 .. n
      BY <1>1, LengthsAreNat
    <3>. QED
      BY <1>2, <2>2, <2>3, <3>1
  <2>5. sub = msg
    BY <1>1, <2>3, <2>4, SeqEqual
  <2>. QED
    BY <1>1, <2>1, <2>5 DEF Stream!Next, Stream!Send
<1>. QED
  BY <1>4, <1>5

\* The other steps neither read from the shell nor send to the browser.
LEMMA StreamStutters ==
  ASSUME [Next]_vars, ~ReadStdout, ~FlushWrite
  PROVE  UNCHANGED <<got, wire>>
<1>1. CASE UNCHANGED vars \/ Environment
  BY <1>1 DEF vars, pipeVars, Environment, ShellExits, PeerLeaves
<1>2. \A g \in Goroutines : Stop(g) => UNCHANGED <<got, wire>>
  BY DEF Stop, StopCancel, StopClose, StopAgain, pipeVars
<1>3. CASE Output
  BY <1>2, <1>3 DEF Output, OutputRuns, ReadEOF, Offer, OutputDone, pipeVars, Goroutines
<1>4. CASE Sender
  <2>1. CASE SenderDone \/ Heartbeat \/ HeartbeatFails \/ FlushFails
    BY <2>1 DEF SenderDone, Heartbeat, HeartbeatFails, FlushFails, pipeVars
  <2>2. CASE PingLock \/ PingWrite \/ FlushLock
    BY <2>2 DEF PingLock, PingWrite, FlushLock, Lock, pipeVars
  <2>3. CASE TickFlush \/ Receive
    BY <2>3 DEF TickFlush, Receive, Flush
  <2>. QED
    BY <1>2, <1>4, <2>1, <2>2, <2>3 DEF Sender, Goroutines
<1>5. CASE Reader
  <2>1. CASE PongLock \/ PongWrite \/ PongFails \/ CloseSession
    BY <2>1 DEF PongLock, PongWrite, PongFails, CloseSession, Lock, pipeVars
  <2>2. CASE ReadPing \/ ReadInput \/ InputTaken \/ InputFails \/ ReadPingFails \/ ReadFails
    BY <2>2 DEF ReadPing, ReadInput, InputTaken, InputFails, ReadPingFails, ReadFails, pipeVars
  <2>. QED
    BY <1>2, <1>5, <2>1, <2>2 DEF Reader, Goroutines
<1>. QED
  BY <1>1, <1>3, <1>4, <1>5 DEF Next

\* A session sends the browser a gapless beginning of what the shell wrote, in
\* every state, also after Stop: it implements OutputStream.
THEOREM StreamRefinement == Spec => ImplementsStream
<1>1. Init => Stream!Init
  BY DEF Init, Stream!Init, Read
<1>2. IInv /\ IInv' /\ [Next]_vars => [Stream!Next]_(Stream!vars)
  <2>. SUFFICES ASSUME IInv, IInv', [Next]_vars
                PROVE  Stream!Next \/ UNCHANGED Stream!vars
    OBVIOUS
  <2>1. CASE ReadStdout
    BY <2>1, StreamReads DEF IInv, Stream!Next
  <2>2. CASE FlushWrite
    BY <2>2, StreamSends
  <2>3. CASE ~ReadStdout /\ ~FlushWrite
    BY <2>3, StreamStutters DEF Stream!vars, Read
  <2>. QED
    BY <2>1, <2>2, <2>3
<1>. QED
  BY Invariance, <1>1, <1>2, PTL DEF Spec, SafeSpec, ImplementsStream, Stream!Spec
=============================================================================
