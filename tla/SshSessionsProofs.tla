------------------------- MODULE SshSessionsProofs -------------------------
(***************************************************************************)
(* Safety of SshSessions for any number of Connect requests, tunnels, file *)
(* requests and tokens.  IInv is the inductive invariant; the properties   *)
(* that TLC checks on small sets follow from it.                           *)
(***************************************************************************)
EXTENDS SshSessions, TLAPS

\* What Put assigns: only an answered request has a token and a finder id,
\* finder ids come from the sequence and are never shared.
AllocInv ==
  /\ \A c \in Requests :
       /\ rq[c] = "answered" <=> token[c] # None
       /\ rq[c] = "answered" <=> finderID[c] # 0
       /\ finderID[c] <= seq
  /\ \A c, d \in Requests : finderID[c] = finderID[d] /\ finderID[c] # 0 => c = d

\* What the store holds is open and found under its own token, and a session
\* is in the store, in the hands of one closing tunnel, or closed.
StoreInv ==
  /\ \A tok \in Tokens, c \in Requests :
       sessions[tok] = c => rq[c] = "answered" /\ closes[c] = 0 /\ token[c] = tok
  /\ \A t \in Tunnels, c \in Requests : Closing(t, c) =>
       /\ rq[c] = "answered" /\ closes[c] = 0
       /\ \A tok \in Tokens : sessions[tok] # c
  /\ \A t, u \in Tunnels, c \in Requests : Closing(t, c) /\ Closing(u, c) => t = u
  /\ \A c \in Requests : closes[c] <= 1
  /\ \A c \in Requests : closes[c] # 0 => rq[c] = "answered"

\* No answered request loses its session before it is closed.
AccountInv ==
  \A c \in Requests : rq[c] = "answered" /\ closes[c] = 0 =>
    sessions[token[c]] = c \/ \E t \in Tunnels : Closing(t, c)

\* A tunnel or file request that works on a session got it from the store.
HolderInv ==
  /\ \A t \in Tunnels :
       /\ tpc[t] \notin {"idle", "done"} => ttoken[t] \in Tokens
       /\ tpc[t] \in {"newTerminal", "reading", "closeClear", "closeClient"} =>
            held[t] \in Requests /\ rq[held[t]] = "answered"
  /\ \A f \in FileRequests :
       fpc[f] # "idle" => fsess[f] \in Requests /\ rq[fsess[f]] = "answered"

\* A slot was filled for the session that owns its id, and is filled before the
\* id is marked ready.
SlotInv ==
  /\ \A id \in DOMAIN slot :
       slot[id] \in Requests /\ finderID[slot[id]] = id
  /\ \A f \in FileRequests :
       fpc[f] \in {"markReady", "next"} => finderID[fsess[f]] \in DOMAIN slot
  /\ ready \subseteq DOMAIN slot

IInv == TypeOK /\ AllocInv /\ StoreInv /\ AccountInv /\ HolderInv /\ SlotInv

-----------------------------------------------------------------------------
(* The initial states satisfy the inductive invariant. *)
LEMMA InitIInv == Init => IInv
  BY MaxTriesAssumption, NoneAssumption
     DEF Init, IInv, TypeOK, AllocInv, StoreInv, AccountInv, HolderInv, SlotInv, Closing,
         RequestStates, TunnelStates, FileStates

(* Every Connect step preserves the inductive invariant. *)
LEMMA ConnectIInv ==
  ASSUME IInv, NEW c \in Requests, Connect(c)
  PROVE  IInv'
<1>. USE MaxTriesAssumption, NoneAssumption
     DEF IInv, TypeOK, AllocInv, StoreInv, AccountInv, HolderInv, SlotInv, Closing,
         RequestStates, TunnelStates, FileStates,
         reqVars, storeVars, findVars, tunVars, fileVars
<1>1. CASE Refuse(c)
  BY <1>1 DEF Refuse
<1>2. CASE OpenSSHSession(c)
  BY <1>2 DEF OpenSSHSession
<1>3. CASE PutNoEntropy(c)
  BY <1>3 DEF PutNoEntropy
<1>4. ASSUME NEW tok \in Tokens, PutInsert(c, tok) PROVE IInv'
  <2>1. TypeOK'
    BY <1>4 DEF PutInsert, Insert
  <2>2. AllocInv'
    BY <1>4 DEF PutInsert, Insert
  <2>3. StoreInv'
    BY <1>4 DEF PutInsert, Insert
  <2>4. AccountInv'
    BY <1>4 DEF PutInsert, Insert
  <2>5. HolderInv'
    BY <1>4 DEF PutInsert, Insert
  <2>6. SlotInv'
    BY <1>4 DEF PutInsert, Insert
  <2>. QED
    BY <2>1, <2>2, <2>3, <2>4, <2>5, <2>6
<1>5. ASSUME NEW tok \in Tokens, PutCollide(c, tok) PROVE IInv'
  BY <1>5 DEF PutCollide
<1>. HIDE DEF IInv
<1>. QED
  BY <1>1, <1>2, <1>3, <1>4, <1>5 DEF Connect, Put

(* Every step of a tunnel preserves the inductive invariant. *)
LEMMA TunnelIInv ==
  ASSUME IInv, NEW t \in Tunnels, Tunnel(t)
  PROVE  IInv'
<1>. USE MaxTriesAssumption, NoneAssumption
     DEF IInv, TypeOK, AllocInv, StoreInv, AccountInv, HolderInv, SlotInv, Closing,
         RequestStates, TunnelStates, FileStates, Goto,
         reqVars, storeVars, findVars, tunVars, fileVars
<1>1. ASSUME NEW tok \in Issued, TunnelGet(t, tok) PROVE IInv'
  BY <1>1 DEF TunnelGet, Issued
<1>2. CASE NewTerminal(t)
  BY <1>2 DEF NewTerminal
<1>3. CASE NewTerminalFails(t)
  BY <1>3 DEF NewTerminalFails, ToCloseSession
<1>4. CASE Leave(t)
  BY <1>4 DEF Leave, ToCloseSession
<1>5. CASE CloseGet(t)
  BY <1>5 DEF CloseGet
<1>6. CASE CloseClear(t)
  BY <1>6 DEF CloseClear, Clear
<1>7. CASE CloseDelete(t)
  <2>. HIDE DEF AllocInv, StoreInv, AccountInv, HolderInv, SlotInv
  <2>1. TypeOK'
    <3>. USE <1>7 DEF CloseDelete, FoundOrEnded
    <3>1. tpc' \in [Tunnels -> TunnelStates]
      BY DEF Ended
    <3>2. ttoken[t] \in Tokens \union {None}
      OBVIOUS
    <3>3. sessions' \in [Tokens -> Requests \union {None}]
      BY <3>2
    <3>4. ttoken' \in [Tunnels -> Tokens \union {None}]
      BY DEF Ended
    <3>5. held' \in [Tunnels -> Requests \union {None}]
      BY DEF HolderInv, Ended
    <3>. QED
      BY <3>1, <3>3, <3>4, <3>5
  <2>. USE DEF AllocInv, StoreInv, AccountInv, HolderInv, SlotInv
  <2>2. AllocInv'
    BY <1>7 DEF CloseDelete, FoundOrEnded, Ended
  <2>3. StoreInv'
    BY <1>7 DEF CloseDelete, FoundOrEnded, Ended
  <2>4. AccountInv'
    BY <1>7 DEF CloseDelete, FoundOrEnded, Ended
  <2>5. HolderInv'
    BY <1>7 DEF CloseDelete, FoundOrEnded, Ended
  <2>6. SlotInv'
    BY <1>7 DEF CloseDelete, FoundOrEnded, Ended
  <2>. QED
    BY <2>1, <2>2, <2>3, <2>4, <2>5, <2>6
<1>8. CASE CloseClient(t)
  <2>1. TypeOK'
    BY <1>8 DEF CloseClient, Ended
  <2>2. AllocInv'
    BY <1>8 DEF CloseClient, Ended
  <2>3. StoreInv'
    BY <1>8 DEF CloseClient, Ended
  <2>4. AccountInv'
    BY <1>8 DEF CloseClient, Ended
  <2>5. HolderInv'
    BY <1>8 DEF CloseClient, Ended
  <2>6. SlotInv'
    BY <1>8 DEF CloseClient, Ended
  <2>. QED
    BY <2>1, <2>2, <2>3, <2>4, <2>5, <2>6
<1>. HIDE DEF IInv
<1>. QED
  BY <1>1, <1>2, <1>3, <1>4, <1>5, <1>6, <1>7, <1>8 DEF Tunnel, CloseSession

(* Every step of a file request preserves the inductive invariant. *)
LEMMA FileIInv ==
  ASSUME IInv, NEW f \in FileRequests, File(f)
  PROVE  IInv'
<1>. USE MaxTriesAssumption, NoneAssumption
     DEF IInv, TypeOK, AllocInv, StoreInv, AccountInv, HolderInv, SlotInv, Closing,
         RequestStates, TunnelStates, FileStates,
         reqVars, storeVars, findVars, tunVars, fileVars
<1>1. ASSUME NEW tok \in Issued, FileGet(f, tok) PROVE IInv'
  BY <1>1 DEF FileGet, Issued
<1>2. CASE FileIsReady(f)
  BY <1>2 DEF FileIsReady
<1>3. CASE NewSFTP(f)
  BY <1>3 DEF NewSFTP
<1>4. CASE NewSFTPFails(f)
  BY <1>4 DEF NewSFTPFails, Answered
<1>5. CASE SetFinder(f)
  BY <1>5 DEF SetFinder
<1>6. CASE MarkReady(f)
  BY <1>6 DEF MarkReady
<1>7. CASE FileNext(f)
  BY <1>7 DEF FileNext, Answered
<1>. HIDE DEF IInv
<1>. QED
  BY <1>1, <1>2, <1>3, <1>4, <1>5, <1>6, <1>7 DEF File

-----------------------------------------------------------------------------
(* A step that changes nothing preserves the inductive invariant. *)
LEMMA StutterIInv == IInv /\ UNCHANGED vars => IInv'
  BY DEF IInv, TypeOK, AllocInv, StoreInv, AccountInv, HolderInv, SlotInv, Closing,
         vars, reqVars, storeVars, findVars, tunVars, fileVars

(* IInv holds in every reachable state. *)
THEOREM Invariance == SafeSpec => []IInv
<1>1. IInv /\ [Next]_vars => IInv'
  BY ConnectIInv, TunnelIInv, FileIInv, StutterIInv DEF Next
<1>. QED
  BY InitIInv, <1>1, PTL DEF SafeSpec

(* The variables keep their types: the store maps tokens to sessions, finder *)
(* ids never exceed the sequence, no attempt counter exceeds MaxTries.       *)
THEOREM TypeCorrectness == SafeSpec => []TypeOK
<1>1. IInv => TypeOK
  BY DEF IInv
<1>. QED
  BY Invariance, <1>1, PTL

(* However many tunnels end at once, runtimeSessionStore.Close closes the SSH *)
(* client of a session at most once.                                          *)
THEOREM ClosedAtMostOnce == SafeSpec => []CloseOnce
<1>1. IInv => CloseOnce
  BY DEF IInv, StoreInv, CloseOnce
<1>. QED
  BY Invariance, <1>1, PTL

(* runtimeSessionStore.Get never returns a session whose client was closed. *)
THEOREM StoredSessionsAreOpen == SafeSpec => []StoredIsOpen
<1>1. IInv => StoredIsOpen
  BY DEF IInv, StoreInv, StoredIsOpen, IsOpen
<1>. QED
  BY Invariance, <1>1, PTL

(* No open SSH client is forgotten by the store and the tunnels, except the  *)
(* one of a Connect whose Put gave up.                                        *)
THEOREM OpenClientsAreAccounted == SafeSpec => []OpenIsAccounted
<1>1. IInv => OpenIsAccounted
  BY DEF IInv, AccountInv, OpenIsAccounted, IsOpen
<1>. QED
  BY Invariance, <1>1, PTL

(* A filled slot belongs to exactly one session: the owners recorded by      *)
(* SlotInv are unique because finder ids are.                                *)
LEMMA IsolationFromIInv == IInv => FinderIsolation
<1>. SUFFICES ASSUME IInv, NEW id \in DOMAIN slot, NEW c \in Requests
              PROVE  finderID[c] = id <=> slot[id] = c
  BY DEF FinderIsolation
<1>1. slot[id] \in Requests /\ finderID[slot[id]] = id /\ id # 0
  BY DEF IInv, SlotInv, TypeOK
<1>. QED
  BY <1>1 DEF IInv, AllocInv

(* A slot of vuefinder belongs to exactly one session: withFinder never lets *)
(* the SFTP client of one session into the slot of another.                  *)
THEOREM FindersAreIsolated == SafeSpec => []FinderIsolation
  BY Invariance, IsolationFromIInv, PTL

(* A file request that reaches vuefinder finds its slot filled, with an SFTP *)
(* client of its own session.                                                *)
THEOREM RequestsAreServedFromOwnSession == SafeSpec => []ServedFromOwnSession
<1>1. ASSUME IInv, NEW f \in FileRequests, fpc[f] = "next"
      PROVE  /\ finderID[fsess[f]] \in DOMAIN slot
             /\ slot[finderID[fsess[f]]] = fsess[f]
  <2>1. fsess[f] \in Requests /\ finderID[fsess[f]] \in DOMAIN slot
    BY <1>1 DEF IInv, HolderInv, SlotInv
  <2>. QED
    BY <1>1, <2>1, IsolationFromIInv DEF FinderIsolation
<1>2. IInv => ServedFromOwnSession
  BY <1>1 DEF ServedFromOwnSession, IInv, SlotInv
<1>. QED
  BY Invariance, <1>2, PTL

-----------------------------------------------------------------------------
(* What the abstract life cycle sees of a step that touches neither the      *)
(* store nor the client of a session: nothing.                               *)
LEMMA LifecycleStutters ==
  UNCHANGED <<rq, token, closes, sessions>> => UNCHANGED Lifecycle!vars
  BY DEF Lifecycle!vars, Phase

(* The life cycle advances by one session when the phase of one changes. *)
LEMMA LifecycleAdvances ==
  ASSUME NEW c \in Requests, NEW from, NEW to,
         Phase(c) = from, Phase(c)' = to,
         \A d \in Requests \ {c} : Phase(d)' = Phase(d)
  PROVE  Lifecycle!Advance(c, from, to)
  BY DEF Lifecycle!Advance

(* Every Connect step is a step of the life cycle of its session. *)
LEMMA ConnectRefines ==
  ASSUME IInv, NEW c \in Requests, Connect(c)
  PROVE  Lifecycle!Next \/ UNCHANGED Lifecycle!vars
<1>. USE DEF reqVars, storeVars, findVars, tunVars, fileVars, IInv, TypeOK, RequestStates
<1>1. CASE Refuse(c)
  <2>1. \A d \in Requests : Phase(d)' = Phase(d)
    BY <1>1 DEF Refuse, Phase
  <2>. QED
    BY <1>1, <2>1 DEF Refuse, Lifecycle!vars
<1>2. CASE OpenSSHSession(c)
  <2>1. Phase(c) = "absent" /\ Phase(c)' = "open"
    BY <1>2 DEF OpenSSHSession, Phase
  <2>2. \A d \in Requests \ {c} : Phase(d)' = Phase(d)
    BY <1>2 DEF OpenSSHSession, Phase
  <2>3. Lifecycle!Open(c)
    BY <1>2, <2>1, <2>2, LifecycleAdvances DEF OpenSSHSession, Lifecycle!Open
  <2>. QED
    BY <2>3 DEF Lifecycle!Next, Lifecycle!Step
<1>3. ASSUME rq[c] = "putting", rq' = [rq EXCEPT ![c] = "failed"],
             UNCHANGED <<token, closes, sessions>>
      PROVE  Lifecycle!Next
  <2>1. Phase(c) = "open" /\ Phase(c)' = "abandoned"
    BY <1>3 DEF Phase
  <2>2. \A d \in Requests \ {c} : Phase(d)' = Phase(d)
    BY <1>3 DEF Phase
  <2>3. Lifecycle!Abandon(c)
    BY <1>3, <2>1, <2>2, LifecycleAdvances DEF Lifecycle!Abandon
  <2>. QED
    BY <2>3 DEF Lifecycle!Next, Lifecycle!Step, Lifecycle!Settle
<1>4. CASE PutNoEntropy(c)
  BY <1>3, <1>4 DEF PutNoEntropy
<1>5. ASSUME NEW tok \in Tokens, PutInsert(c, tok)
      PROVE  Lifecycle!Next
  <2>1. Phase(c) = "open" /\ Phase(c)' = "live"
    BY <1>5 DEF PutInsert, Insert, Phase, StoreInv
  <2>2. \A d \in Requests \ {c} : Phase(d)' = Phase(d)
    BY <1>5, NoneAssumption DEF PutInsert, Insert, Phase, AllocInv
  <2>3. \A d \in Requests : Phase(d) = "live" => token[d] # tok
    BY <1>5, NoneAssumption DEF PutInsert, Phase
  <2>4. token' = [token EXCEPT ![c] = tok]
    BY <1>5 DEF PutInsert, Insert
  <2>5. Lifecycle!Publish(c, tok)
    BY <2>1, <2>2, <2>3, <2>4, LifecycleAdvances DEF Lifecycle!Publish
  <2>. QED
    BY <2>5 DEF Lifecycle!Next, Lifecycle!Step, Lifecycle!Settle
<1>6. ASSUME NEW tok \in Tokens, PutCollide(c, tok)
      PROVE  Lifecycle!Next \/ UNCHANGED Lifecycle!vars
  <2>1. CASE tries[c] + 1 < MaxTries
    BY <1>6, <2>1, LifecycleStutters DEF PutCollide
  <2>2. CASE ~(tries[c] + 1 < MaxTries)
    BY <1>3, <1>6, <2>2 DEF PutCollide
  <2>. QED
    BY <2>1, <2>2
<1>. QED
  BY <1>1, <1>2, <1>4, <1>5, <1>6 DEF Connect, Put

(* A tunnel retires a session when it deletes it and closes it afterwards;   *)
(* its other steps are invisible.                                            *)
LEMMA TunnelRefines ==
  ASSUME IInv, NEW t \in Tunnels, Tunnel(t)
  PROVE  Lifecycle!Next \/ UNCHANGED Lifecycle!vars
<1>. USE DEF reqVars, storeVars, findVars, tunVars, fileVars
<1>1. CASE CloseDelete(t) /\ sessions[ttoken[t]] # None
  <2>1. PICK c \in Requests : ttoken[t] \in Tokens /\ c = sessions[ttoken[t]]
    BY <1>1 DEF CloseDelete, FoundOrEnded, IInv, TypeOK, HolderInv
  <2>2. rq[c] = "answered" /\ closes[c] = 0 /\ token[c] = ttoken[t]
    BY <2>1 DEF IInv, StoreInv
  <2>3. \A d \in Requests \ {c} : sessions'[token[d]] = d <=> sessions[token[d]] = d
    BY <1>1, <2>1, <2>2, NoneAssumption DEF CloseDelete, IInv, TypeOK, StoreInv
  <2>4. sessions'[token[c]] # c
    BY <1>1, <2>1, <2>2, NoneAssumption DEF CloseDelete, IInv, TypeOK
  <2>5. Phase(c) = "live" /\ Phase(c)' = "retired"
    BY <1>1, <2>1, <2>2, <2>4 DEF CloseDelete, Phase
  <2>6. \A d \in Requests \ {c} : Phase(d)' = Phase(d)
    BY <1>1, <2>3 DEF CloseDelete, Phase
  <2>7. Lifecycle!Retire(c)
    BY <1>1, <2>1, <2>5, <2>6, LifecycleAdvances DEF CloseDelete, Lifecycle!Retire
  <2>. QED
    BY <2>1, <2>7 DEF Lifecycle!Next, Lifecycle!Step
<1>2. CASE CloseDelete(t) /\ sessions[ttoken[t]] = None
  <2>1. UNCHANGED <<rq, token, closes, sessions>>
    BY <1>2 DEF CloseDelete, IInv, TypeOK
  <2>. QED
    BY <2>1, LifecycleStutters
<1>3. CASE CloseClient(t)
  <2>1. PICK c \in Requests :
          /\ c = held[t] /\ rq[c] = "answered" /\ closes[c] = 0
          /\ sessions[token[c]] # c
    BY <1>3 DEF CloseClient, Closing, IInv, TypeOK, HolderInv, StoreInv, AllocInv
  <2>2. closes'[c] = 1 /\ \A d \in Requests \ {c} : closes'[d] = closes[d]
    BY <1>3, <2>1 DEF CloseClient, IInv, TypeOK
  <2>3. Phase(c) = "retired" /\ Phase(c)' = "closed"
    BY <1>3, <2>1, <2>2 DEF CloseClient, Phase
  <2>4. \A d \in Requests \ {c} : Phase(d)' = Phase(d)
    BY <1>3, <2>2 DEF CloseClient, Phase
  <2>5. Lifecycle!Close(c)
    BY <1>3, <2>1, <2>3, <2>4, LifecycleAdvances DEF CloseClient, Lifecycle!Close
  <2>. QED
    BY <2>1, <2>5 DEF Lifecycle!Next, Lifecycle!Step
<1>4. CASE Tunnel(t) /\ ~CloseDelete(t) /\ ~CloseClient(t)
  <2>1. UNCHANGED <<rq, token, closes, sessions>>
    BY <1>4 DEF Tunnel, CloseSession, TunnelGet, NewTerminal, NewTerminalFails, Leave,
                ToCloseSession, CloseGet, CloseClear
  <2>. QED
    BY <2>1, LifecycleStutters
<1>. QED
  BY <1>1, <1>2, <1>3, <1>4

(* File requests are invisible to the life cycle of sessions. *)
LEMMA FileRefines ==
  ASSUME NEW f \in FileRequests, File(f)
  PROVE  UNCHANGED Lifecycle!vars
<1>1. UNCHANGED <<rq, token, closes, sessions>>
  BY DEF File, FileGet, FileIsReady, NewSFTP, NewSFTPFails, SetFinder, MarkReady,
         FileNext, reqVars, storeVars
<1>. QED
  BY <1>1, LifecycleStutters

(* The store, the tunnels and the file requests implement the life cycle: a   *)
(* session is published under a token no live session has, retired once and   *)
(* then closed once.                                                          *)
THEOREM Refinement == SafeSpec => ImplementsLifecycle
<1>1. Init => Lifecycle!Init
  BY DEF Init, Lifecycle!Init, Phase
<1>2. IInv /\ [Next]_vars => [Lifecycle!Next]_(Lifecycle!vars)
  <2>. SUFFICES ASSUME IInv, [Next]_vars
                PROVE  Lifecycle!Next \/ UNCHANGED Lifecycle!vars
    OBVIOUS
  <2>1. CASE Next
    BY <2>1, ConnectRefines, TunnelRefines, FileRefines DEF Next
  <2>2. CASE UNCHANGED vars
    BY <2>2, LifecycleStutters DEF vars, reqVars, storeVars
  <2>. QED
    BY <2>1, <2>2
<1>. QED
  BY Invariance, <1>1, <1>2, PTL DEF SafeSpec, ImplementsLifecycle, Lifecycle!Spec
=============================================================================
