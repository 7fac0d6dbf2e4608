---------------------------- MODULE SshSessions ----------------------------
(***************************************************************************)
(* The runtime sessions of the SSH plugin: plugins/ssh/internal/web.       *)
(*                                                                         *)
(*   - Connect requests dial an SSH client and Put it in the store;        *)
(*   - terminal tunnels (wsSSHSession) Get it, read from the browser and   *)
(*     call closeSession when they end;                                    *)
(*   - file requests (withFinder) Get it and attach an SFTP client to the  *)
(*     vuefinder handler under the integer finder id of the session.       *)
(*                                                                         *)
(* Every request runs on a goroutine of its own.  One action is one        *)
(* critical section of runtimeSessionStore.mu or finderRuntime.mu, or one  *)
(* call out of the package (dial, NewTerminal, NewSFTP, SetFinder, Close), *)
(* so everything a request read before is possibly stale when it uses it.  *)
(* A session is identified by the Connect request that dialled it.         *)
(***************************************************************************)
EXTENDS Naturals, FiniteSets

CONSTANTS Requests,     \* Connect requests
          Tunnels,      \* terminal WebSocket requests
          FileRequests, \* requests of the file manager in progress at a time
          Tokens,       \* the tokens the random source may yield
          MaxTries,     \* allocation attempts of Put: 3 in the code
          None          \* no session, no token

ASSUME MaxTriesAssumption == MaxTries \in Nat \ {0}
ASSUME NoneAssumption == None \notin Requests \union Tokens

VARIABLES
  rq,        \* rq[c]: progress of Connect request c
  tries,     \* tries[c]: attempts c has made in its Put
  token,     \* token[c]: the token c answered with, or None
  closes,    \* closes[c]: calls of Close on the SSH client of c
  sessions,  \* runtimeSessionStore.sessions
  seq,       \* runtimeSessionStore.seq
  finderID,  \* finderID[c]: runtimeSession.finderID, 0 before Put
  ready,     \* finderRuntime.ready
  slot,      \* the finders of vuefinder: finder id -> session of the SFTP client
  tpc,       \* tpc[t]: where tunnel t is
  ttoken,    \* ttoken[t]: its session_id
  held,      \* held[t]: the runtimeSession its running function holds
  fpc,       \* fpc[f]: where file request f is
  fsess      \* fsess[f]: the runtimeSession f holds

reqVars   == <<rq, tries, token>>
storeVars == <<sessions, seq, finderID>>
findVars  == <<ready, slot>>
tunVars   == <<tpc, ttoken, held>>
fileVars  == <<fpc, fsess>>
vars == <<reqVars, closes, storeVars, findVars, tunVars, fileVars>>

RequestStates == {"idle", "putting", "answered", "failed", "refused"}
TunnelStates == {"idle", "newTerminal", "reading", "closeGet",
                 "closeClear", "closeDelete", "closeClient", "done"}
FileStates == {"idle", "isReady", "newSFTP", "setFinder", "markReady", "next"}

\* The SSH client of c was dialled and no Close was called on it.
IsOpen(c) == rq[c] \in {"putting", "answered", "failed"} /\ closes[c] = 0

\* A browser only knows tokens that Connect answered with, stale ones too.
Issued == {token[c] : c \in Requests} \ {None}

Init ==
  /\ rq = [c \in Requests |-> "idle"]
  /\ tries = [c \in Requests |-> 0]
  /\ token = [c \in Requests |-> None]
  /\ closes = [c \in Requests |-> 0]
  /\ sessions = [tok \in Tokens |-> None]
  /\ seq = 0
  /\ finderID = [c \in Requests |-> 0]
  /\ ready = {}
  /\ slot = [i \in {} |-> None]
  /\ tpc = [t \in Tunnels |-> "idle"]
  /\ ttoken = [t \in Tunnels |-> None]
  /\ held = [t \in Tunnels |-> None]
  /\ fpc = [f \in FileRequests |-> "idle"]
  /\ fsess = [f \in FileRequests |-> None]

-----------------------------------------------------------------------------
(* Connect: openAndStoreSession *)

\* The type is unsupported, the plugin input cannot be resolved or the dial
\* fails: the request is answered with an error and leaves nothing behind.
Refuse(c) ==
  /\ rq[c] = "idle"
  /\ rq' = [rq EXCEPT ![c] = "refused"]
  /\ UNCHANGED <<tries, token, closes, storeVars, findVars, tunVars, fileVars>>

\* openSSHSession succeeds; from here on there is a client to close.
OpenSSHSession(c) ==
  /\ rq[c] = "idle"
  /\ rq' = [rq EXCEPT ![c] = "putting"]
  /\ UNCHANGED <<tries, token, closes, storeVars, findVars, tunVars, fileVars>>

\* The insertion, done under the lock: tok and id are now those of c.
Insert(c, tok, id) ==
  /\ rq[c] = "putting"
  /\ seq' = id
  /\ finderID' = [finderID EXCEPT ![c] = id]
  /\ sessions' = [sessions EXCEPT ![tok] = c]
  /\ token' = [token EXCEPT ![c] = tok]
  /\ rq' = [rq EXCEPT ![c] = "answered"]
  /\ tries' = [tries EXCEPT ![c] = 0]
  /\ UNCHANGED <<closes, findVars, tunVars, fileVars>>

\* Mutant of PutInsert: the exists check is lost.
PutOverwrites(c, tok) == Insert(c, tok, seq + 1)

\* Mutant of PutInsert: the finder id is the size of the store, not a sequence.
PutCountsStored(c, tok) ==
  /\ sessions[tok] = None
  /\ Insert(c, tok, Cardinality({k \in Tokens : sessions[k] # None}) + 1)

\* An iteration of Put drew a free token.
PutInsert(c, tok) == sessions[tok] = None /\ Insert(c, tok, seq + 1)

\* An iteration of Put drew a token in use: try again, MaxTries times in all.
PutCollide(c, tok) ==
  /\ rq[c] = "putting"
  /\ sessions[tok] # None
  /\ IF tries[c] + 1 < MaxTries
     THEN tries' = [tries EXCEPT ![c] = @ + 1] /\ UNCHANGED rq
     ELSE tries' = [tries EXCEPT ![c] = 0] /\ rq' = [rq EXCEPT ![c] = "failed"]
  /\ UNCHANGED <<token, closes, storeVars, findVars, tunVars, fileVars>>

\* newSessionToken fails: Put returns at once, the client stays open.  (Since
\* Go 1.24 crypto/rand crashes instead; the code still has the path.)
PutNoEntropy(c) ==
  /\ rq[c] = "putting"
  /\ rq' = [rq EXCEPT ![c] = "failed"]
  /\ tries' = [tries EXCEPT ![c] = 0]
  /\ UNCHANGED <<token, closes, storeVars, findVars, tunVars, fileVars>>

Put(c) == PutNoEntropy(c) \/ \E tok \in Tokens : PutInsert(c, tok) \/ PutCollide(c, tok)

-----------------------------------------------------------------------------
(* Terminal tunnels: SshSessionTunnel, wsSSHSession, closeSession *)

Goto(t, from, to) == tpc[t] = from /\ tpc' = [tpc EXCEPT ![t] = to]

\* The goroutine of the tunnel is over.
Ended(t) ==
  /\ tpc' = [tpc EXCEPT ![t] = "done"]
  /\ ttoken' = [ttoken EXCEPT ![t] = None]
  /\ held' = [held EXCEPT ![t] = None]

\* The request has its parameters and is upgraded, which touches nothing
\* shared; closeSession is deferred and the session looked up.  (A request that
\* is refused before that changes nothing.)
TunnelGet(t, tok) ==
  /\ Goto(t, "idle", IF sessions[tok] # None THEN "newTerminal" ELSE "closeGet")
  /\ ttoken' = [ttoken EXCEPT ![t] = tok]
  /\ held' = [held EXCEPT ![t] = sessions[tok]]
  /\ UNCHANGED <<reqVars, closes, storeVars, findVars, fileVars>>

\* A channel and a shell on the client, which must still be open.
NewTerminal(t) ==
  /\ Goto(t, "newTerminal", "reading")
  /\ IsOpen(held[t])
  /\ UNCHANGED <<reqVars, closes, storeVars, findVars, ttoken, held, fileVars>>

\* wsSSHSession returns and closeSession, which holds no session yet, runs.
ToCloseSession(t, from) ==
  /\ Goto(t, from, "closeGet")
  /\ held' = [held EXCEPT ![t] = None]
  /\ UNCHANGED <<reqVars, closes, storeVars, findVars, ttoken, fileVars>>

\* The client is closed, or its server refuses the pty or the shell.
NewTerminalFails(t) == ToCloseSession(t, "newTerminal")

\* The browser leaves, the server hangs up, a strategy or the deadline fails;
\* somebody else closed the client.  When this must happen is the subject of
\* TerminalSession.
Leave(t) == ToCloseSession(t, "reading")

CloseGet(t) ==
  /\ Goto(t, "closeGet", IF sessions[ttoken[t]] # None THEN "closeClear" ELSE "closeDelete")
  /\ held' = [held EXCEPT ![t] = sessions[ttoken[t]]]
  /\ UNCHANGED <<reqVars, closes, storeVars, findVars, ttoken, fileVars>>

\* closeSession marks the finder of the session it holds as not ready.
Clear(t) == tpc[t] = "closeClear" /\ ready' = ready \ {finderID[held[t]]}

\* Mutant of CloseClear: the client is closed before its session is deleted.
CloseClearCloses(t) ==
  /\ Clear(t)
  /\ tpc' = [tpc EXCEPT ![t] = "closeDelete"]
  /\ held' = [held EXCEPT ![t] = None]
  /\ closes' = [closes EXCEPT ![held[t]] = @ + 1]
  /\ UNCHANGED <<reqVars, storeVars, slot, ttoken, fileVars>>

\* Mutant of CloseClear: closeSession returns after clearing the finder.
CloseClearReturns(t) ==
  /\ Clear(t)
  /\ Ended(t)
  /\ UNCHANGED <<reqVars, closes, storeVars, slot, fileVars>>

\* The session is only needed for this: Close looks the token up again.
CloseClear(t) ==
  /\ Clear(t)
  /\ tpc' = [tpc EXCEPT ![t] = "closeDelete"]
  /\ held' = [held EXCEPT ![t] = None]
  /\ UNCHANGED <<reqVars, closes, storeVars, slot, ttoken, fileVars>>

\* Where Close goes on: with the session it found, or back to its caller.
FoundOrEnded(t) ==
  /\ tpc[t] = "closeDelete"
  /\ IF sessions[ttoken[t]] = None
     THEN Ended(t)
     ELSE /\ tpc' = [tpc EXCEPT ![t] = "closeClient"]
          /\ held' = [held EXCEPT ![t] = sessions[ttoken[t]]]
          /\ UNCHANGED ttoken

\* Mutant of CloseDelete: the entry is looked up but not deleted.
CloseDeleteKeeps(t) ==
  /\ FoundOrEnded(t)
  /\ UNCHANGED <<reqVars, closes, storeVars, findVars, fileVars>>

\* Mutant of CloseDelete: the session is deleted and its client forgotten.
CloseDeleteForgets(t) ==
  /\ tpc[t] = "closeDelete" /\ Ended(t)
  /\ sessions' = [sessions EXCEPT ![ttoken[t]] = None]
  /\ UNCHANGED <<reqVars, closes, seq, finderID, findVars, fileVars>>

\* The lock section of runtimeSessionStore.Close.
CloseDelete(t) ==
  /\ FoundOrEnded(t)
  /\ sessions' = [sessions EXCEPT ![ttoken[t]] = None]
  /\ UNCHANGED <<reqVars, closes, seq, finderID, findVars, fileVars>>

CloseClient(t) ==
  /\ tpc[t] = "closeClient"
  /\ closes' = [closes EXCEPT ![held[t]] = @ + 1]
  /\ Ended(t)
  /\ UNCHANGED <<reqVars, storeVars, findVars, fileVars>>

-----------------------------------------------------------------------------
(* File requests: withFinder, finderRuntime.attach.  A request that has been *)
(* answered is followed by others, of this session or of another one.        *)

Answered(f) == fpc' = [fpc EXCEPT ![f] = "idle"] /\ fsess' = [fsess EXCEPT ![f] = None]

\* parseFinderSessionToken and Get; an unknown token aborts the request.
FileGet(f, tok) ==
  /\ fpc[f] = "idle"
  /\ fsess' = [fsess EXCEPT ![f] = sessions[tok]]
  /\ fpc' = [fpc EXCEPT ![f] = IF sessions[tok] # None THEN "isReady" ELSE "idle"]
  /\ UNCHANGED <<reqVars, closes, storeVars, findVars, tunVars>>

FileIsReady(f) ==
  /\ fpc[f] = "isReady"
  /\ fpc' = [fpc EXCEPT ![f] = IF finderID[fsess[f]] \in ready THEN "next" ELSE "newSFTP"]
  /\ UNCHANGED <<reqVars, closes, storeVars, findVars, tunVars, fsess>>

\* Mutant of NewSFTP: attach marks the finder ready before its slot is set.
NewSFTPMarks(f) ==
  /\ fpc[f] = "newSFTP"
  /\ IsOpen(fsess[f])
  /\ ready' = ready \union {finderID[fsess[f]]}
  /\ fpc' = [fpc EXCEPT ![f] = "setFinder"]
  /\ UNCHANGED <<reqVars, closes, storeVars, slot, tunVars, fsess>>

\* An SFTP subsystem on the client, which must still be open.
NewSFTP(f) ==
  /\ fpc[f] = "newSFTP"
  /\ IsOpen(fsess[f])
  /\ fpc' = [fpc EXCEPT ![f] = "setFinder"]
  /\ UNCHANGED <<reqVars, closes, storeVars, findVars, tunVars, fsess>>

NewSFTPFails(f) ==
  /\ fpc[f] = "newSFTP"
  /\ Answered(f)
  /\ UNCHANGED <<reqVars, closes, storeVars, findVars, tunVars>>

\* The slot of vuefinder now holds the SFTP client that f opened on its session.
SetFinder(f) ==
  /\ fpc[f] = "setFinder"
  /\ LET id == finderID[fsess[f]]
     IN  slot' = [i \in DOMAIN slot \union {id} |-> IF i = id THEN fsess[f] ELSE slot[i]]
  /\ fpc' = [fpc EXCEPT ![f] = "markReady"]
  /\ UNCHANGED <<reqVars, closes, storeVars, ready, tunVars, fsess>>

MarkReady(f) ==
  /\ fpc[f] = "markReady"
  /\ ready' = ready \union {finderID[fsess[f]]}
  /\ fpc' = [fpc EXCEPT ![f] = "next"]
  /\ UNCHANGED <<reqVars, closes, storeVars, slot, tunVars, fsess>>

\* ctx.Next: vuefinder serves the request from slot[finderID[fsess[f]]].
FileNext(f) ==
  /\ fpc[f] = "next"
  /\ Answered(f)
  /\ UNCHANGED <<reqVars, closes, storeVars, findVars, tunVars>>

-----------------------------------------------------------------------------
Connect(c) == Refuse(c) \/ OpenSSHSession(c) \/ Put(c)

CloseSession(t) == CloseGet(t) \/ CloseClear(t) \/ CloseDelete(t) \/ CloseClient(t)

Tunnel(t) == \/ \E tok \in Issued : TunnelGet(t, tok)
             \/ NewTerminal(t) \/ NewTerminalFails(t) \/ Leave(t) \/ CloseSession(t)

File(f) == \/ \E tok \in Issued : FileGet(f, tok)
           \/ FileIsReady(f) \/ NewSFTP(f) \/ NewSFTPFails(f) \/ SetFinder(f)
           \/ MarkReady(f) \/ FileNext(f)

Next == \/ \E c \in Requests : Connect(c)
        \/ \E t \in Tunnels : Tunnel(t)
        \/ \E f \in FileRequests : File(f)

SafeSpec == Init /\ [][Next]_vars

\* closeSession waits for nobody and runs to its end.  Nothing makes a browser
\* send a request, a tunnel leave or an SSH server answer.
Fairness == \A t \in Tunnels : WF_vars(CloseSession(t))

Spec == SafeSpec /\ Fairness

-----------------------------------------------------------------------------
(* Properties *)

TypeOK ==
  /\ rq \in [Requests -> RequestStates]
  /\ tries \in [Requests -> 0..(MaxTries - 1)]
  /\ token \in [Requests -> Tokens \union {None}]
  /\ closes \in [Requests -> Nat]
  /\ sessions \in [Tokens -> Requests \union {None}]
  /\ seq \in Nat
  /\ finderID \in [Requests -> Nat]
  /\ ready \subseteq 1..seq
  /\ DOMAIN slot \subseteq 1..seq /\ slot \in [DOMAIN slot -> Requests]
  /\ tpc \in [Tunnels -> TunnelStates]
  /\ ttoken \in [Tunnels -> Tokens \union {None}]
  /\ held \in [Tunnels -> Requests \union {None}]
  /\ fpc \in [FileRequests -> FileStates]
  /\ fsess \in [FileRequests -> Requests \union {None}]

\* Tunnel t took session c out of the store and has not yet closed it.
Closing(t, c) == tpc[t] = "closeClient" /\ held[t] = c

\* However many tunnels of one token end at the same time, the SSH client of a
\* session is closed at most once, and only one of them is about to do it
\* (runtimeSessionStore.Close deletes and closes what it deleted).
CloseOnce ==
  /\ \A c \in Requests : closes[c] <= 1
  /\ \A t, u \in Tunnels, c \in Requests : Closing(t, c) /\ Closing(u, c) => t = u

\* What Get returns is usable: a session found in the store carries the token
\* it was found under and its client has not been closed.
StoredIsOpen ==
  \A tok \in Tokens, c \in Requests :
    sessions[tok] = c => IsOpen(c) /\ token[c] = tok

\* No SSH client is forgotten: one that is open is still being put, or stored
\* under its token, or in the hands of the tunnel that is about to close it.
\* The one exception is the client of a Connect whose Put gave up.
OpenIsAccounted ==
  \A c \in Requests : IsOpen(c) /\ rq[c] # "failed" =>
    \/ rq[c] = "putting"
    \/ sessions[token[c]] = c
    \/ \E t \in Tunnels : Closing(t, c)

\* "The connection override problem is rooted out": a slot of vuefinder only
\* ever holds an SFTP client of the one session that owns its id.
FinderIsolation ==
  \A id \in DOMAIN slot, c \in Requests :
    finderID[c] = id <=> slot[id] = c

\* When withFinder lets a request through to vuefinder, because the finder was
\* ready or because it attached one, also while others attach or a tunnel
\* clears the mark: the slot it will be served from is filled, with an SFTP
\* client of the request's own session.
ServedFromOwnSession ==
  /\ ready \subseteq DOMAIN slot
  /\ \A f \in FileRequests : fpc[f] = "next" =>
       /\ finderID[fsess[f]] \in DOMAIN slot
       /\ slot[finderID[fsess[f]]] = fsess[f]

\* TestCloseSessionCleansRuntimeState: "finder state should be cleared".  When
\* a session is closed and no request is at work on it any more, its finder
\* id is not marked ready.
FinderStateCleared ==
  \A c \in Requests :
    (closes[c] = 1 /\ \A f \in FileRequests : fsess[f] # c) => finderID[c] \notin ready

\* A tunnel that ends takes its session with it: as soon as closeSession has
\* begun for the token of a session, by a tunnel of that session or by a late
\* one that holds a token drawn again, the session gets closed, by this tunnel
\* or by another.
LeaverCloses ==
  \A c \in Requests :
    (\E t \in Tunnels :
        \/ tpc[t] \in {"closeGet", "closeClear", "closeDelete"} /\ sessions[ttoken[t]] = c
        \/ Closing(t, c))
      ~> (closes[c] = 1)

(* The life of the session of c, as the store promises it. *)
Phase(c) ==
  CASE rq[c] \in {"idle", "refused"} -> "absent"
    [] rq[c] = "putting" -> "open"
    [] rq[c] = "failed" -> "abandoned"
    [] rq[c] = "answered" -> IF closes[c] > 0 THEN "closed"
                             ELSE IF sessions[token[c]] = c THEN "live"
                             ELSE "retired"

Lifecycle == INSTANCE SessionLifecycle
  WITH Sessions <- Requests, NoToken <- None,
       phase <- [c \in Requests |-> Phase(c)], name <- token

\* The store, the tunnels and the file requests together implement the
\* life cycle.  That a retired client is closed is part of LeaverCloses.
ImplementsLifecycle == Lifecycle!Spec
=============================================================================
