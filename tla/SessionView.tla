---------------------------- MODULE SessionView ----------------------------
(***************************************************************************)
(* The browser's side of a session: SshIndex.vue, which connects to the    *)
(* resource the host page has chosen and shows the session, and xterm.vue, *)
(* whose WebSocket keeps the session of a terminal alive on the server.    *)
(*                                                                         *)
(* JavaScript runs one handler at a time, and Vue runs its watchers and    *)
(* renders before the next one: an action is a handler together with the   *)
(* rendering it causes.  Between the request of connect and its answer the *)
(* user and the host page go on.  The server is reduced to what            *)
(* SshSessions does with a session: it is closed when a terminal tunnel of *)
(* it ends, and only then.                                                 *)
(***************************************************************************)
EXTENDS Naturals, FiniteSets

CONSTANTS Resources,   \* hosts the page may choose
          Sessions,    \* calls of connect and the sessions they may yield
          None         \* nothing chosen, nothing shown

ASSUME NoneAssumption ==
  None \notin Resources \union Sessions \union ({"shell", "files"} \X Resources \X Sessions)

VARIABLES
  mounted,    \* the component is on the page
  res,        \* props.resourceId
  ctype,      \* props.connectionType; "other" for an unknown or disabled one
  selected,   \* selectedOption
  connected,  \* isConnected
  loading,    \* a connect is on its way
  session,    \* sessionId
  dialog,     \* dialogVisible
  call,       \* call[s]: progress of the request that may yield s
  of,         \* of[s]: the resource it was made for
  server,     \* server[s]: s on the server
  socket,     \* the session the mounted terminal is connected to
  left,       \* sessions with a terminal that the browser disconnected
  opened      \* sessions that ever had a terminal

stateVars == <<mounted, res, ctype>>
choiceVars == <<selected, connected, session, dialog>>
callVars == <<loading, call, of>>
sockVars == <<socket, left, opened>>
vars == <<stateVars, choiceVars, callVars, server, sockVars>>

Options == {"shell", "files"}       \* the others are disabled
Types == Options \union {"other"}

\* getPreferredOption
Preferred(type) == IF type \in Options THEN type ELSE "shell"

\* The view that is rendered, with what its key is made of.
View == IF mounted /\ res # None /\ connected /\ selected # None /\ session # None
        THEN <<selected, res, session>> ELSE None

Init ==
  /\ mounted = TRUE
  /\ res \in Resources \union {None} /\ ctype \in Types
  /\ selected = IF res = None THEN None ELSE Preferred(ctype)
  /\ dialog = (res # None)
  /\ connected = FALSE /\ loading = FALSE /\ session = None
  /\ call = [s \in Sessions |-> "none"]
  /\ of = [s \in Sessions |-> None]
  /\ server = [s \in Sessions |-> "none"]
  /\ socket = None /\ left = {} /\ opened = {}

-----------------------------------------------------------------------------
\* Mutant of Render: a view that goes is hidden (v-show), not unmounted.
RenderHides ==
  IF View' = View \/ View' = None THEN UNCHANGED sockVars
  ELSE LET terminal == View' # None /\ selected' = "shell"
       IN  /\ left' = left \union ({socket} \ {None})
           /\ socket' = IF terminal THEN session' ELSE None
           /\ opened' = IF terminal THEN opened \union {session'} ELSE opened

\* A view whose key changes is unmounted, which closes its WebSocket (cleanup),
\* and mounted anew; a terminal then opens one for its session (initXterm).
Render ==
  IF View' = View THEN UNCHANGED sockVars
  ELSE LET terminal == View' # None /\ selected' = "shell"
       IN  /\ left' = left \union ({socket} \ {None})
           /\ socket' = IF terminal THEN session' ELSE None
           /\ opened' = IF terminal THEN opened \union {session'} ELSE opened

\* Mutant of Deactivate: the WebSocket is dropped without closing it.
DeactivateDrops ==
  /\ socket # None
  /\ socket' = None
  /\ UNCHANGED <<stateVars, choiceVars, callVars, server, left, opened>>

\* KeepAlive takes the terminal off the page: cleanup, and no new terminal.
Deactivate ==
  /\ socket # None
  /\ left' = left \union {socket} /\ socket' = None
  /\ UNCHANGED <<stateVars, choiceVars, callVars, server, opened>>

Unmount ==
  /\ mounted /\ mounted' = FALSE
  /\ UNCHANGED <<res, ctype, choiceVars, callVars, server>>
  /\ Render

-----------------------------------------------------------------------------
(* What the user does *)

\* Any option of an open dialog, also while a connect is on its way.
SelectOption(o) ==
  /\ mounted /\ dialog
  /\ selected' = o
  /\ UNCHANGED <<stateVars, connected, session, dialog, callVars, server>>
  /\ Render

HandleCancel ==
  /\ mounted /\ dialog
  /\ dialog' = FALSE
  /\ UNCHANGED <<stateVars, selected, connected, session, callVars, server, sockVars>>

\* The button of the empty state.
ReopenDialog ==
  /\ mounted /\ ~dialog /\ View = None /\ res # None
  /\ dialog' = TRUE
  /\ UNCHANGED <<stateVars, selected, connected, session, callVars, server, sockVars>>

\* connect up to its first await; the button is disabled while one is loading.
Connect(s) ==
  /\ mounted /\ dialog /\ selected # None /\ res # None /\ ~loading
  /\ call[s] = "none"
  /\ loading' = TRUE
  /\ call' = [call EXCEPT ![s] = "sent"]
  /\ of' = [of EXCEPT ![s] = res]
  /\ UNCHANGED <<stateVars, choiceVars, server, sockVars>>

\* The answer arrives: connect goes on where it waited, whatever happened since.
Connected(s) ==
  /\ call[s] = "sent" /\ server[s] \in {"live", "closed"}
  /\ call' = [call EXCEPT ![s] = "answered"]
  /\ session' = s /\ connected' = TRUE /\ dialog' = FALSE
  /\ loading' = FALSE
  /\ UNCHANGED <<stateVars, selected, of, server>>
  /\ Render

\* The server refuses, or its answer is lost.
ConnectFails(s) ==
  /\ call[s] = "sent"
  /\ call' = [call EXCEPT ![s] = "failed"]
  /\ loading' = FALSE
  /\ UNCHANGED <<stateVars, choiceVars, of, server, sockVars>>

Disconnect ==
  /\ mounted /\ connected
  /\ connected' = FALSE /\ session' = None
  /\ selected' = Preferred(ctype) /\ dialog' = TRUE
  /\ UNCHANGED <<stateVars, callVars, server>>
  /\ Render

-----------------------------------------------------------------------------
(* What the host page does *)

\* Mutant of ResetConnectionState: a connect on its way no longer counts.
ResetForgetsCall ==
  /\ connected' = FALSE /\ session' = None /\ loading' = FALSE
  /\ selected' = Preferred(ctype') /\ dialog' = (res' # None)
  /\ UNCHANGED <<call, of>>

ResetConnectionState ==
  /\ connected' = FALSE /\ session' = None
  /\ selected' = Preferred(ctype') /\ dialog' = (res' # None)
  /\ UNCHANGED callVars

\* Another resource, another type or both; the watchers compare old and new.
ChangeProps(r, type) ==
  /\ mounted /\ <<r, type>> # <<res, ctype>>
  /\ res' = r /\ ctype' = type
  /\ IF (r # None /\ res # None /\ r # res) \/ (type # ctype /\ r # None)
     THEN ResetConnectionState
     ELSE UNCHANGED <<choiceVars, callVars>>
  /\ UNCHANGED <<mounted, server>>
  /\ Render

-----------------------------------------------------------------------------
(* The server *)

ServerConnects(s) ==
  /\ call[s] # "none" /\ server[s] = "none"
  /\ server' = [server EXCEPT ![s] = "live"]
  /\ UNCHANGED <<stateVars, choiceVars, callVars, sockVars>>

\* A tunnel of s ends, because the browser left it or by itself, and takes s
\* with it; a tunnel of a closed session is refused.
ServerEnds(s) ==
  /\ s \in left \union {socket}
  /\ server' = [server EXCEPT ![s] = "closed"]
  /\ left' = left \ {s}
  /\ socket' = IF socket = s THEN None ELSE socket
  /\ UNCHANGED <<stateVars, choiceVars, callVars, opened>>

User == (\E o \in Options : SelectOption(o)) \/ HandleCancel \/ ReopenDialog
        \/ (\E s \in Sessions : Connect(s)) \/ Disconnect
Page == Unmount \/ Deactivate
        \/ (\E r \in Resources \union {None}, type \in Types : ChangeProps(r, type))
Answer == \E s \in Sessions : Connected(s) \/ ConnectFails(s)
Server == \E s \in Sessions : ServerConnects(s) \/ ServerEnds(s)

Next == User \/ Page \/ Answer \/ Server

SafeSpec == Init /\ [][Next]_vars

\* The server notices that a browser left (SshSessions, TerminalSession).
Fairness == \A s \in Sessions : WF_vars(s \in left /\ ServerEnds(s))

Spec == SafeSpec /\ Fairness

-----------------------------------------------------------------------------
(* Properties *)

TypeOK ==
  /\ mounted \in BOOLEAN /\ res \in Resources \union {None} /\ ctype \in Types
  /\ selected \in Options \union {None} /\ connected \in BOOLEAN /\ loading \in BOOLEAN
  /\ session \in Sessions \union {None} /\ dialog \in BOOLEAN
  /\ call \in [Sessions -> {"none", "sent", "answered", "failed"}]
  /\ of \in [Sessions -> Resources \union {None}]
  /\ server \in [Sessions -> {"none", "live", "closed"}]
  /\ socket \in Sessions \union {None}
  /\ left \subseteq opened /\ opened \subseteq Sessions

\* Answers cannot overtake each other: whatever the user and the page do while
\* a connect is on its way, a second one is not sent before it is answered.
OneConnectAtATime ==
  \A s, t \in Sessions : call[s] = "sent" /\ call[t] = "sent" => s = t

\* The terminal on the screen talks to the session the page shows, never to
\* one that was replaced, disconnected or reset.
TerminalIsShown ==
  socket # None => View = <<"shell", res, socket>>

\* A terminal that is no longer connected ends its session on the server: no
\* change of view, resource or option loses its WebSocket.
TerminalEnds ==
  \A s \in Sessions : (s \in opened /\ socket # s) ~> (server[s] = "closed" \/ socket = s)

\* "Connected to ..., resource ID {{ resourceId }}" (status of SshIndex.vue):
\* the session shown was made for the resource it is shown with.
ShownIsOfResource == View # None => of[session] = res
=============================================================================
