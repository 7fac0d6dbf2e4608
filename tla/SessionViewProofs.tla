------------------------- MODULE SessionViewProofs -------------------------
(***************************************************************************)
(* Safety of SessionView for any resources and any number of connects.     *)
(***************************************************************************)
EXTENDS SessionView, TLAPS

\* loading is what keeps connects apart; a terminal that is connected has been
\* opened, for a resource.
IInv ==
  /\ TypeOK /\ OneConnectAtATime /\ TerminalIsShown
  /\ \A s \in Sessions : call[s] = "sent" => loading
  /\ socket # None => socket \in opened /\ res \in Resources

-----------------------------------------------------------------------------
LEMMA PreferredIsOption == \A type \in Types : Preferred(type) \in Options
  BY DEF Preferred, Options

LEMMA InitIInv == Init => IInv
  BY PreferredIsOption
     DEF Init, IInv, TypeOK, OneConnectAtATime, TerminalIsShown, Options, Types

\* What rendering does to the WebSockets, given sound new state.
LEMMA RenderSockets ==
  ASSUME IInv, Render, session' \in Sessions \union {None}, res' \in Resources \union {None}
  PROVE  /\ socket' \in Sessions \union {None}
         /\ left' \subseteq opened' /\ opened' \subseteq Sessions
         /\ socket' # None => socket' \in opened' /\ res' \in Resources
         /\ TerminalIsShown'
<1>1. View' # None => View' = <<selected', res', session'>> /\ session' # None
                      /\ res' # None
  BY DEF View
<1>2. CASE View' = View
  <2>1. UNCHANGED <<socket, left, opened>>
    BY <1>2 DEF Render, sockVars
  <2>2. ASSUME socket' # None PROVE View' = <<"shell", res', socket'>> /\ res' = res
    <3>1. View' = <<"shell", res, socket>> /\ socket \in Sessions /\ res \in Resources
      BY <1>2, <2>1, <2>2 DEF IInv, TerminalIsShown, TypeOK
    <3>2. View' # None
      BY <3>1, NoneAssumption
    <3>. QED
      BY <1>1, <2>1, <3>1, <3>2
  <2>. QED
    BY <2>1, <2>2 DEF IInv, TypeOK, TerminalIsShown
<1>3. CASE View' # View
  BY <1>1, <1>3 DEF Render, IInv, TypeOK, TerminalIsShown
<1>. QED
  BY <1>2, <1>3

\* Steps that leave the view alone leave the terminal that is shown.
LEMMA StillShown ==
  ASSUME IInv, UNCHANGED <<mounted, res, connected, selected, session>>,
         socket' \in {socket, None}
  PROVE  TerminalIsShown'
<1>1. View' = View
  BY DEF View
<1>. QED
  BY <1>1 DEF IInv, TerminalIsShown

LEMMA UserKeeps == ASSUME IInv, User PROVE IInv'
<1>1. CASE \E o \in Options : SelectOption(o)
  <2>1. session' \in Sessions \union {None} /\ res' \in Resources \union {None} /\ Render
    BY <1>1 DEF SelectOption, IInv, TypeOK, stateVars
  <2>. QED
    BY <1>1, <2>1, RenderSockets
       DEF SelectOption, IInv, TypeOK, OneConnectAtATime, stateVars, callVars
<1>2. CASE HandleCancel \/ ReopenDialog
  BY <1>2, StillShown DEF HandleCancel, ReopenDialog, IInv, TypeOK, OneConnectAtATime,
     stateVars, callVars, sockVars
<1>3. CASE \E s \in Sessions : Connect(s)
  BY <1>3, StillShown DEF Connect, IInv, TypeOK, OneConnectAtATime,
     stateVars, choiceVars, sockVars
<1>4. CASE Disconnect
  <2>1. session' \in Sessions \union {None} /\ res' \in Resources \union {None} /\ Render
    BY <1>4 DEF Disconnect, IInv, TypeOK, stateVars
  <2>. QED
    BY <1>4, <2>1, RenderSockets, PreferredIsOption
       DEF Disconnect, IInv, TypeOK, OneConnectAtATime, stateVars, callVars
<1>. QED
  BY <1>1, <1>2, <1>3, <1>4 DEF User

LEMMA PageKeeps == ASSUME IInv, Page PROVE IInv'
<1>1. CASE Unmount
  <2>1. session' \in Sessions \union {None} /\ res' \in Resources \union {None} /\ Render
    BY <1>1 DEF Unmount, choiceVars, IInv, TypeOK
  <2>. QED
    BY <1>1, <2>1, RenderSockets
       DEF Unmount, IInv, TypeOK, OneConnectAtATime, choiceVars, callVars
<1>2. CASE Deactivate
  BY <1>2, StillShown DEF Deactivate, IInv, TypeOK, OneConnectAtATime,
     stateVars, choiceVars, callVars
<1>3. ASSUME NEW r \in Resources \union {None}, NEW type \in Types, ChangeProps(r, type)
      PROVE  IInv'
  <2>1. /\ Render /\ res' = r /\ ctype' = type
        /\ UNCHANGED <<mounted, server, callVars>>
        /\ ResetConnectionState \/ UNCHANGED choiceVars
    BY <1>3 DEF ChangeProps, ResetConnectionState
  <2>2. /\ session' \in Sessions \union {None} /\ selected' \in Options \union {None}
        /\ connected' \in BOOLEAN /\ dialog' \in BOOLEAN
    <3>1. CASE ResetConnectionState
      BY <2>1, <3>1, PreferredIsOption DEF ResetConnectionState
    <3>2. CASE UNCHANGED choiceVars
      BY <3>2 DEF choiceVars, IInv, TypeOK
    <3>. QED
      BY <2>1, <3>1, <3>2
  <2>. QED
    BY <2>1, <2>2, RenderSockets DEF IInv, TypeOK, OneConnectAtATime, callVars
<1>. QED
  BY <1>1, <1>2, <1>3 DEF Page

LEMMA AnswerKeeps == ASSUME IInv, Answer PROVE IInv'
<1>1. ASSUME NEW s \in Sessions, Connected(s) PROVE IInv'
  <2>1. session' \in Sessions \union {None} /\ res' \in Resources \union {None} /\ Render
    BY <1>1 DEF Connected, IInv, TypeOK, stateVars
  <2>2. \A t \in Sessions : call'[t] # "sent"
    BY <1>1 DEF Connected, IInv, TypeOK, OneConnectAtATime
  <2>. QED
    BY <1>1, <2>1, <2>2, RenderSockets
       DEF Connected, IInv, TypeOK, OneConnectAtATime, stateVars
<1>2. ASSUME NEW s \in Sessions, ConnectFails(s) PROVE IInv'
  <2>1. \A t \in Sessions : call'[t] # "sent"
    BY <1>2 DEF ConnectFails, IInv, TypeOK, OneConnectAtATime
  <2>. QED
    BY <1>2, <2>1, StillShown DEF ConnectFails, IInv, TypeOK, OneConnectAtATime,
       stateVars, choiceVars, sockVars
<1>. QED
  BY <1>1, <1>2 DEF Answer

LEMMA ServerKeeps == ASSUME IInv, Server PROVE IInv'
<1>1. ASSUME NEW s \in Sessions, ServerConnects(s) PROVE IInv'
  BY <1>1, StillShown DEF ServerConnects, IInv, TypeOK, OneConnectAtATime,
     stateVars, choiceVars, callVars, sockVars
<1>2. ASSUME NEW s \in Sessions, ServerEnds(s) PROVE IInv'
  BY <1>2, StillShown DEF ServerEnds, IInv, TypeOK, OneConnectAtATime,
     stateVars, choiceVars, callVars
<1>. QED
  BY <1>1, <1>2 DEF Server

LEMMA StutterKeeps == ASSUME IInv, UNCHANGED vars PROVE IInv'
  BY StillShown DEF vars, stateVars, choiceVars, callVars, sockVars, IInv, TypeOK,
     OneConnectAtATime

\* IInv holds in every reachable state: it holds at the start and every step of
\* the code keeps it.
THEOREM Invariance == SafeSpec => []IInv
<1>1. IInv /\ [Next]_vars => IInv'
  BY UserKeeps, PageKeeps, AnswerKeeps, ServerKeeps, StutterKeeps DEF Next
<1>. QED
  BY InitIInv, <1>1, PTL DEF SafeSpec

-----------------------------------------------------------------------------
(* The properties *)

\* The types of all variables; only what had a terminal is left by one.
THEOREM TypeCorrectness == Spec => []TypeOK
<1>1. IInv => TypeOK
  BY DEF IInv
<1>. QED
  BY Invariance, <1>1, PTL DEF Spec

\* connect: however the view is reset in between, no second request is sent
\* before the first is answered.
THEOREM ConnectsDoNotOverlap == Spec => []OneConnectAtATime
<1>1. IInv => OneConnectAtATime
  BY DEF IInv
<1>. QED
  BY Invariance, <1>1, PTL DEF Spec

\* The key of the terminal view: the WebSocket that is open is always that of
\* the session the page shows.
THEOREM ShownTerminal == Spec => []TerminalIsShown
<1>1. IInv => TerminalIsShown
  BY DEF IInv
<1>. QED
  BY Invariance, <1>1, PTL DEF Spec
-----------------------------------------------------------------------------
(* What TerminalEnds waits for *)

\* No WebSocket is forgotten: a session that ever had a terminal still has it,
\* or was left by it (and the server has yet to notice), or has been closed on
\* the server.  TerminalEnds adds that the server does notice.
TerminalsAccounted ==
  \A s \in opened : socket = s \/ s \in left \/ server[s] = "closed"

\* Whatever rendering closes goes to left, whatever it opens to opened.
LEMMA RenderAccounts ==
  ASSUME IInv, TerminalsAccounted, Render, server' = server,
         session' \in Sessions \union {None}
  PROVE  TerminalsAccounted'
<1>1. CASE View' = View
  BY <1>1 DEF Render, sockVars, TerminalsAccounted
<1>2. CASE View' # View
  <2>1. left' = left \union ({socket} \ {None})
    BY <1>2 DEF Render
  <2>2. opened' = opened \/ (opened' = opened \union {session'} /\ socket' = session')
    BY <1>2 DEF Render
  <2>3. None \notin opened
    BY NoneAssumption DEF IInv, TypeOK
  <2>. QED
    BY <2>1, <2>2, <2>3 DEF TerminalsAccounted
<1>. QED
  BY <1>1, <1>2

LEMMA StepAccounts ==
  ASSUME IInv, TerminalsAccounted, [Next]_vars, IInv'
  PROVE  TerminalsAccounted'
<1>. USE DEF stateVars, choiceVars, callVars, sockVars
<1>1. session' \in Sessions \union {None}
  BY DEF IInv, TypeOK
<1>2. CASE User
  BY <1>1, <1>2, RenderAccounts
     DEF User, SelectOption, HandleCancel, ReopenDialog, Connect, Disconnect, TerminalsAccounted
<1>3. CASE Page
  <2>1. CASE Deactivate
    BY <2>1 DEF Deactivate, TerminalsAccounted
  <2>2. CASE ~Deactivate
    BY <1>1, <1>3, <2>2, RenderAccounts DEF Page, Unmount, ChangeProps
  <2>. QED
    BY <2>1, <2>2
<1>4. CASE Answer
  BY <1>1, <1>4, RenderAccounts DEF Answer, Connected, ConnectFails, TerminalsAccounted
<1>5. ASSUME NEW s \in Sessions, ServerConnects(s) PROVE TerminalsAccounted'
  <2>1. \A t \in Sessions : server[t] = "closed" => server'[t] = "closed"
    BY <1>5 DEF ServerConnects, IInv, TypeOK
  <2>. QED
    BY <1>5, <2>1 DEF ServerConnects, TerminalsAccounted, IInv, TypeOK
<1>6. ASSUME NEW s \in Sessions, ServerEnds(s) PROVE TerminalsAccounted'
  <2>1. \A t \in Sessions : server'[t] = IF t = s THEN "closed" ELSE server[t]
    BY <1>6 DEF ServerEnds, IInv, TypeOK
  <2>. QED
    BY <1>6, <2>1 DEF ServerEnds, TerminalsAccounted, IInv, TypeOK
<1>7. CASE UNCHANGED vars
  BY <1>7 DEF vars, TerminalsAccounted
<1>. QED
  BY <1>2, <1>3, <1>4, <1>5, <1>6, <1>7 DEF Next, Server

\* cleanup and initXterm: no change of view, option or resource drops the
\* WebSocket of a terminal without closing it.
THEOREM NoTerminalIsLost == Spec => []TerminalsAccounted
<1>1. Init => TerminalsAccounted
  BY DEF Init, TerminalsAccounted
<1>. QED
  BY Invariance, StepAccounts, <1>1, PTL DEF Spec, SafeSpec
=============================================================================
