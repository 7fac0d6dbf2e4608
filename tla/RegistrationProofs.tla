------------------------- MODULE RegistrationProofs -------------------------
(***************************************************************************)
(* The start of the plugin for any number of retries: no early request is  *)
(* turned away, and as long as the stores of err do not meet, each         *)
(* goroutine reports its own failure.                                      *)
(***************************************************************************)
EXTENDS Registration, TLAPS

Storing == {"storeData", "check"}

\* No request is turned away before Run has stopped listening.
NotRefused == asked = "refused" => pc \notin {"deps", "listen", "spawn", "running"}

\* The plugin listens before it registers, and only Run closes the listener.
Listening ==
  /\ pc \in {"spawn", "running"} => listener = "open"
  /\ regpc # "none" => pc \notin {"deps", "listen", "spawn"}
  /\ rpc # "none" => regpc # "none"
  /\ known # {} => regpc # "none"
  /\ NotRefused

\* Between its store and its check, err is what a goroutine put there.
OwnStores ==
  /\ runResult \in {"nil", "run"} /\ regResult \in {"nil", "reg"}
  /\ pc # "over" => outcome = "none"
  /\ ~raced =>
       /\ ~(pc \in Storing /\ regpc \in Storing)
       /\ pc \in Storing => err.type = runResult
       /\ regpc \in Storing => err.type = regResult
       /\ regpc = "check" => err.data = regResult
       /\ regpc = "done" => (logged <=> regResult = "reg")

ErrShape == err \in [{"type", "data"} -> {"nil", "run", "reg"}]

RegInv == Listening /\ ErrShape /\ OwnStores /\ MessagesAreTheirOwn

-----------------------------------------------------------------------------

LEMMA InitRegInv == Init => RegInv
<1>. SUFFICES ASSUME Init PROVE RegInv
  OBVIOUS
<1>1. Listening
  BY DEF Init, Listening, NotRefused
<1>2. OwnStores /\ MessagesAreTheirOwn
  BY DEF Init, OwnStores, MessagesAreTheirOwn, Storing
<1>3. ErrShape
  BY DEF Init, ErrShape
<1>. QED BY <1>1, <1>2, <1>3 DEF RegInv

\* The listener and what is announced.
LEMMA ListeningStep == ASSUME Listening, [Next]_vars PROVE Listening'
<1>. USE DEF Listening, NotRefused, vars, config, mainVars, result, regVars
<1>1. CASE Main
  BY <1>1 DEF Main, InitDeps, Abort, InitListener, SpawnRegister, RunStoresType,
     RunStoresData, RunChecked, Goto, Store
<1>2. CASE RunReturns
  BY <1>2 DEF RunReturns, Goto
<1>3. CASE Register
  BY <1>3 DEF Register, CallRegister, Tick, RegStoresType, RegStoresData, RegChecked,
     RegGoto, Store
<1>4. CASE Answer
  BY <1>4 DEF Answer, RegisterAnswered, RegisterFails, RegGoto
<1>5. CASE LogCrashes
  BY <1>5 DEF LogCrashes
<1>6. CASE MainSiteRegisters
  BY <1>6 DEF MainSiteRegisters
<1>7. CASE MainSiteAsks
  BY <1>7 DEF MainSiteAsks
<1>8. CASE Serve
  BY <1>8 DEF Serve
<1>9. CASE UNCHANGED vars
  BY <1>9
<1>. QED BY <1>1, <1>2, <1>3, <1>4, <1>5, <1>6, <1>7, <1>8, <1>9 DEF Next

\* What one of the two goroutines does to err, to its report and to the other's.
LEMMA OwnStoresStep ==
  ASSUME ErrShape, OwnStores, MessagesAreTheirOwn, [Next]_vars
  PROVE ErrShape' /\ OwnStores' /\ MessagesAreTheirOwn'
<1>. USE DEF ErrShape, OwnStores, MessagesAreTheirOwn, Storing
<1>. USE DEF vars, config, mainVars, result, regVars
<1>1. CASE InitDeps \/ Abort \/ InitListener \/ SpawnRegister \/ RunReturns
  BY <1>1 DEF InitDeps, Abort, InitListener, SpawnRegister, RunReturns, Goto
<1>2. CASE RunStoresType
  BY <1>2 DEF RunStoresType, Goto, Store
<1>3. CASE RunStoresData
  BY <1>3 DEF RunStoresData, Goto, Store
<1>4. CASE RunChecked
  BY <1>4 DEF RunChecked, Goto
<1>5. CASE CallRegister \/ Tick \/ Answer \/ MainSiteRegisters \/ MainSiteAsks \/ Serve
  BY <1>5 DEF CallRegister, Tick, Answer, RegisterAnswered, RegisterFails,
     MainSiteRegisters, MainSiteAsks, Serve, RegGoto
<1>6. CASE RegStoresType
  BY <1>6 DEF RegStoresType, RegGoto, Store
<1>7. CASE RegStoresData
  BY <1>7 DEF RegStoresData, RegGoto, Store
<1>8. CASE RegChecked
  BY <1>8 DEF RegChecked, RegGoto
<1>9. CASE LogCrashes
  BY <1>9 DEF LogCrashes
<1>10. CASE UNCHANGED vars
  BY <1>10
<1>. QED BY <1>1, <1>2, <1>3, <1>4, <1>5, <1>6, <1>7, <1>8, <1>9, <1>10
         DEF Next, Main, Register

LEMMA NextRegInv == RegInv /\ [Next]_vars => RegInv'
<1>. SUFFICES ASSUME RegInv, [Next]_vars PROVE RegInv'
  OBVIOUS
<1>1. Listening'
  BY ListeningStep DEF RegInv
<1>2. ErrShape' /\ OwnStores' /\ MessagesAreTheirOwn'
  BY OwnStoresStep DEF RegInv
<1>. QED BY <1>1, <1>2 DEF RegInv

LEMMA InductiveRegInv == Spec => []RegInv
<1>. QED BY InitRegInv, NextRegInv, PTL DEF Spec, SafeSpec

-----------------------------------------------------------------------------

\* The main site may forward a request as soon as it has handled the registration,
\* which main.go begins before Run: a request that gets to the plugin finds the
\* listener open (InitListener), as long as Run has not returned.
THEOREM EarlyRequestsArrive == Spec => []NotRefused
<1>1. RegInv => NotRefused
  BY DEF RegInv, Listening
<1>. QED BY <1>1, InductiveRegInv, PTL

\* As long as their stores of err do not meet, Run's failure and that of the
\* registration are each reported where they happened, for any number of retries.
THEOREM OwnMessages == Spec => []MessagesAreTheirOwn
<1>1. RegInv => MessagesAreTheirOwn
  BY DEF RegInv
<1>. QED BY <1>1, InductiveRegInv, PTL
=============================================================================
