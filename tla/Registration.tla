---------------------------- MODULE Registration ----------------------------
(***************************************************************************)
(* From main to the end of the plugin: InitApp with its configuration and  *)
(* its listener, the goroutine that registers the plugin with the main     *)
(* site and retries, ego's Run, and the requests of a main site that has   *)
(* heard of the plugin before the server runs.                             *)
(*                                                                         *)
(* The variable err of run is assigned by two goroutines without a lock.   *)
(* An interface value is two words, its type and its data, which are       *)
(* stored one after the other; a comparison with nil reads the type.       *)
(***************************************************************************)
EXTENDS Naturals

CONSTANTS MaxRetries,   \* of the strategy of Register: 3 in the code
          Addrs         \* addresses the configuration may hold

ASSUME RetriesAssumption == MaxRetries \in Nat
\* An address without a port is malformed, but the empty address is not: it
\* listens on all interfaces, at a port of the kernel's choice like port 0.
Hosts == {"any", "own", "own6", "malformed", "empty"}

ASSUME AddrsAssumption == Addrs \subseteq [host : Hosts, port : Nat]

VARIABLES
  addr, upstream,  \* Config, as LoadConfig returns it
  pc,              \* the main goroutine
  listener,        \* "none", "open" or "closed"
  regpc,           \* the registering goroutine
  tries,           \* its calls of RegisterPlugin
  rpc,             \* the call on its way: "none", "sent" or "handled"
  known,           \* the upstreams the main site has of this plugin
  asked,           \* a request of the main site to one of them
  err,             \* the two words of run's err
  regResult, runResult,
  logged,          \* whether a failed registration was logged
  raced,           \* history: one stored err between the other's store and check
  outcome          \* how the process ended

config == <<addr, upstream>>
mainVars == <<pc, listener, runResult, outcome>>
result == <<runResult, outcome>>
regVars == <<regpc, tries, rpc, known, regResult, logged>>
vars == <<config, mainVars, regVars, asked, err, raced>>

-----------------------------------------------------------------------------
(* Configuration *)

\* DefaultUpstream: what listens on all interfaces is reached on the loopback.
\* The brackets of an IPv6 address are lost, and with them the host of the URL.
DefaultUpstream(a) ==
  IF a.host \in {"malformed", "empty"} THEN [host |-> "loopback", port |-> 18080]
  ELSE [host |-> IF a.host = "any" THEN "loopback"
                 ELSE IF a.host = "own6" THEN "unbracketed" ELSE a.host,
        port |-> a.port]

\* LoadConfig, with or without an upstream in the configuration.
LoadConfig(a, given) ==
  IF given THEN [host |-> "given", port |-> 0] ELSE DefaultUpstream(a)

Init ==
  /\ addr \in Addrs
  /\ \E given \in BOOLEAN : upstream = LoadConfig(addr, given)
  /\ pc = "deps" /\ listener = "none"
  /\ regpc = "none" /\ tries = 0 /\ rpc = "none" /\ known = {} /\ asked = "no"
  /\ err = [type |-> "nil", data |-> "nil"]
  /\ regResult = "nil" /\ runResult = "nil"
  /\ logged = FALSE /\ raced = FALSE /\ outcome = "none"

-----------------------------------------------------------------------------
(* The main goroutine *)

Goto(from, to) == pc = from /\ pc' = to

\* One word of err is stored, while the other goroutine is at otherPc.
Store(word, value, otherPc) ==
  /\ err' = [err EXCEPT ![word] = value]
  /\ raced' = (raced \/ otherPc \in {"storeData", "check"})

\* etcd, the registry and the gRPC client; each panics when it fails.
InitDeps ==
  /\ Goto("deps", "listen")
  /\ UNCHANGED <<config, listener, result, regVars, asked, err, raced>>

Abort ==
  /\ pc \in {"deps", "listen"}
  /\ pc' = "over" /\ outcome' = "aborted"
  /\ UNCHANGED <<config, listener, runResult, regVars, asked, err, raced>>

\* Mutant of InitListener: the server opens its listener when it is run.
InitListenerLater ==
  /\ Goto("listen", "spawn")
  /\ addr.host # "malformed"
  /\ UNCHANGED <<config, listener, result, regVars, asked, err, raced>>

InitListener ==
  /\ Goto("listen", "spawn")
  /\ addr.host # "malformed"
  /\ listener' = "open"
  /\ UNCHANGED <<config, result, regVars, asked, err, raced>>

\* NewPluginApp builds the engine; then run starts the registration and Run.
SpawnRegister ==
  /\ Goto("spawn", "running")
  /\ regpc' = "call"
  /\ UNCHANGED <<config, listener, result, tries, rpc, known, regResult, logged>>
  /\ UNCHANGED <<asked, err, raced>>

\* Run returns after a signal, with nil, or when the server or its stopping fails.
RunReturns ==
  /\ Goto("running", "storeType")
  /\ listener' = "closed"
  /\ runResult' \in {"nil", "run"}
  /\ UNCHANGED <<config, outcome, regVars, asked, err, raced>>

\* Mutant of RunStoresType: err is only assigned when Run failed.
RunStoresFailure ==
  /\ Goto("storeType", "storeData")
  /\ Store("type", IF runResult = "nil" THEN err.type ELSE runResult, regpc)
  /\ UNCHANGED <<config, listener, result, regVars, asked>>

RunStoresType ==
  /\ Goto("storeType", "storeData")
  /\ Store("type", runResult, regpc)
  /\ UNCHANGED <<config, listener, result, regVars, asked>>

RunStoresData ==
  /\ Goto("storeData", "check")
  /\ Store("data", runResult, regpc)
  /\ UNCHANGED <<config, listener, result, regVars, asked>>

\* "run ssh plugin app": elog.Panic, or the end of main.
RunChecked ==
  /\ Goto("check", "over")
  /\ outcome' = IF err.type # "nil" THEN "panicked" ELSE "returned"
  /\ UNCHANGED <<config, listener, runResult, regVars, asked, err, raced>>

Main ==
  \/ InitDeps \/ Abort \/ InitListener \/ SpawnRegister
  \/ RunStoresType \/ RunStoresData \/ RunChecked

-----------------------------------------------------------------------------
(* The registering goroutine, which ends with the process *)

RegGoto(from, to) == pc # "over" /\ regpc = from /\ regpc' = to

\* Upstream is never empty here: LoadConfig has seen to that.
CallRegister ==
  /\ RegGoto("call", "wait")
  /\ tries' = tries + 1 /\ rpc' = "sent"
  /\ UNCHANGED <<config, mainVars, known, regResult, logged, asked, err, raced>>

RegisterAnswered ==
  /\ rpc = "handled"
  /\ RegGoto("wait", "storeType")
  /\ rpc' = "none" /\ regResult' = "nil"
  /\ UNCHANGED <<config, mainVars, tries, known, logged, asked, err, raced>>

\* Also when the main site has handled the call and its answer was lost.
RegisterFails ==
  /\ IF tries <= MaxRetries THEN RegGoto("wait", "tick") /\ UNCHANGED regResult
     ELSE RegGoto("wait", "storeType") /\ regResult' = "reg"
  /\ rpc' = "none"
  /\ UNCHANGED <<config, mainVars, tries, known, logged, asked, err, raced>>

\* Mutant of Tick: a new strategy for every attempt.
TickAnew ==
  /\ RegGoto("tick", "call")
  /\ tries' = 0
  /\ UNCHANGED <<config, mainVars, rpc, known, regResult, logged, asked, err, raced>>

\* The fixed interval of the strategy is over.
Tick ==
  /\ RegGoto("tick", "call")
  /\ UNCHANGED <<config, mainVars, tries, rpc, known, regResult, logged, asked, err, raced>>

RegStoresType ==
  /\ RegGoto("storeType", "storeData")
  /\ Store("type", regResult, pc)
  /\ UNCHANGED <<config, mainVars, tries, rpc, known, regResult, logged, asked>>

RegStoresData ==
  /\ RegGoto("storeData", "check")
  /\ Store("data", regResult, pc)
  /\ UNCHANGED <<config, mainVars, tries, rpc, known, regResult, logged, asked>>

RegChecked ==
  /\ RegGoto("check", "done")
  /\ logged' = (err.type # "nil")
  /\ UNCHANGED <<config, mainVars, tries, rpc, known, regResult, asked, err, raced>>

\* Logging an err of one type with the data of another may bring the process down.
LogCrashes ==
  /\ regpc = "check" /\ pc # "over"
  /\ err.type # "nil" /\ err.data # err.type
  /\ pc' = "over" /\ outcome' = "crashed"
  /\ UNCHANGED <<config, listener, runResult, regVars, asked, err, raced>>

Register ==
  CallRegister \/ Tick \/ RegStoresType \/ RegStoresData \/ RegChecked

Answer == RegisterAnswered \/ RegisterFails

-----------------------------------------------------------------------------
(* The main site *)

MainSiteRegisters ==
  /\ rpc = "sent"
  /\ rpc' = "handled"
  /\ known' = {upstream}
  /\ UNCHANGED <<config, mainVars, regpc, tries, regResult, logged, asked, err, raced>>

\* Requests to u come in at the listener, which is not so for an IPv6 address, an
\* empty one and port 0, unless the operator gave the upstream.
Reaches(u) ==
  \/ u.host = "given"
  \/ /\ u.port = addr.port /\ addr.port # 0
     /\ u.host = IF addr.host = "any" THEN "loopback" ELSE "own"
     /\ addr.host \in {"any", "own"}

\* The kernel completes the connection and queues it as soon as the plugin listens,
\* whether or not it serves.
MainSiteAsks ==
  /\ asked # "queued" /\ pc # "over"
  /\ \E u \in known : Reaches(u)
  /\ asked' = IF listener = "open" THEN "queued" ELSE "refused"
  /\ UNCHANGED <<config, mainVars, regVars, err, raced>>

\* Run serves what the listener has queued.
Serve ==
  /\ pc = "running" /\ asked = "queued"
  /\ asked' = "served"
  /\ UNCHANGED <<config, mainVars, regVars, err, raced>>

Next ==
  \/ Main \/ RunReturns \/ Register \/ Answer \/ LogCrashes
  \/ MainSiteRegisters \/ MainSiteAsks \/ Serve

SafeSpec == Init /\ [][Next]_vars

\* Both goroutines run, and Run accepts what is queued until it returns.  Nothing
\* makes the main site answer or Run return.
Fairness == WF_vars(Main) /\ WF_vars(Register) /\ WF_vars(Serve)

Spec == SafeSpec /\ Fairness

-----------------------------------------------------------------------------
(* Properties *)

\* The plugin is registered before the server runs (the comment in run has it the
\* other way round), and the main site may forward a request at once.  No such
\* request is turned away: InitListener listens before anything is announced, and
\* what is queued is served by Run, if Run does not fail first.
EarlyRequestsServed ==
  (asked # "no") ~> (asked = "served" \/ pc \notin {"spawn", "running"})

\* err is shared, but as long as neither goroutine stores it between the
\* other's store and check, the process panics only for a failed Run ("run ssh
\* plugin app"), returns only after a clean one, and a failed registration is
\* logged exactly when it failed.
MessagesAreTheirOwn ==
  ~raced =>
    /\ outcome = "panicked" => runResult = "run"
    /\ outcome = "returned" => runResult = "nil"
    /\ regpc = "done" => (logged <=> regResult = "reg")
    /\ outcome # "crashed"

\* "Retries three times" (comment of Register): when every call is answered or
\* fails, the registration comes to an end.
RegistrationSettles ==
  ([]<>(regpc # "wait")) => <>(regpc = "done" \/ pc = "over")
=============================================================================
