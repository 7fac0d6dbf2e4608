# A TLA+ verification of ecmdb-plugins

This directory holds TLA+ models of the SSH plugin of ecmdb-plugins and of its
shared packages, the TLC configurations that check them on small instances, and
theorems about them that TLAPS proves for every value of the constants. The
models are translated from the code; `PROJECT.json` maps every definition to the
lines it stands for.

    tlc -config SshSessions.cfg MCSshSessions    # one run
    tlapm SshSessionsProofs.tla                  # the proofs of one module

## 1. The system

ecmdb-plugins is a Go service that gives the ecmdb web interface terminals and
file managers on remote hosts. A browser asks the plugin to *connect* to an
endpoint; the plugin dials the host, through a chain of gateways if there is
one, keeps the SSH client in memory under a random token and answers with the
token. The browser then opens a WebSocket with the token for the terminal, and
sends file requests with the same token. Nothing is persisted.

    browser --POST connect--> openAndStoreSession --> sshx.Connect (ChainDial)
                                     |
                                     v Put
                           runtimeSessionStore  <--- Get / Close ---+
                              ^ Get                                  |
    browser --file request-- withFinder --> finderRuntime --> vuefinder (SFTP)
                                                                     |
    browser ==WebSocket== wsSSHSession (reader) --- closeSession ----+
                 ^              |
                 | writeMu      v Stop, Write
               send <-dataChan- output <-- stdout of the shell

### Inventory

| component | state | operations | what is hard | correct when |
|---|---|---|---|---|
| Session store, tunnels, file requests (`plugins/ssh/internal/web`) | `sessions`, `seq`, finder ids, ready marks, vuefinder's slots, the SSH clients | `Put`, `Get`, `Close`, `openAndStoreSession`, `SshSessionTunnel`, `closeSession`, `withFinder`, `attach` | every request is a goroutine; a session looked up before a lock is released is used after it was closed | a client is closed once, never while it can be looked up, and never forgotten; file requests only see their own session |
| Terminal session (`internal/ssh/terminal_session.go`, read loop in `web/handler.go`) | `dataChan`, `buf`, `writeMu`, `stopOnce`, deadlines of the WebSocket | `output`, `send`, `flush`, `heartbeat`, `sendMessage`, `sendControl`, `Stop`, the read loop | three goroutines, two blocking resources, four ways to end, a browser that stops reading | output arrives in order without loss, one writer at a time, all goroutines end after a `Stop` and when either end is lost |
| UTF-8 chunking (same file) | the leftover of the last read | `output`, `splitCompleteUTF8` | reads end inside characters; invalid bytes | no byte is lost, no character is cut, the leftover stays short |
| SSH chain dial (`pkg/term/sshx`, `internal/ssh/connector.go`) | connections and clients per hop, the result channel | `Connect`, `dialWithContext`, `ConnectToNextJumpHost`, `Close` | timeout against a handshake that finishes late, failure half way through the chain | the chain never breaks while it is extended, nothing of the hop it stopped at is left, the timeout is honoured |
| Gateway chain (`internal/define/definition.go`) | none | sorting gateways by weight, the endpoint of each hop with its way to authenticate | comparison by subtraction, defaults per hop | every gateway is gone through once, in order of weight, and the session ends at the host |
| Session pool and connector registry (`pkg/term`) | map of sessions by id | `SetSession`, `GetSession`, `CloseSession`, `Connect` | replacing a session that is in use | no session is lost when its id is taken again |
| Guacamole tunnel (`pkg/term/guacx`) | connection to guacd, `Config`, buffered reader, context of the handler | `NewTunnel`, `Handshake`, `Start`, `Read`, `Stop`, the instruction codec | a handshake failing half way, parameters told apart by their place alone, a delimiter that also occurs inside an instruction, `Stop` against a forwarding goroutine | a handshake ends with what was asked for or with nothing left open; instructions are forwarded whole, and not after `Stop` |
| Plugin bootstrap (`pkg/bootstrap`, `plugins/ssh/cmd`, `ioc`) | `Config`, the listener, `err` of `run`, the retries | `LoadConfig`, `DefaultUpstream`, `InitListener`, `InitApp`, `Register`, `run` | registration concurrent with the server, lost answers, a shared variable without a lock | what the main site forwards once it knows the plugin is served; each failure is reported as what it is; the retries end |
| Front end: connection state (`frontend/src/SshIndex.vue`, `xterm.vue`) | chosen resource, protocol, session token, WebSocket | `connect`, `disconnect`, reconnect | answers of requests made for an earlier choice | the token shown belongs to the resource shown |
| Front end: uploads (`components/upload.ts`, `file-system.vue`) | one uploader, the list of tasks | upload, progress, failure, clearing the list | several uploads share flags; each waits for a promise that somebody must settle | what is sent before "end" is the whole file, one loop sends it, each task shows its own outcome, and no file waits for the browser for ever |
| Front end: guacd view and helpers | none | layout, URLs, headers | | |
| gRPC client, wiring, contracts | none | generated code, dependency wiring, constant tables | | |

The session store and the terminal session carry most of the program's own
logic; they are modelled first and in most detail.

### Interaction

Shared memory and locks join the first two components: a tunnel holds a pointer
to a `runtimeSession` taken from the store, and closes it through the store.
`ChainDial` produces what `OpenSSHSession` of `SshSessions` assumes: a client, or
an error with nothing to close. `TerminalSession` is the inside of the state
`reading` of a tunnel: entered by `NewTerminal`, left by `Leave` of
`SshSessions`, of which that module does not say when it happens. `Utf8Output` is the inside of one step of its `output` goroutine.
`HostConnect` is `openSSHSession`, from the question to the main site to the
session: it composes `GatewayChain`, which computes the hops, and `ChainDial`,
which dials them. `SessionView` is the browser that sends the connects and opens
the tunnels of `SshSessions`, with the server reduced to what that module shows
of it: a session ends with its tunnel. `Registration` is the process around all
of this, from `main` to its end; its only contact with the others is the
listener. `FileUpload` and `GuacTunnel` stand by themselves; no handler of the
plugin opens a Guacamole tunnel yet, so its owner is any that starts and stops
it.

## 2. The modules

### SshSessions, SessionLifecycle

One process per HTTP request. The actions are the critical sections of
`runtimeSessionStore.mu` and `finderRuntime.mu` and the calls between them, so
that everything a request has read may be stale when it uses it.

| code | variables and actions |
|---|---|
| `openAndStoreSession` | `rq`, `Refuse`, `OpenSSHSession`, `Put` |
| `runtimeSessionStore.Put`, three attempts | `tries`, `token`, `PutInsert`, `PutCollide`, `PutNoEntropy` |
| `SshSessionTunnel`, `wsSSHSession` | `tpc`, `TunnelGet`, `NewTerminal`, `NewTerminalFails`, `Leave` |
| `closeSession`: `Get`, `clear`, `Close` | `CloseGet`, `CloseClear`, `CloseDelete`, `CloseClient` |
| `withFinder`, `attach` | `fpc`, `FileGet`, `FileIsReady`, `NewSFTP`, `SetFinder`, `MarkReady`, `FileNext` |
| the vuefinder library's map of finders | `slot` (external) |

A token is drawn from a small set, so collisions happen and a token may be
drawn again after its session was closed. A file request that was answered is
followed by another, so that a request finds the finder attached by an earlier one,
or attaches it at the same time as another. A browser uses any token that was ever
issued, stale ones included. `closes[c]` counts calls of `Close` on the client of
`c`; it is a history variable of the properties and of the guard `IsOpen`.

`SessionLifecycle` states in six phases what the store promises about one
client: opened, published under a token no other live session has, retired
once, then closed, or abandoned when no token could be found. `SshSessions`
implements it under the mapping `Phase`. Both are about what may happen only; that
a retired session gets closed is `LeaverCloses`.

### TerminalSession, OutputStream

The goroutines `output`, `sender` and `reader`, the channel between them, the
buffer, the lock around WebSocket writes and the once-guard of `Stop`, split
where it cancels the context and where it has closed the connection. The
browser may be alive, close the connection, vanish, or stop reading while its
TCP stack stays up; `room` is what the socket still buffers in that case. The shell
may leave its input where it is (`InputTaken` is never forced). Ticks
may come at any time. `OutputStream` is the abstract promise: a prefix of what
was read, in order.

### Utf8Output

Bytes are kept as their role in UTF-8: leading a character of 1 to 4 bytes,
continuing one, or neither. `FullRune` follows Go's function of that name on
these roles.

### ChainDial

The caller of `sshx.Connect`, the goroutine of the first handshake with its
buffered result channel, which may succeed on a connection that has just been
closed under it, and the goroutine that reclaims a late result, for a
chain of `hops` hosts, at most `Hops`. A server may stall for ever; a connection
may drop; the context ends by the timeout or with the request (the gin engine is
configured so that the context of a handler is that of its request).

### GatewayChain

`ToGatewayChain` as it runs: the copy, the sort, the endpoints with their default
authentication, the host behind them. `slices.SortFunc` inserts for up to twelve
elements, which is the algorithm of the model, one action per comparison
(`Swap`, `Placed`); a host with more gateways is outside it. Weights are the
integers from `-Half` to `Half - 1`, and a difference wraps around (`Wrapped`),
as Go's does; `Half` is 2^63 in the code and 4 in the runs. `Targets`
are the hosts as the main site may describe them.

### HostConnect

`openSSHSession` with both: hop i of the dial is endpoint i of the chain.

| code | actions |
|---|---|
| `ResolveActionContext`, `DecodeTarget` | `Resolve`, `ResolveFails`; the main site is external |
| `ToGatewayChain` | `ToGatewayChain`, the steps of `GatewayChain` |
| `Auth` of the endpoint of the hop | `HopAuthOk`, `HopAuthFails`: a password is not looked at, a key may be unreadable, another type is refused |
| `Connect`, `Close`, the timeout | `Dial`, the other steps of `ChainDial` |

### SessionView

`SshIndex.vue` with the WebSocket of `xterm.vue`. An action is one event handler
with the watchers and the rendering it causes, since nothing else runs in
between; only `connect` is split, at its `await`.

| code | variables and actions |
|---|---|
| props, `selectedOption`, `isConnected`, `sessionId`, `dialogVisible` | `res`, `ctype`, `selected`, `connected`, `session`, `dialog` |
| `connect`: before and after its `await` | `Connect`; `Connected`, `ConnectFails` |
| `disconnect`, the dialog's buttons | `Disconnect`, `SelectOption`, `HandleCancel`, `ReopenDialog` |
| the watchers of the props, `resetConnectionState` | `ChangeProps`, `ResetConnectionState` |
| the keyed views of the template, `initXterm` and `cleanup` of `xterm.vue` | `View`, `Render`, `Deactivate`, `Unmount` |
| the plugin | `server`, `ServerConnects`, `ServerEnds` |

### FileUpload

The upload handler of `file-system.vue` and the uploader of `upload.ts`.

| code | variables and actions |
|---|---|
| the handler: next file of a batch, what it does when a promise settles | `at`, `task`, `lastTask`, `Upload`, `Proceed` |
| `clearAll` | `ClearAll`; what is on its way goes on unlisted |
| `onopen`, `onmessage`, `onerror`, `onclose` | `OnOpen`; `OnProgress`, `OnSuccess`, `OnFailure`; `OnFailure`, `OnLateError`; `OnClose` |
| `_startedSending`, the one flag for all uploads | `started` |
| `readAndSendFile` | `loops`, `SendChunk`, `SendEnd`, `ReadFails` |
| `bufferedAmount` above eight chunks | `congested`; `Drain` (external): the server reads on |

`loops[u]` is a sequence because one file may come to be sent by several loops; a
loop returns when its WebSocket is not open any more (`Disconnect`). `onerror` has
no guard in the code: while the promise is pending it is `OnFailure`, in the closing
handshake of an upload that succeeded it is `OnLateError`, which changes the task
and nothing else. Two history variables: `disturbed`, the uploads whose flag another
upload has reset or set in the meantime, and `late`, those that `OnLateError` met.

### GuacTunnel

`Tunnel.Handshake`, the goroutine of `GuacamoleHandler.Start`, and `Stop`.

The codec is there as far as its delimiters go: a value is its runs between
commas, each cut at its dots, so that `Elements` (`String`) and `Parse` do what
the code does to values that contain the one or the other. A value with a
comma would not survive `Parse`; the names that guacd asks for have none
(`AskedAssumption`), and the values of the plugin's own parameters, which may
have, are only written. Elements carry the number of their characters, which
guacd reads and `Parse` does not.

guacd's stream is a sequence of instructions; the reader cuts it into frames at
every ";", also at the one inside the type of an audio stream, "audio/L16;rate=...",
so that an audio instruction, of whatever index, type, rate and channels, is two
frames. `Read` compares full texts: it knows the head of L16 on stream 1
(`KnownHead`), which it completes with a rate of its own, and two rates
(`KnownRates`), which it swallows; all else it hands on as it comes (`Rendered`). `bufN` is how far the buffered
reader is ahead of the goroutine, which the handshake may have caused already.

### Registration

The main goroutine from `InitApp` to the end of `run`, and the goroutine it
starts to register the plugin.

| code | variables and actions |
|---|---|
| `LoadConfig`, `DefaultUpstream` | `addr`, `upstream`, `LoadConfig`; an address is the kind of its host and its port |
| etcd, registry, gRPC client; their panics | `InitDeps`, `Abort` |
| `InitListener` | `listener`, `InitListener` |
| `run`: `go func`, `Run`, what follows | `pc`, `SpawnRegister`, `RunReturns`, `RunStoresType`, `RunStoresData`, `RunChecked` |
| `Register`, the strategy, `RegisterPlugin` | `regpc`, `tries`, `rpc`, `CallRegister`, `RegisterAnswered`, `RegisterFails`, `Tick` |
| `if err = app.Register(...)` | `RegStoresType`, `RegStoresData`, `RegChecked`, `LogCrashes` |
| `Run` serves | `Serve` |
| the main site: registration, requests it forwards | `known`, `asked`, `MainSiteRegisters`, `MainSiteAsks` (external) |

The two goroutines assign the one variable `err` without a lock. That is a data
race, and Go gives such a program no more than that each machine word is read as
it was written: `err` is two words, its type and its data, stored one after the
other, and either goroutine may find the words of two errors, in which case the
use of it may bring the process down. `raced` is a history variable: whether one
goroutine stored between the other's store and its check. The retry library
(external) makes one call and up to `MaxRetries` more. A call may fail after the
main site has handled it.

## 3. The runs

One run per model, and one for each of four statements of the repository that the
code does not keep.

| run | instance | what it shows |
|---|---|---|
| `sessions` | 2 connects, 2 tunnels, 2 file requests that repeat, 2 tokens, 2 attempts | safety of the store in every interleaving; finders that are attached twice at a time or found attached; the life cycle; a tunnel that ends closes its session |
| `finder_cleared` | one of each | violated: the ready mark of a closed session may stay set |
| `terminal` | channel 1, threshold 2, socket buffer 1, 3 chunks | one writer, no loss, bounded buffer, refinement of the stream; output arrives, `Stop` ends all goroutines, so does a lost browser or an ended shell |
| `terminal_silent` | 1 chunk | violated: a browser that stops reading is never timed out |
| `utf8_output` | all texts of up to 3 characters and all sequences of up to 5 roles | no byte lost, no character cut, a leftover of at most 3 bytes |
| `connect` | all hosts with up to 3 gateways, weights of 3 bits, 4 hops | no gateway is lost or doubled, comparable weights are in order and the sort is stable; a session went through all gateways and ends at the host; silence about authentication means a password; what a failed or closed chain leaves open, the timeout of the first hop, no orphan of a late handshake |
| `chain_timeout` | a chain of 2 | violated: later hops know no timeout |
| `view` | 2 resources, 2 connects | connects do not overlap, the terminal belongs to the session shown, a terminal that is left ends its session |
| `view_stale` | 2 resources, 1 connect | violated: the page may show a session of one resource as that of another |
| `uploads` | a batch of 2 and a batch of 1, files of 2 chunks | "end" means all was sent; two loops for one file come of the shared flag only; failures are shown; an upload waits for the server or is settled |
| `guac_tunnel` | all streams of up to 2 instructions of 6 kinds, "args" with no name or two | how a handshake ends, instructions arrive whole up to the first that `Read` does not know, one message at most after `Stop`, the goroutine ends |
| `registration` | every kind of address, 3 retries | a request that comes before the server runs is served, failures are reported as their own while `err` is not raced for, the retries end |

**Bounds.** `sessions`: two connects and two tokens give a collision, a full token
space and the reuse of a token; two tunnels and two file requests give every pair
of holders of one session, stale ones too, or of one session each, and the second
round of a file request the case of a finder that is ready. `terminal`: three chunks
through a channel of one and a threshold of two fill channel, buffer and
message at once, with one chunk on offer or in the next message. `utf8_output`:
a read buffer of 5 is the smallest that can hold a leftover of 3 and two more
bytes; texts of five bytes contain every pattern that the window of three bytes
can distinguish. `connect`: three gateways and the host are a first hop, a last
one and two between; with 3 bits some of the weights used are too far apart to be
compared, and lists of three are the shortest in which comparisons can form a
cycle; each host and gateway is either silent about its authentication or asks
for a key. `view`: one resource to leave and one to go to, one session that is
shown and one that is on its way. `uploads`: the two batches give two concurrent
uploads and, in the first, a successor that waits; with two chunks two loops may
send a file from different places, one of them may end before the other has sent,
and the server may stop reading between a chunk and the next or "end".
`guac_tunnel`: two instructions are enough for one to be buffered behind another, or behind "ready", in all combinations of plain and audio; the
audio is what `Read` knows, at both rates, and what it does not: another stream,
the type the handshake asks for, another rate; the two names are one the `Config` has, dotted, with a value that has dots and a
comma, and one it does not have. `registration`: the code's own number of
retries, and one address of each kind that `DefaultUpstream` tells apart, with
a fixed port and with port 0. The theorems of section 5 remove the
bounds for every invariant. No run uses symmetry. The largest runs are `sessions`
(about 600,000 states), `guac_tunnel` (324,000) and `uploads` (314,000).

**Deadlock** is not checked: all requests may be over, a session may have ended,
a chain may have been dialled, the process may be over. That nothing gets stuck
before is the subject of the liveness properties.

### Fairness

- `SshSessions`: weak fairness of `closeSession`, which waits for nobody. No
  fairness of anything else: nothing makes a browser send a request, a tunnel
  leave or an SSH server answer.
- `TerminalSession`: weak fairness of the goroutines. Strong fairness of the
  cases of `send`'s `select` and of taking `writeMu`: Go's `select` chooses
  uniformly among ready cases, its ticker keeps ticking, and `sync.Mutex` hands
  itself to a waiter after 1 ms. The read deadline fires (`ReadFails`), and a write
  of input fails when the SSH channel has ended (`InputFails`): a closed connection
  fails the writes to it, and the server answers the close of a channel. No
  fairness of the shell, which need not write, exit or take its input, nor of the
  browser. `LostEndReaped` names the two writes without a deadline that follow
  from this as its exceptions: to a browser that does not read, and to a running
  shell that does not.
- `ChainDial`: goroutines run, the timer of the context fires, a TCP dial ends
  with its context, a handshake ends when its connection is closed. No
  fairness of a server answering. `HostConnect` keeps what its liveness
  properties need of this: the caller's `select`, the reclaiming goroutine, and
  the handshake whose connection was closed.
- `SessionView`: only that the server notices when the browser has left a
  terminal, which is what `LeaverCloses` and, but for the exceptions it names,
  `LostEndReaped` show of it. No fairness of user, page or answers.
- `GuacTunnel`: the forwarding goroutine runs, and a `Stop` that was called goes
  on to its end. No fairness of guacd or the browser: `StopEndsForwarding` makes
  an exception for a browser that does not read.
- `FileUpload`: the browser opens a WebSocket or reports an error, and runs the
  timers and file reads of some loop that is not held back. No fairness of the
  server, which owes nothing, not even to read (`Drain`): `UploadsMoveOn` ends
  where it is the server's turn.
- `Registration`: both goroutines run, and `Run` accepts what the listener has
  queued until it returns. Nothing makes the main site answer or
  `Run` return: `RegistrationSettles` has it as its hypothesis that a call does
  not wait for ever, since `RegisterPlugin` is called without a deadline.
- `Utf8Output`, `GatewayChain`: none, only safety is claimed.

## 4. Findings

1. `finder_cleared`: `withFinder` marks a finder ready from a session it looked
   up earlier; when `closeSession` clears the mark in between, the mark comes back
   and stays. `TestCloseSessionCleansRuntimeState` says "finder state should be
   cleared". It harms little, since finder ids are never reused
   (`FinderIsolation`), but the entry is never removed.
2. `terminal_silent`: data and pongs are written without a deadline, the pong by
   the read loop. A browser that neither reads nor closes can hold the read loop
   in a write, where the read deadline does not run, so the "common fallback" the
   comment of `heartbeat` names never comes.
3. `chain_timeout`: handshakes behind the first hop ignore the timeout of the SSH
   dial that the plugin's README documents.
4. `view_stale`: when the host page goes to another resource while `connect`
   waits for its answer, the session that then arrives is shown as "connected"
   under the id of the other resource.

The models also make explicit what the code leaves open without saying
otherwise:

- the client of a `Connect` whose `Put` fails is never closed (`OpenIsAccounted`
  has it as its only exception), and a session whose browser never opens a
  tunnel, one used for files only for instance, is never closed: `disconnect` in
  the browser tells the plugin nothing, only the end of a WebSocket does
  (`TerminalEnds` is about terminals for that reason);
- `Close` of a chained session closes the last hop only (`OnlyEarlierHopsRemain`);
- a WebSocket of an upload that closes before success or failure leaves its
  promise pending, and the rest of its batch is never uploaded; so does a file
  that can no longer be read (the exceptions of `UploadsMoveOn`);
- two uploads at once may leave one file to two loops, or to none
  (`OneLoopUndisturbed` has the shared flag as its only exception);
- an empty connection id leaves the connection to guacd open
  (`EmptyConnectionID`), no read of the handshake has a deadline, and an audio
  stream other than L16 on stream 1 reaches the browser in two messages, or
  without its rate (`Rendered`), the audio/L8 that the handshake itself asks for
  included: `ForwardedWhole` ends where such a one begins;
- a WebSocket that fails while it is closing after a success marks the uploaded
  file as failed (`OnLateError`), and a server that does not read leaves a loop
  asking every 50 ms (`congested`);
- input for a shell that does not take it holds the read loop in a write, where,
  as in finding 2, no read deadline runs (`LostEndReaped` has it as an exception);
- the `err` of `run` is shared by two goroutines: a failed registration may end
  the process with "run ssh plugin app" after a clean `Run`, a failed `Run` may
  return as if nothing had happened (`MessagesAreTheirOwn` has the meeting of
  their stores as its only exception);
- the plugin is registered before its server runs, though the comment says
  after (`plugins/ssh/cmd/main.go:54`). It does no harm: `InitListener` listens
  before anything is announced, and requests of the main site wait in the
  listener's queue until `Run` serves them (`EarlyRequestsServed`);
- the upstream announced by default is the loopback for an address of all
  interfaces, although the comment speaks of the physical IP
  (`pkg/bootstrap/config.go:54`), so only a main site on the same host finds the
  plugin; it is no address at all for an IPv6 host, which loses its brackets, and
  another port than the listener's for port 0 or an empty address. `Reaches` says
  for which of them a request arrives, and no property says that it should.

The last two contradict a comment as well; they have no run of their own, since
for the one nothing bad follows and for the other what is right depends on where
the main site runs, which the repository does not say.

## 5. The proofs

Eight modules have theorems, each in a module of its own. All are proved by SMT
and Zenon but for the last, temporal step of each, and rest on no assumption but
the named ones on the constants.

**SshSessionsProofs**, for any sets of connects, tunnels, file requests and tokens
and any `MaxTries`, assuming that `MaxTries` is a positive natural
(`MaxTriesAssumption`) and `None` is none of the others (`NoneAssumption`):
`TypeCorrectness`, `ClosedAtMostOnce`, `StoredSessionsAreOpen`,
`OpenClientsAreAccounted`, `FindersAreIsolated`, `RequestsAreServedFromOwnSession`,
the types and the five invariants of `sessions`, and `Refinement`: every
behaviour is, under the mapping, a behaviour of `SessionLifecycle`. They rest on one inductive invariant `IInv`, checked step by step for connects,
tunnels and file requests (`ConnectIInv`, `TunnelIInv`, `FileIInv`,
`StutterIInv`). Its parts: `TypeOK`; `AllocInv`, ids and tokens are given to
answered requests, ids at most `seq` and distinct; `StoreInv`, what is stored is
open and stored where its token says; `AccountInv`, where every open client is;
`HolderInv`, at most one tunnel holds a client it took out of the store, and
then nobody stores it; `SlotInv`, slots and ready marks belong to sessions of
the requests that set them. None of the checked invariants is inductive by
itself: `CloseOnce` needs that a client about to be closed is in no slot of the
store, and `FinderIsolation` needs that ids are distinct and that file requests
only hold sessions that have an id.

**TerminalSessionProofs**, for any capacity of channel, buffer and socket and any
amount of output (`BoundsAssumption`): `TypeCorrectness`, `OneWriterAtATime`,
`NothingIsLost` and `StreamRefinement`, that the session implements
`OutputStream`. Besides `TypeOK` and `OneWriter`, which is inductive with the
types, `IInv` has `PipeInv`: chunks are numbered as they are read, and wire,
message, buffer and channel hold consecutive numbers, each beginning where the
one before it ends. `NothingLost` speaks of the concatenation of the four and is
derived from that; by itself it does not say that no message is under way when
the next one is made, which would be lost, and it says nothing once a goroutine
has stopped. The part of `PipeInv` about the wire holds also after `Stop`, which
is what the refinement needs.

**Utf8OutputProofs**, for texts of any length and any read buffer of more than
three bytes (`TextsAssumption`, `BufSizeAssumption`): `LeftoverFits`, `NoByteIsLost`
and `CharactersAreWhole`. The first two are inductive together (`KeptInv`), since a
round works on the bytes that follow those already sent. The third is inductive with
them: data that begins between two characters of a valid text is cut between
two (`WholeInv`, `ReadKeepsWhole`). If the cut is inside a character, its first
byte is among the last three (`Covers`), and `FullRune` says of exactly that one
that it is not complete.

**HostConnectProofs** has three parts. *The dial* (`ChainDial`), for chains of any
length (`HopsAssumption`): `TypeCorrectness`, `ChainsAreUnbroken`,
`NothingOfTheHopRemains`. The invariant adds `PhaseInv`, which connections and
clients can be open at each place of the caller, and `ResultInv`, who is
responsible for the first handshake: the caller in its `select`, the result
channel, or the reclaiming goroutine. Without it, nothing says that a client
still in the channel will be found by somebody.

*The sort* (`GatewayChain`), for any hosts with any number of gateways and any
width of the weights (`HalfAssumption`, `TargetsAssumption`), though the code
sorts by insertion up to twelve only: `NoGatewayLostOrDoubled` and `ChainIsSorted`. `SortInv` is that the sorted copy is
`Shuffled`, the gateways under a permutation of their positions, with the
positions of the sort in range. A swap composes the permutation with the
exchange of two positions (`SwapShuffles`), whatever the comparison said: that
weights wrap around does no harm to this. `OrderInv` is what an insertion has
done so far: behind the element being inserted all is as it was, before it all but that
element is in order, and it goes before those it has passed. That part has
`Comparable` as its hypothesis, since a comparison that wraps around
(`ComparesWeights` says when it does not) is no order.

*The composition*, for any such hosts that fit into `Hops` (`ChainsFit`):
`PartsAreImplemented`, every behaviour of `HostConnect` is one of `ChainDial` and of
`GatewayChain`, by `StepsOfTheParts`: every step of the whole is a step or a
stutter of either part. `DialInHostConnect`, `SortInHostConnect` and
`OrderInHostConnect` state the properties of the parts for it, and
`SessionsEndAtHost` and `DefaultsAreNeverRefused` those that hold of the composition
only. `ConnectInv` is the invariants of the parts and what ties them together:
the dial has not begun before the chain is there, the chain is as long as
`hops`, and its endpoints are those of the sorted copy with the host behind
them.

**SessionViewProofs**, for any resources and connects, assuming that `None` is
none of them and no view (`NoneAssumption`): `TypeCorrectness`,
`ConnectsDoNotOverlap`, `ShownTerminal`, `NoTerminalIsLost`. `IInv` adds that a
request on its way keeps `loading` set, which makes `OneConnectAtATime`
inductive, and that an open WebSocket has a resource. `NoTerminalIsLost` is what
`TerminalEnds` can be without fairness: a session that ever had a terminal still
has it, was left by it, or is closed.

**FileUploadProofs**, for any batches of uploads, each upload in one place
(`QueueAssumption`), and any number of chunks (`SizeAssumption`):
`EndIsComplete`, `FlagServesOne`, `FailuresAreShown`, with connections that fail at
any time and servers that do not read. The invariant adds `BatchInv`,
that a batch has settled what is before the upload it awaits and not touched
what is behind it; `LastInv`, which task the handler takes for the last of the
list; `SocketInv`, that a WebSocket is only connecting or open while its promise
is pending, loops run on an open one only, and what a loop has passed was sent
without a gap; and `FlagInv`, what the shared flag means to an undisturbed
upload: that it is the only pending one, and set if and only if the server has
told it where to begin. `EndMeansAll` needs nothing of the flag, which is why a
second loop does no harm to it.

**GuacTunnelProofs**, for any streams of instructions, any names asked for and any
parameters (`StreamsAssumption`, `AskedAssumption`, `ParametersAssumption`; the
names have no comma): `HandshakeEndsWell`, `InstructionsStayWhole`,
`AtMostOneAfterStop`. The streams may have audio of every index, type, rate and
number of channels; `InstructionsStayWhole` is about each message before the first
audio instruction that `Read` does not know. `NamesAreRead` is that what `Parse` reads from an "args" that
`String` wrote is what guacd asked for; `ShakeInv` carries it through the
handshake. `ForwardInv` says where in guacd's frames the goroutine stands:
at the beginning of the instruction after those delivered (`AtFrame`), or behind
an audio head, whose rate it need not have read - as far as all of them are known
to `Read` (`Good`). `AtMostOneAfterStop` rests on
`StopInv`: past its check of the context, the goroutine has one message in its
hands at most.

**RegistrationProofs**, for any kinds of addresses and any number of retries
(`AddrsAssumption`, `RetriesAssumption`): `EarlyRequestsArrive`, that no request of a
main site that has heard of the plugin is turned away before `Run` returns, which
is the safety part of `EarlyRequestsServed`, and `OwnMessages`.
`RegInv` has `Listening`, that the listener is open from before the goroutine is
started until `Run` returns, and that nobody knows the plugin earlier; `ErrShape`, the values the two words may have; and `OwnStores`, that without
a meeting of stores whoever is about to check `err` finds what it stored itself.

What is recursive here, the flattening of sequences of sequences, is proved
about without induction over data: `PartialExists` and `FlattenIsPartial` of
`GuacTunnelProofs` relate it to its partial results, by the least number that is not in a
set (`LeastOf`, `UpTo`).

Every invariant of the runs has its theorem, and so have `ImplementsStream`,
`ImplementsLifecycle` and `DefaultNeverRefused`. Only model-checked: the liveness
properties, which need fairness and `ENABLED` (`OutputArrives`, `StopEndsAll`,
`LostEndReaped`, `LeaverCloses`, `FirstHopTimesOut`, `LateHandshakeReclaimed`,
`TerminalEnds`, `UploadsMoveOn`, `StopEndsForwarding`, `RegistrationSettles`,
`EarlyRequestsServed`).

## 6. Plan

Done: `SessionLifecycle`, `SshSessions`; `OutputStream`, `TerminalSession`;
`Utf8Output`; `ChainDial`, `GatewayChain`, `HostConnect`; `SessionView`;
`FileUpload`; `GuacTunnel`; `Registration`; the proofs of section 5. Next, in this
order:

1. A composition of `SshSessions` and `TerminalSession` through the state of a
   tunnel, in which a client closed by one tunnel ends the shell of its siblings:
   `LostEndReaped` says so far, for one terminal, that a shell that ended ends the
   tunnel. And one of `SessionView` and `SessionLifecycle` through the state of a
   session.
2. The safety part of 1 as theorems.

## 7. Not modelled

- The session pool of `pkg/term` and the `Manager` interface: nothing in the
  repository calls them, so there is no program whose interleavings could be
  checked. The registry of connectors is written once, before `main`.
- The routes and middlewares that `NewPluginApp` installs, and the goroutine it
  starts to report the permissions once: they touch no state of the plugin.
- The figures of an upload's task (bytes loaded, speed, time left) and the panel
  that shows them.
- Generated code, dependency wiring, constant tables, layout and styling: no
  behaviour to check.

The SSH, SFTP, WebSocket, retry and vuefinder libraries, guacd, the main site
and the browser are modelled only as the code uses them. Contents of messages,
terminal sizes, file contents and the wording of errors are abstracted.
