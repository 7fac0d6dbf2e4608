----------------------------- MODULE FileUpload -----------------------------
(***************************************************************************)
(* Uploads of the file manager: the upload handler of file-system.vue,     *)
(* which uploads the files of one batch one after the other, and the       *)
(* WebSocketUploader of upload.ts, one object for all batches.  Each       *)
(* upload has a WebSocket of its own; once the server has reported where   *)
(* to start, a loop sends the file chunk by chunk and then "end".          *)
(*                                                                         *)
(* The uploader remembers in one flag whether sending has started, for     *)
(* whatever upload it is asked about.  JavaScript runs one handler at a    *)
(* time: an action is a handler with the promise continuations it causes.  *)
(***************************************************************************)
EXTENDS Integers, Sequences, Functions

CONSTANTS Queue,    \* Queue[b]: the uploads of batch b, in order
          Size      \* chunks of a file

Batches == DOMAIN Queue
Uploads == UNION {Range(Queue[b]) : b \in Batches}

ASSUME SizeAssumption == Size \in Nat
\* A name stands for one upload, with a WebSocket and a task of its own.
ASSUME QueueAssumption ==
  /\ \A b \in Batches : Queue[b] \in Seq(Uploads)
  /\ \A b, c \in Batches : \A k \in 1..Len(Queue[b]), l \in 1..Len(Queue[c]) :
       Queue[b][k] = Queue[c][l] => b = c /\ k = l

VARIABLES
  at,         \* at[b]: which upload batch b awaits, 0 before it begins
  started,    \* _startedSending
  ws,         \* ws[u]: the WebSocket of u
  loops,      \* loops[u]: the next chunk of each loop that sends u, while it may
  resume,     \* resume[u]: first chunk the server asked for, -1 while it has not
  sent,       \* sent[u]: chunks sent over the WebSocket of u
  ended,      \* uploads whose "end" was sent, while connected
  promise,    \* promise[u] of uploadFile
  task,       \* task[u]: status in the list of tasks
  lastTask,   \* the last task of the list, or None when it is empty
  congested,  \* uploads whose WebSocket holds more than eight chunks back
  late,       \* uploads whose connection failed after they were settled
  disturbed   \* uploads whose flag another upload reset or set meanwhile

vars == <<at, started, ws, loops, resume, sent, ended, promise, task, lastTask,
          congested, late, disturbed>>

None == <<>>         \* no task
Over == Size + 1     \* a loop that sends no more

Init ==
  /\ at = [b \in Batches |-> 0]
  /\ started = FALSE
  /\ ws = [u \in Uploads |-> "none"]
  /\ loops = [u \in Uploads |-> <<>>]
  /\ resume = [u \in Uploads |-> -1]
  /\ sent = [u \in Uploads |-> {}]
  /\ ended = {}
  /\ promise = [u \in Uploads |-> "none"]
  /\ task = [u \in Uploads |-> "none"]
  /\ lastTask = None
  /\ congested = {} /\ late = {} /\ disturbed = {}

Pending == {u \in Uploads : promise[u] = "pending"}

\* How far the server may have got with u.
Reached(u) == CHOOSE n \in 0..Size :
  /\ resume[u] .. n - 1 \subseteq sent[u]
  /\ n = Size \/ n \notin sent[u]
  /\ n >= resume[u]

\* What an upload knows of its connection ends with it: a loop whose WebSocket is
\* not open returns, and nobody reads the rest any more.
Disconnect(sockets) ==
  LET open == {u \in Uploads : sockets[u] = "open"}
      Of(f, none) == [u \in Uploads |-> IF u \in open THEN f[u] ELSE none]
  IN  /\ loops' = Of(loops, <<>>) /\ resume' = Of(resume, -1) /\ sent' = Of(sent, {})
      /\ ended' = ended \intersect open /\ congested' = congested \intersect open

-----------------------------------------------------------------------------
(* The upload handler *)

\* Batch b goes on to its next file, if it has one: a new task and uploadFile,
\* which resets the flag whoever uses it.
Proceed(b, sockets, promises, tasks) ==
  /\ at' = [at EXCEPT ![b] = @ + 1]
  /\ IF at[b] = Len(Queue[b])
     THEN /\ ws' = sockets /\ promise' = promises /\ task' = tasks
          /\ UNCHANGED <<started, lastTask, disturbed>>
     ELSE LET u == Queue[b][at[b] + 1]
              others == {v \in Uploads : promises[v] = "pending"}
          IN  /\ ws' = [sockets EXCEPT ![u] = "connecting"]
              /\ promise' = [promises EXCEPT ![u] = "pending"]
              /\ task' = [tasks EXCEPT ![u] = "uploading"]
              /\ lastTask' = <<u>>
              /\ started' = FALSE
              /\ disturbed' = IF others = {} THEN disturbed
                              ELSE disturbed \union others \union {u}
  /\ Disconnect(sockets)
  /\ UNCHANGED late

\* uppy emits "upload", also while another batch is on its way.
Upload(b) == at[b] = 0 /\ Proceed(b, ws, promise, task)

\* "Clear all upload tasks": the list is empty, what goes on goes on unlisted.
ClearAll ==
  /\ lastTask # None
  /\ lastTask' = None
  /\ UNCHANGED <<at, started, ws, loops, resume, sent, ended, promise, task,
                 disturbed, congested, late>>

Awaits(b, u) == at[b] \in 1..Len(Queue[b]) /\ Queue[b][at[b]] = u

-----------------------------------------------------------------------------
(* The handlers of the WebSocket of u *)

OnOpen(u) ==
  /\ ws[u] = "connecting"
  /\ ws' = [ws EXCEPT ![u] = "open"]
  /\ UNCHANGED <<at, started, loops, resume, sent, ended, promise, task, lastTask,
                 disturbed, congested, late>>

\* Mutant of OnProgress: the flag is not set.
OnProgressForgets(u, n) ==
  /\ ws[u] = "open" /\ promise[u] = "pending"
  /\ n \in IF resume[u] = -1 THEN 0..Size ELSE resume[u]..Reached(u)
  /\ resume' = [resume EXCEPT ![u] = IF @ = -1 THEN n ELSE @]
  /\ loops' = IF started THEN loops ELSE [loops EXCEPT ![u] = Append(@, n)]
  /\ UNCHANGED <<at, started, ws, sent, ended, promise, task, lastTask, disturbed,
                 congested, late>>

\* Mutant of OnProgress: a file the server already has is not sent for.
OnProgressNoRest(u, n) ==
  /\ ws[u] = "open" /\ promise[u] = "pending"
  /\ n \in IF resume[u] = -1 THEN 0..Size ELSE resume[u]..Reached(u)
  /\ resume' = [resume EXCEPT ![u] = IF @ = -1 THEN n ELSE @]
  /\ started' = TRUE
  /\ loops' = IF started \/ n = Size THEN loops ELSE [loops EXCEPT ![u] = Append(@, n)]
  /\ UNCHANGED <<at, ws, sent, ended, promise, task, lastTask, disturbed, congested,
                 late>>

\* The server reports it has the chunks before n; the first report says where
\* to resume.
OnProgress(u, n) ==
  /\ ws[u] = "open" /\ promise[u] = "pending"
  /\ n \in IF resume[u] = -1 THEN 0..Size ELSE resume[u]..Reached(u)
  /\ resume' = [resume EXCEPT ![u] = IF @ = -1 THEN n ELSE @]
  /\ started' = TRUE
  /\ loops' = IF started THEN loops ELSE [loops EXCEPT ![u] = Append(@, n)]
  /\ UNCHANGED <<at, ws, sent, ended, promise, task, lastTask, disturbed, congested,
                 late>>

OnSuccess(b, u) ==
  /\ Awaits(b, u) /\ ws[u] = "open" /\ u \in ended
  /\ Proceed(b, [ws EXCEPT ![u] = "closing"], [promise EXCEPT ![u] = "resolved"],
                [task EXCEPT ![u] = "success"])

\* Mutant of OnFailure: it is left to the handler to mark the task.
OnFailureUnreported(b, u) ==
  /\ Awaits(b, u) /\ ws[u] # "closed"
  /\ Proceed(b, [ws EXCEPT ![u] = "closing"], [promise EXCEPT ![u] = "rejected"],
                [v \in Uploads |-> IF <<v>> = lastTask THEN "error" ELSE task[v]])

\* The server reports an error, its message cannot be read, or the connection
\* fails, which it may as long as it is not closed.  After onError, the handler marks
\* the last task of the list.
OnFailure(b, u) ==
  /\ Awaits(b, u) /\ ws[u] # "closed"
  /\ Proceed(b, [ws EXCEPT ![u] = "closing"], [promise EXCEPT ![u] = "rejected"],
                [v \in Uploads |-> IF v = u \/ <<v>> = lastTask THEN "error" ELSE task[v]])

\* onclose, whoever closed it.  Nothing settles a promise that is still pending.
Closes(u) ==
  /\ ws' = [ws EXCEPT ![u] = "closed"] /\ Disconnect(ws')
  /\ started' = FALSE
  /\ disturbed' = disturbed \union (Pending \ {u})
  /\ UNCHANGED <<at, promise, lastTask>>

OnClose(u) ==
  /\ ws[u] \in {"open", "closing"} /\ Closes(u)
  /\ UNCHANGED <<task, late>>

\* The connection of an upload that succeeded fails while it is closing: onerror,
\* and onclose behind it.  onError marks the task all the same; the promise is
\* resolved, and the handler does not hear of it.
OnLateError(u) ==
  /\ ws[u] = "closing" /\ promise[u] = "resolved" /\ Closes(u)
  /\ task' = [task EXCEPT ![u] = "error"]
  /\ late' = late \union {u}

-----------------------------------------------------------------------------
(* readAndSendFile, loop i of u: as long as the WebSocket holds more than eight   *)
(* chunks back, it only looks again every 50 ms.  A chunk that was being read     *)
(* when another loop filled the WebSocket is sent nevertheless: Drain, SendChunk. *)

SendChunk(u, i) ==
  /\ ws[u] = "open" /\ u \notin congested /\ loops[u][i] < Size
  /\ congested' \in {congested, congested \union {u}}
  /\ sent' = [sent EXCEPT ![u] = @ \union {loops[u][i]}]
  /\ loops' = [loops EXCEPT ![u][i] = @ + 1]
  /\ UNCHANGED <<at, started, ws, resume, ended, promise, task, lastTask, late,
                 disturbed>>

\* Mutant of SendEnd: "end" is sent behind the last chunk but one.
SendEndEarly(u, i) ==
  /\ ws[u] = "open" /\ u \notin congested /\ loops[u][i] \in {Size - 1, Size}
  /\ ended' = ended \union {u}
  /\ loops' = [loops EXCEPT ![u][i] = Over]
  /\ UNCHANGED <<at, started, ws, resume, sent, promise, task, lastTask, disturbed,
                 congested, late>>

SendEnd(u, i) ==
  /\ ws[u] = "open" /\ u \notin congested /\ loops[u][i] = Size
  /\ ended' = ended \union {u}
  /\ loops' = [loops EXCEPT ![u][i] = Over]
  /\ UNCHANGED <<at, started, ws, resume, sent, promise, task, lastTask, disturbed,
                 congested, late>>

\* The file cannot be read any more: the loop stops without "end".
ReadFails(u, i) ==
  /\ ws[u] = "open" /\ u \notin congested /\ loops[u][i] < Size
  /\ loops' = [loops EXCEPT ![u][i] = Over]
  /\ UNCHANGED <<at, started, ws, resume, sent, ended, promise, task, lastTask,
                 disturbed, congested, late>>

Loop(u) ==
  \E i \in DOMAIN loops[u] : SendChunk(u, i) \/ SendEnd(u, i) \/ ReadFails(u, i)

\* The server reads what the WebSocket holds.
Drain(u) ==
  /\ u \in congested
  /\ congested' = congested \ {u}
  /\ UNCHANGED <<at, started, ws, loops, resume, sent, ended, promise, task,
                 lastTask, late, disturbed>>

Next ==
  \/ ClearAll
  \/ \E b \in Batches : Upload(b)
  \/ \E b \in Batches, u \in Uploads : OnSuccess(b, u) \/ OnFailure(b, u)
  \/ \E u \in Uploads :
       \/ OnOpen(u) \/ OnClose(u) \/ OnLateError(u)
       \/ Loop(u) \/ Drain(u)
       \/ \E n \in 0..Size : OnProgress(u, n)

\* The browser opens WebSockets or reports an error, and runs its timers; the
\* server owes nothing: it need not even read what a loop has sent.
Connects(u) == OnOpen(u) \/ (ws[u] = "connecting" /\ \E b \in Batches : OnFailure(b, u))

Fairness ==
  WF_vars(\E u \in Uploads : Connects(u)) /\ WF_vars(\E u \in Uploads : Loop(u))

Spec == Init /\ [][Next]_vars /\ Fairness

-----------------------------------------------------------------------------
(* Properties *)

\* Whatever uploads share the flag, however many loops send one file and from
\* wherever: an "end" is only sent when every chunk the server asked for was.
EndMeansAll ==
  \A u \in ended : resume[u] .. Size - 1 \subseteq sent[u]

\* One loop sends a file, and it begins when the server first answers - unless
\* another upload began or closed meanwhile and reset the flag both share.
OneLoopUndisturbed ==
  \A u \in Uploads \ disturbed :
    /\ Len(loops[u]) <= 1
    /\ ws[u] = "open" /\ resume[u] # -1 => Len(loops[u]) = 1

\* A failed upload is shown as failed, whichever task is the last of the list;
\* and one that is shown as failed did fail, unless its connection failed when it
\* was settled already, which onerror reports too, or an upload of another batch
\* failed, for which the handler marks the last task.
FailuresShown ==
  \A b \in Batches : \A u \in Range(Queue[b]) :
    /\ promise[u] = "rejected" => task[u] = "error"
    /\ task[u] = "error" /\ promise[u] # "rejected" /\ u \notin late =>
         \E v \in Uploads \ Range(Queue[b]) : promise[v] = "rejected"

\* Where the server must act next: to say where to start, to read what the loop has
\* sent, or to say what became of it.
ServersTurn(u) == ws[u] = "open" /\ (resume[u] = -1 \/ u \in congested \/ u \in ended)

\* The loop of u gave up on an unreadable file.
GaveUp(u) == Over \in Range(loops[u]) /\ u \notin ended

\* uploadFile's promise, which the batch waits for with all its later files, does
\* not wait for the browser for ever: it is settled, or the server has to read or to
\* speak - unless the WebSocket was closed first, for which onclose settles nothing, the
\* file could not be read, or another upload used the flag meanwhile.
UploadsMoveOn ==
  \A u \in Uploads :
    (promise[u] = "pending" /\ ~ServersTurn(u)) ~>
      (promise[u] # "pending" \/ ServersTurn(u)
       \/ ws[u] = "closed" \/ GaveUp(u) \/ u \in disturbed)
=============================================================================
