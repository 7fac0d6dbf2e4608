-------------------------- MODULE FileUploadProofs --------------------------
(***************************************************************************)
(* Safety of FileUpload for any batches of uploads and any size of their   *)
(* files: what "end" promises the server, what the flag that all uploads   *)
(* share is good for, and what the list of tasks shows.                    *)
(***************************************************************************)
EXTENDS FileUpload, WellFoundedInduction, SequenceTheorems, TLAPS

Sockets == {"none", "connecting", "open", "closing", "closed"}
Promises == {"none", "pending", "resolved", "rejected"}
Statuses == {"none", "uploading", "success", "error"}

Types ==
  /\ at \in [Batches -> Nat]
  /\ started \in BOOLEAN
  /\ ws \in [Uploads -> Sockets]
  /\ loops \in [Uploads -> Seq(Nat)]
  /\ resume \in [Uploads -> -1..Size]
  /\ sent \in [Uploads -> SUBSET Int]
  /\ ended \subseteq Uploads
  /\ promise \in [Uploads -> Promises]
  /\ task \in [Uploads -> Statuses]
  /\ congested \subseteq Uploads /\ late \subseteq Uploads /\ disturbed \subseteq Uploads

\* Where the uploads of a batch are: settled before the one it awaits, untouched
\* behind it.
BatchInv ==
  \A b \in Batches : \A k \in 1..Len(Queue[b]) :
    LET u == Queue[b][k]
    IN  /\ k > at[b] => /\ ws[u] = "none" /\ promise[u] = "none" /\ task[u] = "none"
                        /\ resume[u] = -1 /\ loops[u] = <<>> /\ u \notin disturbed
                        /\ u \notin ended
        /\ k = at[b] => promise[u] = "pending"
        /\ k < at[b] => promise[u] \in {"resolved", "rejected"}

\* The last task of the list is the latest of its batch.
LastInv ==
  lastTask # None =>
    \E b \in Batches : \E k \in 1..Len(Queue[b]) :
      /\ lastTask = <<Queue[b][k]>> /\ k <= at[b]
      /\ k = at[b] \/ k = Len(Queue[b])

\* A WebSocket is open while its upload is pending; only then has the server asked for
\* it, and it is sent from there, without a gap.
SocketInv ==
  \A u \in Uploads :
    /\ ws[u] \in {"connecting", "open"} => promise[u] = "pending"
    /\ ws[u] # "open" => loops[u] = <<>> /\ resume[u] = -1
    /\ \A i \in 1..Len(loops[u]) :
         /\ resume[u] # -1
         /\ loops[u][i] <= Size => resume[u] .. loops[u][i] - 1 \subseteq sent[u]

\* An undisturbed upload is pending alone, and then the flag is its own.
FlagInv ==
  \A u \in Uploads \ disturbed :
    /\ promise[u] = "pending" => Pending = {u}
    /\ ws[u] \in {"connecting", "open"} => (started <=> resume[u] # -1)
    /\ resume[u] = -1 => loops[u] = <<>>

IInv ==
  /\ Types /\ BatchInv /\ LastInv /\ SocketInv /\ FlagInv
  /\ EndMeansAll /\ OneLoopUndisturbed /\ FailuresShown

-----------------------------------------------------------------------------
(* Natural numbers, and the place of an upload *)

LEMMA LeastOf ==
  ASSUME NEW S \in SUBSET Nat, S # {}
  PROVE  \E m \in S : \A k \in S : m <= k
<1>. DEFINE R == OpToRel(<, Nat)
<1>1. IsWellFoundedOn(R, Nat)
  BY NatLessThanWellFounded
<1>. HIDE DEF R
<1>2. PICK m \in S : \A k \in S : ~ (<<k, m>> \in R)
  BY <1>1, WFMin
<1>3. \A k \in S : m \in Nat /\ k \in Nat /\ <<k, m>> \in Nat \X Nat /\ ~(k < m)
  BY <1>2 DEF R, OpToRel
<1>4. ASSUME NEW k \in S PROVE m <= k
  <2>1. m \in Nat /\ k \in Nat /\ ~(k < m)
    BY <1>3
  <2>. QED
    BY <2>1
<1>. QED
  BY <1>4

LEMMA Places ==
  /\ \A b \in Batches : Len(Queue[b]) \in Nat /\ DOMAIN Queue[b] = 1..Len(Queue[b])
  /\ \A b \in Batches : \A k \in 1..Len(Queue[b]) : Queue[b][k] \in Uploads
  /\ \A u \in Uploads : \E b \in Batches : \E k \in 1..Len(Queue[b]) : u = Queue[b][k]
<1>1. \A b \in Batches : Queue[b] \in Seq(Uploads)
  BY QueueAssumption
<1>2. \A b \in Batches : Len(Queue[b]) \in Nat /\ DOMAIN Queue[b] = 1..Len(Queue[b])
  BY <1>1
<1>. QED
  BY <1>1, <1>2 DEF Uploads, Range

LEMMA OnePlace ==
  ASSUME NEW b \in Batches, NEW k \in 1..Len(Queue[b]),
         NEW c \in Batches, NEW l \in 1..Len(Queue[c]), Queue[b][k] = Queue[c][l]
  PROVE  b = c /\ k = l
  BY QueueAssumption

\* The chunks the server has without a gap: it has all, or the next one is missing.
LEMMA ReachedHas ==
  ASSUME Types, NEW u \in Uploads, resume[u] # -1
  PROVE  Reached(u) \in resume[u]..Size /\ resume[u] .. Reached(u) - 1 \subseteq sent[u]
<1>. DEFINE S == {n \in resume[u]..Size : n = Size \/ n \notin sent[u]}
<1>1. resume[u] \in 0..Size /\ Size \in Nat
  BY SizeAssumption DEF Types
<1>2. S \in SUBSET Nat /\ Size \in S
  BY <1>1
<1>. HIDE DEF S
<1>3. PICK m \in S : \A k \in S : m <= k
  BY <1>2, LeastOf
<1>4. m \in 0..Size /\ m >= resume[u] /\ (m = Size \/ m \notin sent[u])
  BY <1>1 DEF S
<1>5. \A k \in resume[u]..m - 1 : k \in sent[u]
  <2>1. TAKE k \in resume[u]..m - 1
  <2>2. k \in resume[u]..Size /\ ~(m <= k)
    BY <1>1, <1>4
  <2>3. k \notin S
    BY <1>3, <2>2
  <2>. QED
    BY <2>2, <2>3 DEF S
<1>6. \E n \in 0..Size : /\ resume[u] .. n - 1 \subseteq sent[u]
                         /\ n = Size \/ n \notin sent[u]
                         /\ n >= resume[u]
  BY <1>4, <1>5
<1>7. /\ Reached(u) \in 0..Size
      /\ resume[u] .. Reached(u) - 1 \subseteq sent[u]
      /\ Reached(u) >= resume[u]
  BY <1>6 DEF Reached
<1>. QED
  BY <1>1, <1>7

-----------------------------------------------------------------------------
(* The upload handler *)

\* What the handler settles before it goes on: nothing, or the upload it awaits.
Settled(b, sockets, promises) ==
  /\ at[b] \in 0..Len(Queue[b])
  /\ sockets \in [Uploads -> Sockets] /\ promises \in [Uploads -> Promises]
  /\ \A v \in Uploads :
       IF Awaits(b, v) THEN sockets[v] = "closing" /\ promises[v] \in {"resolved", "rejected"}
       ELSE sockets[v] = ws[v] /\ promises[v] = promise[v]

Waiting(promises) == {v \in Uploads : promises[v] = "pending"}

LEMMA DisconnectTypes ==
  ASSUME Types, NEW sockets, Disconnect(sockets)
  PROVE  /\ loops' \in [Uploads -> Seq(Nat)] /\ resume' \in [Uploads -> -1..Size]
         /\ sent' \in [Uploads -> SUBSET Int]
         /\ ended' \subseteq Uploads /\ congested' \subseteq Uploads
<1>1. -1 \in -1..Size /\ <<>> \in Seq(Nat)
  BY SizeAssumption
<1>. QED
  BY <1>1 DEF Types, Disconnect

LEMMA DisconnectEffect ==
  ASSUME NEW sockets, Disconnect(sockets), NEW u \in Uploads
  PROVE  /\ sockets[u] = "open" => loops'[u] = loops[u] /\ resume'[u] = resume[u]
                                   /\ sent'[u] = sent[u]
         /\ sockets[u] # "open" => loops'[u] = <<>> /\ resume'[u] = -1 /\ u \notin ended'
         /\ u \in ended' => u \in ended
  BY DEF Disconnect

LEMMA ProceedTypes ==
  ASSUME IInv, NEW b \in Batches, NEW sockets, NEW promises, NEW tasks,
         Settled(b, sockets, promises), tasks \in [Uploads -> Statuses],
         Proceed(b, sockets, promises, tasks)
  PROVE  Types'
<1>1. Types /\ at[b] \in Nat /\ at' = [at EXCEPT ![b] = @ + 1]
  BY DEF IInv, Types, Proceed
<1>2. Disconnect(sockets) /\ UNCHANGED late
  BY DEF Proceed
<1>3. /\ loops' \in [Uploads -> Seq(Nat)] /\ resume' \in [Uploads -> -1..Size]
      /\ sent' \in [Uploads -> SUBSET Int]
      /\ ended' \subseteq Uploads /\ congested' \subseteq Uploads
  BY <1>1, <1>2, DisconnectTypes
<1>4. CASE at[b] = Len(Queue[b])
  <2>1. UNCHANGED <<started, disturbed>> /\ ws' = sockets /\ promise' = promises /\ task' = tasks
    BY <1>4 DEF Proceed
  <2>. QED
    BY <1>1, <1>2, <1>3, <2>1 DEF Types, Settled
<1>5. CASE at[b] # Len(Queue[b])
  <2>1. at[b] + 1 \in 1..Len(Queue[b]) /\ Queue[b][at[b] + 1] \in Uploads
    BY <1>1, <1>5, Places DEF Settled
  <2>2. /\ ws' = [sockets EXCEPT ![Queue[b][at[b] + 1]] = "connecting"]
        /\ promise' = [promises EXCEPT ![Queue[b][at[b] + 1]] = "pending"]
        /\ task' = [tasks EXCEPT ![Queue[b][at[b] + 1]] = "uploading"]
        /\ started' = FALSE
        /\ disturbed' \subseteq disturbed \union Uploads
    BY <1>5, <2>1 DEF Proceed
  <2>3. /\ ws' \in [Uploads -> Sockets] /\ promise' \in [Uploads -> Promises]
        /\ task' \in [Uploads -> Statuses] /\ disturbed' \subseteq Uploads /\ started' \in BOOLEAN
    BY <1>1, <2>1, <2>2 DEF Settled, Sockets, Promises, Statuses, Types
  <2>. QED
    BY <1>1, <1>2, <1>3, <2>3 DEF Types
<1>. QED
  BY <1>4, <1>5

\* The upload that is begun is new, the one that was awaited is settled, and nothing
\* else changes.
LEMMA ProceedEffect ==
  ASSUME IInv, NEW b \in Batches, NEW sockets, NEW promises, NEW tasks,
         Settled(b, sockets, promises), tasks \in [Uploads -> Statuses],
         Proceed(b, sockets, promises, tasks),
         NEW u \in Uploads, NEW c \in Batches, NEW k \in 1..Len(Queue[c]), u = Queue[c][k]
  PROVE  /\ (c = b /\ k = at[b] + 1) =>
              /\ ws[u] = "none" /\ ws'[u] = "connecting" /\ promise'[u] = "pending"
              /\ promise[u] = "none" /\ task'[u] = "uploading"
         /\ (c = b /\ k = at[b]) =>
              /\ ws'[u] = "closing" /\ promise'[u] = promises[u] /\ task'[u] = tasks[u]
              /\ promise'[u] \in {"resolved", "rejected"} /\ promise[u] = "pending"
         /\ ~(c = b /\ k \in {at[b], at[b] + 1}) =>
              ws'[u] = ws[u] /\ promise'[u] = promise[u] /\ task'[u] = tasks[u]
         /\ ws'[u] = "open" => loops'[u] = loops[u] /\ resume'[u] = resume[u]
                               /\ sent'[u] = sent[u]
         /\ ws'[u] # "open" => loops'[u] = <<>> /\ resume'[u] = -1 /\ u \notin ended'
         /\ u \in ended' => u \in ended
<1>1. at[b] \in 0..Len(Queue[b]) /\ Len(Queue[b]) \in Nat /\ Len(Queue[c]) \in Nat
  BY Places DEF Settled
<1>2. Awaits(b, u) <=> c = b /\ k = at[b]
  <2>1. ASSUME Awaits(b, u) PROVE c = b /\ k = at[b]
    BY <1>1, <2>1, QueueAssumption DEF Awaits
  <2>2. ASSUME c = b, k = at[b] PROVE Awaits(b, u)
    BY <1>1, <2>2 DEF Awaits
  <2>. QED
    BY <2>1, <2>2
<1>3. /\ k > at[c] => ws[u] = "none" /\ promise[u] = "none"
      /\ k = at[c] => promise[u] = "pending"
  BY DEF IInv, BatchInv
<1>4. Disconnect(sockets)
  BY DEF Proceed
<1>5. CASE at[b] = Len(Queue[b])
  <2>1. ws' = sockets /\ promise' = promises /\ task' = tasks
    BY <1>5 DEF Proceed
  <2>2. ~(c = b /\ k = at[b] + 1)
    BY <1>1, <1>5
  <2>3. /\ ws'[u] = "open" => loops'[u] = loops[u] /\ resume'[u] = resume[u]
                              /\ sent'[u] = sent[u]
        /\ ws'[u] # "open" => loops'[u] = <<>> /\ resume'[u] = -1 /\ u \notin ended'
        /\ u \in ended' => u \in ended
    BY <1>4, <2>1, DisconnectEffect
  <2>. QED
    BY <1>2, <1>3, <2>1, <2>2, <2>3 DEF Settled
<1>6. CASE at[b] # Len(Queue[b])
  <2>. DEFINE new == Queue[b][at[b] + 1]
  <2>1. at[b] + 1 \in 1..Len(Queue[b]) /\ new \in Uploads
    BY <1>1, <1>6, Places
  <2>2. /\ ws' = [sockets EXCEPT ![new] = "connecting"]
        /\ promise' = [promises EXCEPT ![new] = "pending"]
        /\ task' = [tasks EXCEPT ![new] = "uploading"]
    BY <1>6 DEF Proceed
  <2>3. u = new <=> c = b /\ k = at[b] + 1
    BY <2>1, QueueAssumption
  <2>. HIDE DEF new
  <2>4. /\ ws'[u] = IF u = new THEN "connecting" ELSE sockets[u]
        /\ promise'[u] = IF u = new THEN "pending" ELSE promises[u]
        /\ task'[u] = IF u = new THEN "uploading" ELSE tasks[u]
    BY <2>1, <2>2 DEF Settled
  <2>5. u = new => ws[u] = "none" /\ promise[u] = "none"
    BY <1>1, <1>3, <2>3
  <2>6. /\ ws'[u] = "open" => loops'[u] = loops[u] /\ resume'[u] = resume[u]
                              /\ sent'[u] = sent[u]
        /\ ws'[u] # "open" => loops'[u] = <<>> /\ resume'[u] = -1 /\ u \notin ended'
        /\ u \in ended' => u \in ended
    <3>1. u = new => sockets[u] = "none"
      BY <1>1, <1>2, <2>3, <2>5 DEF Settled
    <3>. QED
      BY <1>4, <2>4, <3>1, DisconnectEffect
  <2>. QED
    BY <1>1, <1>2, <1>3, <2>3, <2>4, <2>5, <2>6 DEF Settled
<1>. QED
  BY <1>5, <1>6

\* The flag after the handler went on.
LEMMA ProceedFlag ==
  ASSUME IInv, NEW b \in Batches, NEW sockets, NEW promises, NEW tasks,
         Settled(b, sockets, promises), tasks \in [Uploads -> Statuses],
         Proceed(b, sockets, promises, tasks)
  PROVE  \/ /\ at[b] = Len(Queue[b])
            /\ UNCHANGED <<started, disturbed, lastTask>>
            /\ promise' = promises
         \/ /\ at[b] + 1 \in 1..Len(Queue[b])
            /\ started' = FALSE /\ lastTask' = <<Queue[b][at[b] + 1]>>
            /\ disturbed' = IF Waiting(promises) = {} THEN disturbed
                            ELSE disturbed \union Waiting(promises) \union {Queue[b][at[b] + 1]}
<1>1. at[b] \in 0..Len(Queue[b]) /\ Len(Queue[b]) \in Nat
  BY Places DEF Settled
<1>2. CASE at[b] = Len(Queue[b])
  BY <1>2 DEF Proceed
<1>3. CASE at[b] # Len(Queue[b])
  <2>1. at[b] + 1 \in 1..Len(Queue[b])
    BY <1>1, <1>3
  <2>2. started' = FALSE /\ lastTask' = <<Queue[b][at[b] + 1]>>
    BY <1>3 DEF Proceed
  <2>3. disturbed' = IF Waiting(promises) = {} THEN disturbed
                     ELSE disturbed \union Waiting(promises) \union {Queue[b][at[b] + 1]}
    BY <1>3 DEF Proceed, Waiting
  <2>. QED
    BY <2>1, <2>2, <2>3
<1>. QED
  BY <1>2, <1>3

LEMMA ProceedBatches ==
  ASSUME IInv, NEW b \in Batches, NEW sockets, NEW promises, NEW tasks,
         Settled(b, sockets, promises), tasks \in [Uploads -> Statuses],
         \A v \in Uploads : promise[v] = "none" => tasks[v] = task[v],
         Proceed(b, sockets, promises, tasks)
  PROVE  BatchInv'
<1>1. SUFFICES ASSUME NEW c \in Batches, NEW k \in 1..Len(Queue[c])
      PROVE  LET u == Queue[c][k]
             IN  /\ k > at'[c] => /\ ws'[u] = "none" /\ promise'[u] = "none" /\ task'[u] = "none"
                                  /\ resume'[u] = -1 /\ loops'[u] = <<>> /\ u \notin disturbed'
                                  /\ u \notin ended'
                 /\ k = at'[c] => promise'[u] = "pending"
                 /\ k < at'[c] => promise'[u] \in {"resolved", "rejected"}
  BY DEF BatchInv
<1>. DEFINE u == Queue[c][k]
<1>2. /\ u \in Uploads /\ at[b] \in 0..Len(Queue[b]) /\ Len(Queue[c]) \in Nat
      /\ Len(Queue[b]) \in Nat /\ at[c] \in Nat
  BY Places DEF Settled, IInv, Types
<1>3. at'[c] = IF c = b THEN at[b] + 1 ELSE at[c]
  BY DEF Proceed, IInv, Types
<1>5. /\ k > at[c] => /\ ws[u] = "none" /\ promise[u] = "none" /\ task[u] = "none"
                      /\ resume[u] = -1 /\ loops[u] = <<>> /\ u \notin disturbed
                      /\ u \notin ended
      /\ k = at[c] => promise[u] = "pending"
      /\ k < at[c] => promise[u] \in {"resolved", "rejected"}
  BY DEF IInv, BatchInv
<1>6. /\ (c = b /\ k = at[b] + 1) => promise'[u] = "pending"
      /\ (c = b /\ k = at[b]) => promise'[u] \in {"resolved", "rejected"}
      /\ ~(c = b /\ k \in {at[b], at[b] + 1}) =>
           ws'[u] = ws[u] /\ promise'[u] = promise[u] /\ task'[u] = tasks[u]
      /\ ws'[u] # "open" => loops'[u] = <<>> /\ resume'[u] = -1 /\ u \notin ended'
  BY <1>2, ProceedEffect
<1>7. k > at'[c] => u \notin disturbed'
  <2>1. SUFFICES ASSUME k > at'[c] PROVE u \notin disturbed'
    OBVIOUS
  <2>2. k > at[c] /\ ~(c = b /\ k = at[b] + 1) /\ ~(c = b /\ k = at[b])
    BY <1>2, <1>3, <2>1
  <2>3. u \notin disturbed /\ promise[u] = "none" /\ promises[u] = promise[u]
    <3>1. ~Awaits(b, u)
      BY <1>2, <2>2, QueueAssumption DEF Awaits
    <3>. QED
      BY <1>2, <1>5, <2>2, <3>1 DEF Settled
  <2>4. at[b] + 1 \in 1..Len(Queue[b]) => u # Queue[b][at[b] + 1]
    BY <2>2, QueueAssumption
  <2>5. u \notin Waiting(promises)
    BY <2>3 DEF Waiting
  <2>6. \/ disturbed' = disturbed
        \/ /\ at[b] + 1 \in 1..Len(Queue[b])
           /\ \/ disturbed' = disturbed
              \/ disturbed' = disturbed \union Waiting(promises) \union {Queue[b][at[b] + 1]}
    BY ProceedFlag
  <2>. QED
    BY <2>3, <2>4, <2>5, <2>6
<1>8. k > at'[c] => k > at[c] /\ ~(c = b /\ k \in {at[b], at[b] + 1})
  BY <1>2, <1>3
<1>9. k > at'[c] => /\ ws'[u] = "none" /\ promise'[u] = "none" /\ task'[u] = "none"
                    /\ resume'[u] = -1 /\ loops'[u] = <<>> /\ u \notin ended'
  BY <1>2, <1>5, <1>6, <1>8
<1>10. k = at'[c] => promise'[u] = "pending"
  BY <1>2, <1>3, <1>5, <1>6
<1>11. k < at'[c] => promise'[u] \in {"resolved", "rejected"}
  BY <1>2, <1>3, <1>5, <1>6
<1>. QED
  BY <1>7, <1>9, <1>10, <1>11

LEMMA ProceedLast ==
  ASSUME IInv, NEW b \in Batches, NEW sockets, NEW promises, NEW tasks,
         Settled(b, sockets, promises), tasks \in [Uploads -> Statuses],
         Proceed(b, sockets, promises, tasks)
  PROVE  LastInv'
<1>1. at[b] \in 0..Len(Queue[b]) /\ Len(Queue[b]) \in Nat /\ at \in [Batches -> Nat]
  BY Places DEF Settled, IInv, Types
<1>2. at' = [at EXCEPT ![b] = at[b] + 1]
  BY DEF Proceed
<1>3. CASE at[b] = Len(Queue[b]) /\ lastTask' = lastTask
  <2>1. SUFFICES ASSUME lastTask # None PROVE LastInv'
    BY <1>3 DEF LastInv
  <2>2. PICK c \in Batches : \E k \in 1..Len(Queue[c]) :
          /\ lastTask = <<Queue[c][k]>> /\ k <= at[c]
          /\ k = at[c] \/ k = Len(Queue[c])
    BY <2>1 DEF IInv, LastInv
  <2>3. PICK k \in 1..Len(Queue[c]) :
          /\ lastTask = <<Queue[c][k]>> /\ k <= at[c]
          /\ k = at[c] \/ k = Len(Queue[c])
    BY <2>2
  <2>4. k <= at'[c] /\ (k = at'[c] \/ k = Len(Queue[c]))
    BY <1>1, <1>2, <1>3, <2>3
  <2>. QED
    BY <1>3, <2>3, <2>4 DEF LastInv
<1>4. CASE at[b] + 1 \in 1..Len(Queue[b]) /\ lastTask' = <<Queue[b][at[b] + 1]>>
  <2>1. at'[b] = at[b] + 1
    BY <1>1, <1>2
  <2>. QED
    BY <1>1, <1>4, <2>1 DEF LastInv
<1>. QED
  BY <1>3, <1>4, ProceedFlag

LEMMA ProceedSockets ==
  ASSUME IInv, NEW b \in Batches, NEW sockets, NEW promises, NEW tasks,
         Settled(b, sockets, promises), tasks \in [Uploads -> Statuses],
         Proceed(b, sockets, promises, tasks)
  PROVE  SocketInv' /\ EndMeansAll'
<1>2. EndMeansAll'
  <2>1. ASSUME NEW u \in ended' PROVE resume'[u] .. Size - 1 \subseteq sent'[u]
    <3>1. u \in Uploads
      BY <2>1, ProceedTypes DEF Types
    <3>2. PICK c \in Batches : \E k \in 1..Len(Queue[c]) : u = Queue[c][k]
      BY <3>1, Places
    <3>3. PICK k \in 1..Len(Queue[c]) : u = Queue[c][k]
      BY <3>2
    <3>4. u \in ended /\ resume'[u] = resume[u] /\ sent'[u] = sent[u]
      BY <2>1, <3>1, <3>3, ProceedEffect
    <3>. QED
      BY <3>4 DEF IInv, EndMeansAll
  <2>. QED
    BY <2>1 DEF EndMeansAll
<1>3. ASSUME NEW u \in Uploads
      PROVE  /\ ws'[u] \in {"connecting", "open"} => promise'[u] = "pending"
             /\ ws'[u] # "open" => loops'[u] = <<>> /\ resume'[u] = -1
             /\ \A i \in 1..Len(loops'[u]) :
                  /\ resume'[u] # -1
                  /\ loops'[u][i] <= Size => resume'[u] .. loops'[u][i] - 1 \subseteq sent'[u]
  <2>1. PICK c \in Batches : \E k \in 1..Len(Queue[c]) : u = Queue[c][k]
    BY Places
  <2>2. PICK k \in 1..Len(Queue[c]) : u = Queue[c][k]
    BY <2>1
  <2>3. /\ ws[u] \in {"connecting", "open"} => promise[u] = "pending"
        /\ ws[u] # "open" => resume[u] = -1
        /\ \A i \in 1..Len(loops[u]) :
             /\ resume[u] # -1
             /\ loops[u][i] <= Size => resume[u] .. loops[u][i] - 1 \subseteq sent[u]
    BY DEF IInv, SocketInv
  <2>5. /\ ws'[u] = "open" => loops'[u] = loops[u] /\ resume'[u] = resume[u]
                              /\ sent'[u] = sent[u]
        /\ ws'[u] # "open" => loops'[u] = <<>> /\ resume'[u] = -1
        /\ (c = b /\ k = at[b] + 1) => ws'[u] = "connecting" /\ promise'[u] = "pending"
        /\ (c = b /\ k = at[b]) => ws'[u] = "closing"
        /\ ~(c = b /\ k \in {at[b], at[b] + 1}) => ws'[u] = ws[u] /\ promise'[u] = promise[u]
    BY <2>2, ProceedEffect
  <2>6. Len(<<>>) = 0 /\ 1..0 = {}
    OBVIOUS
  <2>. QED
    BY <2>3, <2>5, <2>6
<1>. QED
  BY <1>2, <1>3 DEF SocketInv

LEMMA ProceedFlags ==
  ASSUME IInv, NEW b \in Batches, NEW sockets, NEW promises, NEW tasks,
         Settled(b, sockets, promises), tasks \in [Uploads -> Statuses],
         Proceed(b, sockets, promises, tasks)
  PROVE  FlagInv' /\ OneLoopUndisturbed'
<1>1. disturbed \subseteq disturbed'
  BY ProceedFlag
<1>2. ASSUME NEW u \in Uploads \ disturbed'
      PROVE  /\ promise'[u] = "pending" => Pending' = {u}
             /\ ws'[u] \in {"connecting", "open"} => (started' <=> resume'[u] # -1)
             /\ resume'[u] = -1 => loops'[u] = <<>>
             /\ Len(loops'[u]) <= 1
             /\ ws'[u] = "open" /\ resume'[u] # -1 => Len(loops'[u]) = 1
  <2>1. PICK c \in Batches : \E k \in 1..Len(Queue[c]) : u = Queue[c][k]
    BY Places
  <2>2. PICK k \in 1..Len(Queue[c]) : u = Queue[c][k]
    BY <2>1
  <2>3. /\ promise[u] = "pending" => Pending = {u}
        /\ ws[u] \in {"connecting", "open"} => (started <=> resume[u] # -1)
        /\ resume[u] = -1 => loops[u] = <<>>
        /\ Len(loops[u]) <= 1
        /\ ws[u] = "open" /\ resume[u] # -1 => Len(loops[u]) = 1
    BY <1>1 DEF IInv, FlagInv, OneLoopUndisturbed
  <2>4. /\ ws'[u] = "open" => loops'[u] = loops[u] /\ resume'[u] = resume[u]
        /\ ws'[u] # "open" => loops'[u] = <<>> /\ resume'[u] = -1
        /\ ws[u] # "open" => resume[u] = -1
        /\ (c = b /\ k = at[b] + 1) => ws'[u] = "connecting"
        /\ (c = b /\ k = at[b]) => ws'[u] = "closing"
        /\ ~(c = b /\ k \in {at[b], at[b] + 1}) => ws'[u] = ws[u]
    BY <2>2, ProceedEffect DEF IInv, SocketInv
  <2>5. Len(<<>>) = 0
    OBVIOUS
  <2>6. /\ resume'[u] = -1 => loops'[u] = <<>>
        /\ Len(loops'[u]) <= 1
        /\ ws'[u] = "open" /\ resume'[u] # -1 => Len(loops'[u]) = 1
    BY <2>3, <2>4, <2>5
  <2>7. /\ promise'[u] = "pending" => Pending' = {u}
        /\ ws'[u] \in {"connecting", "open"} => (started' <=> resume'[u] # -1)
    <3>1. CASE at[b] = Len(Queue[b]) /\ started' = started /\ promise' = promises
      <4>1. \A v \in Uploads : promise'[v] = "pending" => promise[v] = "pending"
        BY <3>1 DEF Settled
      <4>2. promise'[u] = "pending" => Pending' = {u}
        BY <2>3, <4>1 DEF Pending
      <4>3. Len(Queue[b]) \in Nat /\ Len(Queue[c]) \in Nat
        BY Places
      <4>4. ~(c = b /\ k = at[b] + 1)
        BY <3>1, <4>3
      <4>. QED
        BY <2>3, <2>4, <3>1, <4>2, <4>4
    <3>2. CASE /\ at[b] + 1 \in 1..Len(Queue[b]) /\ started' = FALSE
               /\ disturbed' = IF Waiting(promises) = {} THEN disturbed
                               ELSE disturbed \union Waiting(promises)
                                              \union {Queue[b][at[b] + 1]}
      <4>1. promise' = [promises EXCEPT ![Queue[b][at[b] + 1]] = "pending"]
        <5>1. at[b] # Len(Queue[b])
          BY <3>2, Places
        <5>. QED
          BY <5>1 DEF Proceed
      <4>2. promises \in [Uploads -> Promises] /\ Queue[b][at[b] + 1] \in Uploads
        BY <3>2, Places DEF Settled
      <4>3. CASE u = Queue[b][at[b] + 1]
        <5>1. Waiting(promises) = {}
          BY <1>2, <3>2, <4>3
        <5>2. Pending' = {u}
          BY <4>1, <4>2, <4>3, <5>1 DEF Pending, Waiting
        <5>3. c = b /\ k = at[b] + 1
          <6>1. at[b] + 1 \in 1..Len(Queue[b])
            BY <3>2
          <6>2. Queue[c][k] = Queue[b][at[b] + 1]
            BY <2>2, <4>3
          <6>. QED
            BY <6>1, <6>2, OnePlace
        <5>4. resume'[u] = -1
          BY <2>4, <5>3
        <5>. QED
          BY <3>2, <5>2, <5>4
      <4>4. CASE u # Queue[b][at[b] + 1]
        <5>1. u \notin Waiting(promises)
          BY <1>2, <3>2
        <5>2. promise'[u] # "pending"
          BY <4>1, <4>2, <4>4, <5>1 DEF Waiting
        <5>3. ws'[u] \notin {"connecting", "open"}
          BY <5>2, ProceedSockets DEF SocketInv
        <5>. QED
          BY <5>2, <5>3
      <4>. QED
        BY <4>3, <4>4
    <3>. QED
      BY <3>1, <3>2, ProceedFlag
  <2>. QED
    BY <2>6, <2>7
<1>3. FlagInv'
  BY <1>2 DEF FlagInv
<1>. QED
  BY <1>2, <1>3 DEF OneLoopUndisturbed

\* FailuresShown, for other promises and tasks than those of the state.
Shown(promises, tasks) ==
  \A b \in Batches : \A u \in Range(Queue[b]) :
    /\ promises[u] = "rejected" => tasks[u] = "error"
    /\ tasks[u] = "error" /\ promises[u] # "rejected" /\ u \notin late =>
         \E v \in Uploads \ Range(Queue[b]) : promises[v] = "rejected"

LEMMA ProceedShows ==
  ASSUME IInv, NEW b \in Batches, NEW sockets, NEW promises, NEW tasks,
         Settled(b, sockets, promises), tasks \in [Uploads -> Statuses],
         Shown(promises, tasks), Proceed(b, sockets, promises, tasks)
  PROVE  FailuresShown'
<1>1. UNCHANGED late
  BY DEF Proceed
<1>2. CASE at[b] = Len(Queue[b])
  <2>1. promise' = promises /\ task' = tasks
    BY <1>2 DEF Proceed
  <2>. QED
    BY <1>1, <2>1 DEF FailuresShown, Shown
<1>3. CASE at[b] # Len(Queue[b])
  <2>. DEFINE new == Queue[b][at[b] + 1]
  <2>1. at[b] + 1 \in 1..Len(Queue[b]) /\ new \in Uploads /\ at[b] \in Nat
    BY <1>3, Places DEF Settled
  <2>2. /\ promise' = [promises EXCEPT ![new] = "pending"]
        /\ task' = [tasks EXCEPT ![new] = "uploading"]
    BY <1>3 DEF Proceed
  <2>3. promises[new] = "none"
    <3>1. ~Awaits(b, new)
      BY <2>1, QueueAssumption DEF Awaits
    <3>2. promise[new] = "none"
      <4>1. at[b] + 1 > at[b]
        BY <2>1
      <4>. QED
        BY <2>1, <4>1 DEF IInv, BatchInv
    <3>. QED
      BY <2>1, <3>1, <3>2 DEF Settled
  <2>. HIDE DEF new
  <2>4. \A v \in Uploads : /\ promise'[v] = IF v = new THEN "pending" ELSE promises[v]
                           /\ task'[v] = IF v = new THEN "uploading" ELSE tasks[v]
    BY <2>1, <2>2 DEF Settled
  <2>5. \A c \in Batches : Range(Queue[c]) \subseteq Uploads
    BY DEF Uploads
  <2>6. ASSUME NEW c \in Batches, NEW u \in Range(Queue[c])
        PROVE  /\ promise'[u] = "rejected" => task'[u] = "error"
               /\ task'[u] = "error" /\ promise'[u] # "rejected" /\ u \notin late' =>
                    \E v \in Uploads \ Range(Queue[c]) : promise'[v] = "rejected"
    BY <1>1, <2>3, <2>4, <2>5, <2>6 DEF Shown
  <2>. QED
    BY <2>6 DEF FailuresShown
<1>. QED
  BY <1>2, <1>3

\* One step of the handler, when the list is right for what it settles.
LEMMA ProceedKeeps ==
  ASSUME IInv, NEW b \in Batches, NEW sockets, NEW promises, NEW tasks,
         Settled(b, sockets, promises), tasks \in [Uploads -> Statuses],
         \A v \in Uploads : promise[v] = "none" => tasks[v] = task[v],
         Shown(promises, tasks), Proceed(b, sockets, promises, tasks)
  PROVE  IInv'
  BY ProceedTypes, ProceedBatches, ProceedLast, ProceedSockets, ProceedFlags, ProceedShows
     DEF IInv

-----------------------------------------------------------------------------
(* The steps *)

LEMMA InitIInv == Init => IInv
<1>. SUFFICES ASSUME Init PROVE IInv
  OBVIOUS
<1>1. Types
  <2>1. <<>> \in Seq(Nat) /\ -1 \in -1..Size
    BY SizeAssumption
  <2>. QED
    BY <2>1 DEF Init, Types, Sockets, Promises, Statuses
<1>2. BatchInv
  <2>1. ASSUME NEW b \in Batches, NEW k \in 1..Len(Queue[b])
        PROVE  /\ Queue[b][k] \in Uploads /\ at[b] = 0 /\ k > 0
    BY Places DEF Init
  <2>. QED
    BY <2>1 DEF Init, BatchInv
<1>3. LastInv
  BY DEF Init, LastInv
<1>4. SocketInv /\ OneLoopUndisturbed
  <2>1. Len(<<>>) = 0 /\ 1..0 = {}
    OBVIOUS
  <2>. QED
    BY <2>1 DEF Init, SocketInv, OneLoopUndisturbed
<1>5. FlagInv /\ EndMeansAll
  BY DEF Init, FlagInv, EndMeansAll
<1>6. FailuresShown
  BY DEF Init, FailuresShown, Uploads
<1>. QED
  BY <1>1, <1>2, <1>3, <1>4, <1>5, <1>6 DEF IInv

LEMMA UploadStep ==
  ASSUME IInv, NEW b \in Batches, Upload(b)
  PROVE  IInv'
<1>1. at[b] = 0 /\ Proceed(b, ws, promise, task)
  BY DEF Upload
<1>2. Settled(b, ws, promise)
  <2>1. \A v \in Uploads : ~Awaits(b, v)
    BY <1>1 DEF Awaits
  <2>2. at[b] \in 0..Len(Queue[b])
    BY <1>1, Places
  <2>. QED
    BY <2>1, <2>2 DEF Settled, IInv, Types
<1>3. Shown(promise, task) /\ task \in [Uploads -> Statuses]
  BY DEF IInv, FailuresShown, Shown, Types
<1>. QED
  BY <1>1, <1>2, <1>3, ProceedKeeps

\* The one upload a batch awaits is settled by its answer.
LEMMA AwaitedOnly ==
  ASSUME IInv, NEW b \in Batches, NEW u \in Uploads, Awaits(b, u),
         NEW outcome \in {"resolved", "rejected"}
  PROVE  Settled(b, [ws EXCEPT ![u] = "closing"], [promise EXCEPT ![u] = outcome])
<1>1. at[b] \in 1..Len(Queue[b]) /\ Queue[b][at[b]] = u
  BY DEF Awaits
<1>2. \A v \in Uploads : Awaits(b, v) <=> v = u
  BY <1>1 DEF Awaits
<1>3. ws \in [Uploads -> Sockets] /\ promise \in [Uploads -> Promises]
  BY DEF IInv, Types
<1>. QED
  BY <1>1, <1>2, <1>3 DEF Settled, Sockets, Promises

LEMMA SuccessStep ==
  ASSUME IInv, NEW b \in Batches, NEW u \in Uploads, OnSuccess(b, u)
  PROVE  IInv'
<1>. DEFINE promises == [promise EXCEPT ![u] = "resolved"]
            tasks == [task EXCEPT ![u] = "success"]
<1>1. Awaits(b, u) /\ Proceed(b, [ws EXCEPT ![u] = "closing"], promises, tasks)
  BY DEF OnSuccess
<1>2. Settled(b, [ws EXCEPT ![u] = "closing"], promises)
  BY <1>1, AwaitedOnly
<1>3. promise \in [Uploads -> Promises] /\ task \in [Uploads -> Statuses]
  BY DEF IInv, Types
<1>4. tasks \in [Uploads -> Statuses]
  BY <1>3 DEF Statuses
<1>5. \A v \in Uploads : /\ promises[v] = IF v = u THEN "resolved" ELSE promise[v]
                        /\ tasks[v] = IF v = u THEN "success" ELSE task[v]
  BY <1>3
<1>6. promise[u] = "pending"
  BY <1>1 DEF Awaits, IInv, BatchInv
<1>. HIDE DEF promises, tasks
<1>7. \A v \in Uploads : promise[v] = "none" => tasks[v] = task[v]
  BY <1>5, <1>6
<1>8. Shown(promises, tasks)
  <2>1. \A c \in Batches : Range(Queue[c]) \subseteq Uploads
    BY DEF Uploads
  <2>. QED
    BY <1>5, <1>6, <2>1 DEF Shown, IInv, FailuresShown
<1>. QED
  BY <1>1, <1>2, <1>4, <1>7, <1>8, ProceedKeeps

LEMMA FailureStep ==
  ASSUME IInv, NEW b \in Batches, NEW u \in Uploads, OnFailure(b, u)
  PROVE  IInv'
<1>. DEFINE promises == [promise EXCEPT ![u] = "rejected"]
            tasks == [v \in Uploads |-> IF v = u \/ <<v>> = lastTask THEN "error" ELSE task[v]]
<1>1. Awaits(b, u) /\ Proceed(b, [ws EXCEPT ![u] = "closing"], promises, tasks)
  BY DEF OnFailure
<1>2. Settled(b, [ws EXCEPT ![u] = "closing"], promises)
  BY <1>1, AwaitedOnly
<1>3. promise \in [Uploads -> Promises] /\ task \in [Uploads -> Statuses]
  BY DEF IInv, Types
<1>4. tasks \in [Uploads -> Statuses]
  BY <1>3 DEF Statuses
<1>5. \A v \in Uploads : /\ promises[v] = IF v = u THEN "rejected" ELSE promise[v]
                        /\ tasks[v] = IF v = u \/ <<v>> = lastTask THEN "error" ELSE task[v]
  BY <1>3
<1>6. at[b] \in 1..Len(Queue[b]) /\ Queue[b][at[b]] = u /\ Len(Queue[b]) \in Nat
  BY <1>1, Places DEF Awaits
<1>7. promise[u] = "pending"
  BY <1>6 DEF IInv, BatchInv
<1>. HIDE DEF promises, tasks
\* The last task of the list was begun; in the batch of u it is u.
<1>8. ASSUME NEW v \in Uploads, <<v>> = lastTask
      PROVE  promise[v] # "none" /\ (v \in Range(Queue[b]) => v = u)
  <2>1. <<v>> # None
    BY DEF None
  <2>2. PICK c \in Batches : \E k \in 1..Len(Queue[c]) :
          /\ lastTask = <<Queue[c][k]>> /\ k <= at[c]
          /\ k = at[c] \/ k = Len(Queue[c])
    BY <1>8, <2>1 DEF IInv, LastInv
  <2>3. PICK k \in 1..Len(Queue[c]) :
          /\ lastTask = <<Queue[c][k]>> /\ k <= at[c]
          /\ k = at[c] \/ k = Len(Queue[c])
    BY <2>2
  <2>4. v = Queue[c][k]
    BY <1>8, <2>3
  <2>5. at[c] \in Nat /\ Len(Queue[c]) \in Nat
    BY Places DEF IInv, Types
  <2>6. promise[v] # "none"
    BY <2>3, <2>4, <2>5 DEF IInv, BatchInv
  <2>7. ASSUME v \in Range(Queue[b]) PROVE v = u
    <3>1. PICK l \in 1..Len(Queue[b]) : v = Queue[b][l]
      BY <2>7, Places DEF Range
    <3>2. c = b
      BY <2>4, <3>1, OnePlace
    <3>3. k = at[b]
      BY <1>6, <2>3, <3>2
    <3>. QED
      BY <1>6, <2>4, <3>2, <3>3
  <2>. QED
    BY <2>6, <2>7
<1>9. \A v \in Uploads : promise[v] = "none" => tasks[v] = task[v]
  BY <1>5, <1>7, <1>8
<1>10. Shown(promises, tasks)
  <2>1. \A c \in Batches : Range(Queue[c]) \subseteq Uploads
    BY DEF Uploads
  <2>2. ASSUME NEW c \in Batches, NEW v \in Range(Queue[c])
        PROVE  /\ promises[v] = "rejected" => tasks[v] = "error"
               /\ tasks[v] = "error" /\ promises[v] # "rejected" /\ v \notin late =>
                    \E w \in Uploads \ Range(Queue[c]) : promises[w] = "rejected"
    <3>1. v \in Uploads
      BY <2>1
    <3>2. /\ promise[v] = "rejected" => task[v] = "error"
          /\ task[v] = "error" /\ promise[v] # "rejected" /\ v \notin late =>
               \E w \in Uploads \ Range(Queue[c]) : promise[w] = "rejected"
      BY DEF IInv, FailuresShown
    <3>3. CASE v # u /\ <<v>> = lastTask
      <4>1. v \notin Range(Queue[b])
        BY <1>8, <3>1, <3>3
      <4>2. u \notin Range(Queue[c])
        <5>1. SUFFICES ASSUME u \in Range(Queue[c]) PROVE FALSE
          OBVIOUS
        <5>2. PICK l \in 1..Len(Queue[c]) : u = Queue[c][l]
          BY <5>1, Places DEF Range
        <5>3. c = b
          BY <1>6, <5>2, OnePlace
        <5>. QED
          BY <4>1, <5>3
      <4>. QED
        BY <1>5, <3>1, <3>3, <4>2
    <3>4. CASE v = u \/ <<v>> # lastTask
      BY <1>5, <3>1, <3>2, <3>4
    <3>. QED
      BY <3>3, <3>4
  <2>. QED
    BY <2>2 DEF Shown
<1>. QED
  BY <1>1, <1>2, <1>4, <1>9, <1>10, ProceedKeeps

\* Clearing the list changes no upload.
LEMMA ClearAllStep ==
  ASSUME IInv, ClearAll
  PROVE  IInv'
<1>1. LastInv'
  BY DEF ClearAll, LastInv
<1>2. Types' /\ BatchInv' /\ SocketInv' /\ EndMeansAll' /\ OneLoopUndisturbed' /\ FailuresShown'
  BY DEF ClearAll, IInv, Types, BatchInv, SocketInv, EndMeansAll, OneLoopUndisturbed, FailuresShown
<1>3. FlagInv'
  BY DEF ClearAll, IInv, FlagInv, Pending
<1>. QED
  BY <1>1, <1>2, <1>3 DEF IInv

\* An upload with a WebSocket has begun.
LEMMA HasBegun ==
  ASSUME IInv, NEW u \in Uploads, ws[u] # "none"
  PROVE  promise[u] # "none"
<1>1. PICK b \in Batches : \E k \in 1..Len(Queue[b]) : u = Queue[b][k]
  BY Places
<1>2. PICK k \in 1..Len(Queue[b]) : u = Queue[b][k]
  BY <1>1
<1>3. Len(Queue[b]) \in Nat /\ at[b] \in Nat
  BY Places DEF IInv, Types
<1>4. k > at[b] \/ k = at[b] \/ k < at[b]
  BY <1>3
<1>. QED
  BY <1>2, <1>4 DEF IInv, BatchInv

\* No handler of a WebSocket and no loop changes the batches, the promises and the
\* list, or an upload that has not begun.
LEMMA BatchesKept ==
  ASSUME IInv, UNCHANGED <<at, promise, lastTask, late>>, UNCHANGED task,
         \A v \in Uploads : promise[v] = "none" =>
           /\ ws'[v] = ws[v] /\ resume'[v] = resume[v] /\ loops'[v] = loops[v]
           /\ v \in disturbed' => v \in disturbed
           /\ v \in ended' => v \in ended
  PROVE  BatchInv' /\ LastInv' /\ FailuresShown'
<1>1. BatchInv'
  BY Places DEF IInv, BatchInv
<1>2. LastInv'
  BY DEF IInv, LastInv
<1>3. FailuresShown'
  BY DEF IInv, FailuresShown
<1>. QED
  BY <1>1, <1>2, <1>3

LEMMA OpenStep ==
  ASSUME IInv, NEW u \in Uploads, OnOpen(u)
  PROVE  IInv'
<1>1. /\ ws[u] = "connecting" /\ ws' = [ws EXCEPT ![u] = "open"]
      /\ UNCHANGED <<at, started, loops, resume, sent, ended, promise, task, lastTask,
                     disturbed, congested, late>>
  BY DEF OnOpen
<1>2. Types'
  BY <1>1 DEF IInv, Types, Sockets
<1>3. \A v \in Uploads : ws'[v] = IF v = u THEN "open" ELSE ws[v]
  BY <1>1 DEF IInv, Types
<1>4. BatchInv' /\ LastInv' /\ FailuresShown'
  BY <1>1, <1>3, HasBegun, BatchesKept
<1>5. resume[u] = -1 /\ loops[u] = <<>> /\ promise[u] = "pending"
  BY <1>1 DEF IInv, SocketInv
<1>6. SocketInv'
  BY <1>1, <1>3, <1>5 DEF IInv, SocketInv
<1>7. FlagInv'
  BY <1>1, <1>3, <1>5 DEF IInv, FlagInv, Pending
<1>8. EndMeansAll'
  BY <1>1 DEF IInv, EndMeansAll
<1>9. OneLoopUndisturbed'
  BY <1>1, <1>3, <1>5 DEF IInv, OneLoopUndisturbed
<1>. QED
  BY <1>2, <1>4, <1>6, <1>7, <1>8, <1>9 DEF IInv

\* When the WebSocket of an upload is closed, its connection is forgotten; whoever is
\* still pending is disturbed.
LEMMA ClosesKeeps ==
  ASSUME IInv, NEW u \in Uploads, ws[u] \in {"open", "closing"}, Closes(u),
         task' \in [Uploads -> Statuses], late' \subseteq Uploads,
         \A v \in Uploads : promise[v] = "none" => task'[v] = task[v],
         FailuresShown'
  PROVE  IInv'
<1>1. /\ ws' = [ws EXCEPT ![u] = "closed"] /\ Disconnect(ws')
      /\ started' = FALSE /\ disturbed' = disturbed \union (Pending \ {u})
      /\ UNCHANGED <<at, promise, lastTask>>
  BY DEF Closes
<1>2. Types'
  <2>1. ws' \in [Uploads -> Sockets]
    BY <1>1 DEF IInv, Types, Sockets
  <2>2. /\ loops' \in [Uploads -> Seq(Nat)] /\ resume' \in [Uploads -> -1..Size]
        /\ sent' \in [Uploads -> SUBSET Int]
        /\ ended' \subseteq Uploads /\ congested' \subseteq Uploads
    BY <1>1, DisconnectTypes DEF IInv
  <2>3. disturbed' \subseteq Uploads
    BY <1>1 DEF IInv, Types, Pending
  <2>. QED
    BY <1>1, <2>1, <2>2, <2>3 DEF IInv, Types
<1>3. \A v \in Uploads :
        /\ ws'[v] = IF v = u THEN "closed" ELSE ws[v]
        /\ ws'[v] = "open" => loops'[v] = loops[v] /\ resume'[v] = resume[v] /\ sent'[v] = sent[v]
        /\ ws'[v] # "open" => loops'[v] = <<>> /\ resume'[v] = -1 /\ v \notin ended'
        /\ v \in ended' => v \in ended
  BY <1>1, DisconnectEffect DEF IInv, Types
<1>4. \A v \in Uploads : ws[v] # "open" => resume[v] = -1
  BY DEF IInv, SocketInv
<1>5. BatchInv'
  <2>1. promise[u] # "none"
    BY HasBegun
  <2>2. \A v \in Uploads : promise[v] = "none" =>
          /\ ws'[v] = ws[v] /\ task'[v] = task[v]
          /\ v \in disturbed' => v \in disturbed
    BY <1>1, <1>3, <2>1 DEF Pending
  <2>3. ASSUME NEW b \in Batches, NEW k \in 1..Len(Queue[b])
        PROVE  LET v == Queue[b][k]
               IN  /\ k > at[b] => /\ ws'[v] = "none" /\ promise[v] = "none" /\ task'[v] = "none"
                                   /\ resume'[v] = -1 /\ loops'[v] = <<>> /\ v \notin disturbed'
                                   /\ v \notin ended'
                   /\ k = at[b] => promise[v] = "pending"
                   /\ k < at[b] => promise[v] \in {"resolved", "rejected"}
    BY <1>3, <2>2, Places DEF IInv, BatchInv
  <2>. QED
    BY <1>1, <2>3 DEF BatchInv
<1>6. LastInv'
  BY <1>1 DEF IInv, LastInv
<1>7. Len(<<>>) = 0 /\ 1..0 = {}
  OBVIOUS
<1>8. SocketInv'
  BY <1>1, <1>3, <1>7 DEF IInv, SocketInv
<1>9. FlagInv'
  <2>1. ASSUME NEW v \in Uploads \ disturbed'
        PROVE  /\ promise'[v] = "pending" => Pending' = {v}
               /\ ws'[v] \in {"connecting", "open"} => (started' <=> resume'[v] # -1)
               /\ resume'[v] = -1 => loops'[v] = <<>>
    <3>1. v \notin disturbed /\ (v = u \/ promise[v] # "pending")
      BY <1>1, <2>1 DEF Pending
    <3>2. ws'[v] \notin {"connecting", "open"}
      BY <1>3, <3>1 DEF IInv, SocketInv
    <3>. QED
      BY <1>1, <1>3, <3>1, <3>2 DEF IInv, FlagInv, Pending
  <2>. QED
    BY <2>1 DEF FlagInv
<1>10. EndMeansAll'
  BY <1>2, <1>3 DEF IInv, EndMeansAll, Types
<1>11. OneLoopUndisturbed'
  BY <1>1, <1>3, <1>7 DEF IInv, OneLoopUndisturbed
<1>. QED
  BY <1>2, <1>5, <1>6, <1>8, <1>9, <1>10, <1>11 DEF IInv

LEMMA CloseStep ==
  ASSUME IInv, NEW u \in Uploads, OnClose(u)
  PROVE  IInv'
<1>1. ws[u] \in {"open", "closing"} /\ Closes(u) /\ UNCHANGED <<task, late>>
  BY DEF OnClose
<1>2. UNCHANGED promise
  BY <1>1 DEF Closes
<1>3. FailuresShown'
  BY <1>1, <1>2 DEF IInv, FailuresShown
<1>4. task' \in [Uploads -> Statuses] /\ late' \subseteq Uploads
  BY <1>1 DEF IInv, Types
<1>. QED
  BY <1>1, <1>3, <1>4, ClosesKeeps

\* The task of an upload that succeeded shows the error of its connection.
LEMMA LateErrorStep ==
  ASSUME IInv, NEW u \in Uploads, OnLateError(u)
  PROVE  IInv'
<1>1. /\ ws[u] = "closing" /\ promise[u] = "resolved" /\ Closes(u)
      /\ task' = [task EXCEPT ![u] = "error"] /\ late' = late \union {u}
  BY DEF OnLateError
<1>2. UNCHANGED promise
  BY <1>1 DEF Closes
<1>3. \A v \in Uploads : task'[v] = IF v = u THEN "error" ELSE task[v]
  BY <1>1 DEF IInv, Types
<1>4. FailuresShown'
  <2>1. \A b \in Batches : Range(Queue[b]) \subseteq Uploads
    BY DEF Uploads
  <2>. QED
    BY <1>1, <1>2, <1>3, <2>1 DEF IInv, FailuresShown
<1>5. task' \in [Uploads -> Statuses] /\ late' \subseteq Uploads
  BY <1>1 DEF IInv, Types, Statuses
<1>6. \A v \in Uploads : promise[v] = "none" => task'[v] = task[v]
  BY <1>1, <1>3
<1>. QED
  BY <1>1, <1>4, <1>5, <1>6, ClosesKeeps

\* What a loop has behind it was sent.
LEMMA LoopHasSent ==
  ASSUME IInv, NEW u \in Uploads, NEW i \in DOMAIN loops[u], loops[u][i] <= Size
  PROVE  resume[u] .. loops[u][i] - 1 \subseteq sent[u]
<1>1. loops[u] \in Seq(Nat)
  BY DEF IInv, Types
<1>2. i \in 1..Len(loops[u])
  BY <1>1
<1>. QED
  BY <1>2 DEF IInv, SocketInv

\* A loop of u moves on to n, and what it leaves behind was sent.
LEMMA LoopMoves ==
  ASSUME IInv, NEW u \in Uploads, NEW i \in DOMAIN loops[u], NEW n \in Nat,
         loops' = [loops EXCEPT ![u][i] = n],
         UNCHANGED <<at, started, ws, resume, promise, task, lastTask, disturbed, late>>,
         congested' \subseteq congested \union {u},
         sent' \in [Uploads -> SUBSET Int], \A v \in Uploads : sent[v] \subseteq sent'[v],
         n <= Size => resume[u] .. n - 1 \subseteq sent'[u],
         ended' \subseteq ended \union {u}, 
         u \in ended' \ ended => resume[u] .. Size - 1 \subseteq sent'[u]
  PROVE  IInv'
<1>1. loops \in [Uploads -> Seq(Nat)]
  BY DEF IInv, Types
<1>2. i \in 1..Len(loops[u]) /\ Len(loops[u]) \in Nat
  BY <1>1
<1>3. /\ loops' \in [Uploads -> Seq(Nat)]
      /\ \A v \in Uploads : Len(loops'[v]) = Len(loops[v])
      /\ \A v \in Uploads : \A k \in 1..Len(loops[v]) :
           loops'[v][k] = IF v = u /\ k = i THEN n ELSE loops[v][k]
  BY <1>1, <1>2
<1>4. loops[u] # <<>> /\ ws[u] = "open" /\ resume[u] # -1 /\ promise[u] = "pending"
  BY <1>2 DEF IInv, SocketInv
<1>5. \A v \in Uploads : v # u => loops'[v] = loops[v]
  BY <1>1
<1>6. Types'
  BY <1>3 DEF IInv, Types
<1>7. BatchInv' /\ LastInv' /\ FailuresShown'
  BY <1>4, <1>5, BatchesKept
<1>8. SocketInv'
  <2>1. ASSUME NEW v \in Uploads
        PROVE  /\ ws'[v] \in {"connecting", "open"} => promise'[v] = "pending"
               /\ ws'[v] # "open" => loops'[v] = <<>> /\ resume'[v] = -1
               /\ \A k \in 1..Len(loops'[v]) :
                    /\ resume'[v] # -1
                    /\ loops'[v][k] <= Size => resume'[v] .. loops'[v][k] - 1 \subseteq sent'[v]
    <3>1. /\ ws[v] \in {"connecting", "open"} => promise[v] = "pending"
          /\ ws[v] # "open" => loops[v] = <<>> /\ resume[v] = -1
          /\ \A k \in 1..Len(loops[v]) :
               /\ resume[v] # -1
               /\ loops[v][k] <= Size => resume[v] .. loops[v][k] - 1 \subseteq sent[v]
      BY DEF IInv, SocketInv
    <3>2. ws'[v] # "open" => loops'[v] = <<>>
      BY <1>4, <1>5, <3>1
    <3>3. ASSUME NEW k \in 1..Len(loops[v]), loops'[v][k] <= Size
          PROVE  resume[v] .. loops'[v][k] - 1 \subseteq sent'[v]
      BY <1>3, <3>1, <3>3
    <3>. QED
      BY <1>3, <3>1, <3>2, <3>3
  <2>. QED
    BY <2>1 DEF SocketInv
<1>9. FlagInv'
  BY <1>4, <1>5 DEF IInv, FlagInv, Pending
<1>10. EndMeansAll'
  BY DEF IInv, EndMeansAll, Types
<1>11. OneLoopUndisturbed'
  BY <1>3 DEF IInv, OneLoopUndisturbed
<1>. QED
  BY <1>6, <1>7, <1>8, <1>9, <1>10, <1>11 DEF IInv

LEMMA SendChunkStep ==
  ASSUME IInv, NEW u \in Uploads, NEW i \in DOMAIN loops[u], SendChunk(u, i)
  PROVE  IInv'
<1>. DEFINE n == loops[u][i]
<1>1. /\ n < Size /\ sent' = [sent EXCEPT ![u] = @ \union {n}]
      /\ loops' = [loops EXCEPT ![u][i] = @ + 1]
      /\ congested' \subseteq congested \union {u}
      /\ UNCHANGED <<at, started, ws, resume, ended, promise, task, lastTask, late, disturbed>>
  BY DEF SendChunk
<1>2. n \in Nat /\ sent \in [Uploads -> SUBSET Int] /\ resume[u] \in Int /\ Size \in Nat
  BY SizeAssumption DEF IInv, Types
<1>3. resume[u] .. n - 1 \subseteq sent[u]
  BY <1>1, <1>2, LoopHasSent
<1>4. loops' = [loops EXCEPT ![u][i] = n + 1]
  BY <1>1
<1>. HIDE DEF n
<1>5. /\ sent' \in [Uploads -> SUBSET Int] /\ \A v \in Uploads : sent[v] \subseteq sent'[v]
      /\ sent'[u] = sent[u] \union {n}
  BY <1>1, <1>2
<1>6. resume[u] .. (n + 1) - 1 \subseteq sent'[u]
  BY <1>2, <1>3, <1>5
<1>7. n + 1 \in Nat
  BY <1>2
<1>8. ended' \subseteq ended \union {u} /\ u \notin ended' \ ended
  BY <1>1
<1>. QED
  BY <1>1, <1>4, <1>5, <1>6, <1>7, <1>8, LoopMoves

LEMMA SendEndStep ==
  ASSUME IInv, NEW u \in Uploads, NEW i \in DOMAIN loops[u], SendEnd(u, i)
  PROVE  IInv'
<1>1. /\ loops[u][i] = Size /\ ended' = ended \union {u}
      /\ loops' = [loops EXCEPT ![u][i] = Over]
      /\ UNCHANGED <<at, started, ws, resume, sent, promise, task, lastTask, disturbed,
                     congested, late>>
  BY DEF SendEnd
<1>2. resume[u] .. Size - 1 \subseteq sent[u]
  BY <1>1, LoopHasSent, SizeAssumption
<1>3. Over \in Nat /\ ~(Over <= Size)
  BY SizeAssumption DEF Over
<1>4. sent' \in [Uploads -> SUBSET Int]
  BY <1>1 DEF IInv, Types
<1>. QED
  BY <1>1, <1>2, <1>3, <1>4, LoopMoves

LEMMA ReadFailsStep ==
  ASSUME IInv, NEW u \in Uploads, NEW i \in DOMAIN loops[u], ReadFails(u, i)
  PROVE  IInv'
<1>1. /\ loops' = [loops EXCEPT ![u][i] = Over]
      /\ UNCHANGED <<at, started, ws, resume, sent, ended, promise, task, lastTask,
                     disturbed, congested, late>>
  BY DEF ReadFails
<1>2. Over \in Nat /\ ~(Over <= Size)
  BY SizeAssumption DEF Over
<1>3. sent' \in [Uploads -> SUBSET Int]
  BY <1>1 DEF IInv, Types
<1>. QED
  BY <1>1, <1>2, <1>3, LoopMoves

\* Backpressure is nobody's promise.
LEMMA DrainStep ==
  ASSUME IInv, NEW u \in Uploads, Drain(u)
  PROVE  IInv'
<1>1. Types'
  BY DEF Drain, IInv, Types
<1>2. BatchInv' /\ LastInv' /\ SocketInv' /\ FlagInv'
  BY DEF Drain, IInv, BatchInv, LastInv, SocketInv, FlagInv, Pending
<1>3. EndMeansAll' /\ OneLoopUndisturbed' /\ FailuresShown'
  BY DEF Drain, IInv, EndMeansAll, OneLoopUndisturbed, FailuresShown
<1>. QED
  BY <1>1, <1>2, <1>3 DEF IInv

LEMMA ProgressStep ==
  ASSUME IInv, NEW u \in Uploads, NEW n \in 0..Size, OnProgress(u, n)
  PROVE  IInv'
<1>1. /\ ws[u] = "open" /\ promise[u] = "pending" /\ started' = TRUE
      /\ n \in IF resume[u] = -1 THEN 0..Size ELSE resume[u]..Reached(u)
      /\ resume' = [resume EXCEPT ![u] = IF @ = -1 THEN n ELSE @]
      /\ loops' = IF started THEN loops ELSE [loops EXCEPT ![u] = Append(@, n)]
      /\ UNCHANGED <<at, ws, sent, ended, promise, task, lastTask, disturbed, congested,
                     late>>
  BY DEF OnProgress
<1>2. /\ loops \in [Uploads -> Seq(Nat)] /\ resume \in [Uploads -> -1..Size]
      /\ n \in Nat /\ Size \in Nat /\ started \in BOOLEAN
  BY SizeAssumption DEF IInv, Types
<1>3. \A v \in Uploads :
        /\ v # u => resume'[v] = resume[v] /\ loops'[v] = loops[v]
        /\ resume'[u] = IF resume[u] = -1 THEN n ELSE resume[u]
        /\ loops'[u] = IF started THEN loops[u] ELSE Append(loops[u], n)
  BY <1>1, <1>2
<1>4. /\ Len(loops[u]) \in Nat /\ loops[u] \in Seq(Nat)
      /\ resume'[u] \in 0..Size /\ resume' \in [Uploads -> -1..Size]
  BY <1>1, <1>2, <1>3
<1>5. Types'
  <2>1. loops' \in [Uploads -> Seq(Nat)]
    BY <1>1, <1>2
  <2>. QED
    BY <1>1, <1>4, <2>1 DEF IInv, Types
<1>6. BatchInv' /\ LastInv' /\ FailuresShown'
  BY <1>1, <1>3, BatchesKept
\* What the server says it has was sent.
<1>7. resume'[u] .. n - 1 \subseteq sent[u]
  <2>1. CASE resume[u] = -1
    BY <1>2, <1>3, <2>1
  <2>2. CASE resume[u] # -1
    <3>1. Reached(u) \in resume[u]..Size /\ resume[u] .. Reached(u) - 1 \subseteq sent[u]
      BY <2>2, ReachedHas DEF IInv
    <3>2. n \in resume[u]..Reached(u)
      BY <1>1, <2>2
    <3>3. \A k \in resume[u] .. n - 1 : k \in resume[u] .. Reached(u) - 1
      BY <1>2, <3>1, <3>2
    <3>. QED
      BY <1>3, <2>2, <3>1, <3>3
  <2>. QED
    BY <2>1, <2>2
<1>8. resume[u] = -1 => loops[u] = <<>>
  <2>1. SUFFICES ASSUME resume[u] = -1 PROVE loops[u] = <<>>
    OBVIOUS
  <2>2. ~\E i \in 1..Len(loops[u]) : TRUE
    BY <2>1 DEF IInv, SocketInv
  <2>. QED
    BY <1>4, <2>2
<1>9. ASSUME NEW i \in 1..Len(loops'[u]), loops'[u][i] <= Size
      PROVE  resume'[u] .. loops'[u][i] - 1 \subseteq sent'[u]
  <2>1. CASE i \in 1..Len(loops[u])
    <3>1. resume[u] # -1
      BY <2>1 DEF IInv, SocketInv
    <3>2. loops'[u][i] = loops[u][i]
      <4>1. Append(loops[u], n)[i] = loops[u][i]
        BY <1>2, <1>4, <2>1
      <4>. QED
        BY <1>3, <4>1
    <3>3. resume[u] .. loops[u][i] - 1 \subseteq sent[u]
      BY <1>9, <2>1, <3>2 DEF IInv, SocketInv
    <3>. QED
      BY <1>1, <1>3, <3>1, <3>2, <3>3
  <2>2. CASE i \notin 1..Len(loops[u])
    <3>1. loops'[u] = Append(loops[u], n)
      BY <1>3, <1>9, <2>2
    <3>2. i = Len(loops[u]) + 1
      BY <1>4, <1>9, <2>2, <3>1
    <3>3. loops'[u][i] = n
      BY <1>2, <1>4, <3>1, <3>2
    <3>. QED
      BY <1>1, <1>7, <3>3
  <2>. QED
    BY <2>1, <2>2
<1>10. resume'[u] # -1
  BY <1>4
<1>11. SocketInv'
  <2>1. ASSUME NEW v \in Uploads
        PROVE  /\ ws'[v] \in {"connecting", "open"} => promise'[v] = "pending"
               /\ ws'[v] # "open" => loops'[v] = <<>> /\ resume'[v] = -1
               /\ \A k \in 1..Len(loops'[v]) :
                    /\ resume'[v] # -1
                    /\ loops'[v][k] <= Size => resume'[v] .. loops'[v][k] - 1 \subseteq sent'[v]
    <3>1. CASE v = u
      BY <1>1, <1>9, <1>10, <3>1
    <3>2. CASE v # u
      BY <1>1, <1>3, <3>2 DEF IInv, SocketInv
    <3>. QED
      BY <3>1, <3>2
  <2>. QED
    BY <2>1 DEF SocketInv
\* Whoever else is pending is disturbed.
<1>12. ASSUME NEW v \in Uploads \ disturbed, v # u
       PROVE  promise[v] # "pending" /\ ws[v] \notin {"connecting", "open"}
  BY <1>1, <1>12 DEF IInv, FlagInv, SocketInv, Pending
<1>13. FlagInv'
  <2>1. ASSUME NEW v \in Uploads \ disturbed
        PROVE  /\ promise[v] = "pending" => Pending = {v}
               /\ ws[v] \in {"connecting", "open"} => (started' <=> resume'[v] # -1)
               /\ resume'[v] = -1 => loops'[v] = <<>>
    <3>1. /\ promise[v] = "pending" => Pending = {v}
          /\ resume[v] = -1 => loops[v] = <<>>
      BY DEF IInv, FlagInv
    <3>2. CASE v = u
      BY <1>1, <1>10, <3>1, <3>2
    <3>3. CASE v # u
      BY <1>3, <1>12, <3>1, <3>3
    <3>. QED
      BY <3>2, <3>3
  <2>2. Pending' = Pending
    BY <1>1 DEF Pending
  <2>. QED
    BY <1>1, <2>1, <2>2 DEF FlagInv
<1>14. EndMeansAll'
  <2>1. ASSUME NEW v \in ended PROVE resume'[v] .. Size - 1 \subseteq sent[v]
    <3>1. v \in Uploads /\ resume[v] .. Size - 1 \subseteq sent[v]
      BY DEF IInv, EndMeansAll, Types
    <3>2. CASE v = u
      BY <1>2, <1>3, <3>1, <3>2
    <3>3. CASE v # u
      BY <1>3, <3>1, <3>3
    <3>. QED
      BY <3>2, <3>3
  <2>. QED
    BY <1>1, <2>1 DEF EndMeansAll
<1>15. OneLoopUndisturbed'
  <2>1. ASSUME NEW v \in Uploads \ disturbed
        PROVE  /\ Len(loops'[v]) <= 1
               /\ ws[v] = "open" /\ resume'[v] # -1 => Len(loops'[v]) = 1
    <3>1. /\ Len(loops[v]) <= 1
          /\ ws[v] = "open" /\ resume[v] # -1 => Len(loops[v]) = 1
          /\ ws[v] \in {"connecting", "open"} => (started <=> resume[v] # -1)
      BY DEF IInv, OneLoopUndisturbed, FlagInv
    <3>2. CASE v # u
      BY <1>3, <3>1, <3>2
    <3>3. CASE v = u /\ started
      BY <1>1, <1>3, <3>1, <3>3
    <3>4. CASE v = u /\ ~started
      <4>1. loops'[u] = Append(<<>>, n)
        BY <1>1, <1>3, <1>8, <3>1, <3>4
      <4>2. Len(Append(<<>>, n)) = 1
        OBVIOUS
      <4>. QED
        BY <3>4, <4>1, <4>2
    <3>. QED
      BY <3>2, <3>3, <3>4
  <2>. QED
    BY <1>1, <2>1 DEF OneLoopUndisturbed
<1>. QED
  BY <1>5, <1>6, <1>11, <1>13, <1>14, <1>15 DEF IInv

LEMMA StutterStep ==
  ASSUME IInv, UNCHANGED vars
  PROVE  IInv'
  BY DEF IInv, vars, Types, BatchInv, LastInv, SocketInv, FlagInv, Pending, EndMeansAll,
         OneLoopUndisturbed, FailuresShown

LEMMA NextIInv == IInv /\ [Next]_vars => IInv'
<1>. SUFFICES ASSUME IInv, [Next]_vars PROVE IInv'
  OBVIOUS
<1>1. CASE ClearAll
  BY <1>1, ClearAllStep
<1>2. ASSUME NEW b \in Batches, Upload(b) PROVE IInv'
  BY <1>2, UploadStep
<1>3. ASSUME NEW b \in Batches, NEW u \in Uploads, OnSuccess(b, u) \/ OnFailure(b, u)
      PROVE  IInv'
  BY <1>3, SuccessStep, FailureStep
<1>4. ASSUME NEW u \in Uploads, OnOpen(u) \/ OnClose(u) PROVE IInv'
  BY <1>4, OpenStep, CloseStep
<1>5. ASSUME NEW u \in Uploads, Loop(u) PROVE IInv'
  BY <1>5, SendChunkStep, SendEndStep, ReadFailsStep DEF Loop
<1>6. ASSUME NEW u \in Uploads, NEW n \in 0..Size, OnProgress(u, n) PROVE IInv'
  BY <1>6, ProgressStep
<1>7. ASSUME NEW u \in Uploads, OnLateError(u) \/ Drain(u) PROVE IInv'
  BY <1>7, LateErrorStep, DrainStep
<1>8. CASE UNCHANGED vars
  BY <1>8, StutterStep
<1>. QED
  BY <1>1, <1>2, <1>3, <1>4, <1>5, <1>6, <1>7, <1>8 DEF Next

LEMMA Invariance == Spec => []IInv
  BY InitIInv, NextIInv, PTL DEF Spec

-----------------------------------------------------------------------------
(* The theorems *)

\* "end" tells the server that the file is complete: readAndSendFile sends it
\* behind every chunk from where the server asked it to start, whatever the loops
\* that share one WebSocket do and whatever reset the flag between them.
THEOREM EndIsComplete == Spec => []EndMeansAll
<1>. IInv => EndMeansAll
  BY DEF IInv
<1>. QED
  BY Invariance, PTL

\* _startedSending is one flag for all uploads of the uploader.  It starts a second
\* loop, or none, only for an upload that another began or closed beside.
THEOREM FlagServesOne == Spec => []OneLoopUndisturbed
<1>. IInv => OneLoopUndisturbed
  BY DEF IInv
<1>. QED
  BY Invariance, PTL

\* The catch of the upload handler marks the last task of the list, whichever that
\* is by then; onError has marked the right one.
THEOREM FailuresAreShown == Spec => []FailuresShown
<1>. IInv => FailuresShown
  BY DEF IInv
<1>. QED
  BY Invariance, PTL
=============================================================================
