-------------------------- MODULE ScanHoldingProofs --------------------------
(***************************************************************************)
(* Proofs about ScanLifecycle: who holds an active job and its credentials *)
(* at any time, what an answer tells, and that the program implements the  *)
(* safety part of JobContract.                                             *)
(***************************************************************************)
EXTENDS ScanRecordsProofs

------------------------------------------------------------------------------
(* The handlers.                                                             *)

\* What the place and the answer of a handler tell of its batch.
HandlerFits(r) ==
    /\ pc[r] \in {"new", "done"} => todo[r] = {}
    /\ pc[r] = "new" => batch[r] = <<>>
    /\ response[r] # "none" => pc[r] = "done"
    /\ response[r] \in {"409", "422"} => \A j \in Jobs : j[1] = r => ~Stored(j)
    /\ response[r] = "202" \/ pc[r] \in HandlerBusy =>
          \A i \in DOMAIN batch[r] : Stored(<<r, i>>)

HandlersFit == \A r \in Requests : HandlerFits(r)

\* A step that leaves the handler alone and neither adds nor removes its rows.
LEMMA HandlerKept ==
    ASSUME NEW r \in Requests, HandlerFits(r),
           pc'[r] = pc[r], todo'[r] = todo[r], batch'[r] = batch[r], response'[r] = response[r],
           DOMAIN batch[r] \subseteq 1..MaxBatch,
           \A j \in Jobs : j[1] = r => (Stored(j)' <=> Stored(j))
    PROVE  HandlerFits(r)'
<1>1. \A i \in DOMAIN batch[r] : <<r, i>> \in Jobs /\ <<r, i>>[1] = r
  BY DEF Jobs
<1> QED
  BY <1>1 DEF HandlerFits

\* Positions of a batch are jobs.
LEMMA Positions ==
    ASSUME RowInv, NEW r \in Requests
    PROVE  /\ DOMAIN batch[r] \subseteq 1..MaxBatch
           /\ \A i \in DOMAIN batch[r] : <<r, i>> \in Jobs
<1>1. batch[r] \in Batches \/ batch[r] = <<>>
  BY DEF RowInv, TypeOK
<1>2. DOMAIN batch[r] \subseteq 1..MaxBatch
  BY <1>1, BatchDomain
<1> QED
  BY <1>2 DEF Jobs

LEMMA HandlersPost ==
    ASSUME RowInv, HandlersFit, NEW q \in Requests, Post(q), NEW r \in Requests
    PROVE  HandlerFits(r)'
<1> USE DEF Answer, Fault, tables
<1>0. /\ HandlerFits(r) /\ TypeOK /\ DOMAIN batch[r] \subseteq 1..MaxBatch
      /\ \A j \in Jobs : pc[j[1]] = "new" => ~Stored(j)
  BY Positions DEF HandlersFit, RowInv
<1>1. ASSUME PostRejected(q) \/ PostLost(q) \/ \E b \in Batches : \E ok \in SUBSET DOMAIN b : PostConflicts(q, b, ok)
      PROVE  HandlerFits(r)'
  <2>1. /\ rows' = rows /\ batch' = batch /\ todo' = todo /\ pc[q] = "new"
        /\ pc' = [pc EXCEPT ![q] = "done"]
        /\ \E code \in {"409", "422", "500"} : response' = [response EXCEPT ![q] = code]
    BY <1>1 DEF PostRejected, PostLost, PostConflicts
  <2>2. CASE r # q
    <3>1. pc'[r] = pc[r] /\ response'[r] = response[r]
      BY <1>0, <2>1, <2>2 DEF TypeOK
    <3> QED
      BY <1>0, <2>1, <3>1, HandlerKept DEF Stored
  <2>3. CASE r = q
    <3>1. pc'[r] = "done" /\ response'[r] \in {"409", "422", "500"}
      BY <1>0, <2>1, <2>3 DEF TypeOK
    <3>2. \A j \in Jobs : j[1] = r => ~Stored(j)'
      BY <1>0, <2>1, <2>3 DEF Stored
    <3> QED
      BY <1>0, <2>1, <2>3, <3>1, <3>2 DEF HandlerFits, HandlerBusy
  <2> QED
    BY <2>2, <2>3
<1>2. ASSUME NEW b \in Batches, NEW ok \in SUBSET DOMAIN b,
             PostAdmitted(q, b, ok) \/ PostUnknown(q, b, ok)
      PROVE  HandlerFits(r)'
  <2>1. /\ pc[q] = "new" /\ Insert(q, b, ok) /\ DOMAIN b \subseteq 1..MaxBatch
    BY <1>2, BatchDomain DEF PostAdmitted, PostUnknown
  <2>2. \A j \in Jobs : /\ j[1] # q => (Stored(j)' <=> Stored(j))
                        /\ j[1] = q /\ j[2] \in DOMAIN b => Stored(j)'
    BY <2>1 DEF Insert, Stored, NewRow, NoRow
  <2>3. CASE r # q
    <3>1. pc'[r] = pc[r] /\ response'[r] = response[r] /\ todo'[r] = todo[r] /\ batch'[r] = batch[r]
      BY <1>0, <1>2, <2>1, <2>3 DEF PostAdmitted, PostUnknown, Insert, TypeOK
    <3> QED
      BY <1>0, <2>2, <2>3, <3>1, HandlerKept
  <2>4. CASE r = q
    <3>1. batch'[r] = b /\ \A i \in DOMAIN batch'[r] : Stored(<<r, i>>)'
      <4>1. batch'[r] = b
        BY <1>0, <2>1, <2>4 DEF Insert, TypeOK
      <4>2. \A i \in DOMAIN b : <<r, i>> \in Jobs
        BY <2>1 DEF Jobs
      <4> QED
        BY <2>2, <2>4, <4>1, <4>2
    <3>2. CASE PostAdmitted(q, b, ok)
      <4>1. pc'[r] = "submitting" /\ response'[r] = response[r] /\ response[r] = "none"
        BY <1>0, <2>1, <2>4, <3>2 DEF PostAdmitted, TypeOK, HandlerFits
      <4> QED
        BY <3>1, <4>1 DEF HandlerFits
    <3>3. CASE PostUnknown(q, b, ok)
      <4>1. pc'[r] = "done" /\ response'[r] = "500" /\ todo'[r] = todo[r]
        BY <1>0, <2>4, <3>3 DEF PostUnknown, TypeOK
      <4> QED
        BY <1>0, <2>1, <2>4, <3>1, <4>1 DEF HandlerFits
    <3> QED
      BY <1>2, <3>2, <3>3
  <2> QED
    BY <2>3, <2>4
<1> QED
  BY <1>1, <1>2 DEF Post

LEMMA HandlersHandle ==
    ASSUME RowInv, HandlersFit, NEW q \in Requests, Handle(q), NEW r \in Requests
    PROVE  HandlerFits(r)'
<1> USE DEF Answer
<1>0. /\ HandlerFits(r) /\ TypeOK /\ Ordinary
      /\ DOMAIN batch[r] \subseteq 1..MaxBatch /\ \A i \in DOMAIN batch[r] : <<r, i>> \in Jobs
  BY Positions, OrdinaryHandle DEF HandlersFit, RowInv
<1>1. batch' = batch /\ \A j \in Jobs : Stored(j)' <=> Stored(j)
  BY <1>0 DEF Ordinary
<1>2. /\ pc[q] \in HandlerBusy
      /\ \E place \in HandlerBusy \cup {"done"} : pc' = [pc EXCEPT ![q] = place]
      /\ \E left \in SUBSET todo[q] : todo' = [todo EXCEPT ![q] = left]
      /\ \/ response' = response /\ pc'[q] # "done"
         \/ /\ pc'[q] = "done" /\ todo'[q] = {}
            /\ \E code \in {"202", "500"} : response' = [response EXCEPT ![q] = code]
  <2>1. CASE Respond(q) \/ RespondLost(q) \/ SubmitFailureLost(q)
    BY <1>0, <2>1 DEF TypeOK, Respond, RespondLost, SubmitFailureLost, HandlerBusy
  <2>2. ASSUME NEW i \in 1..MaxBatch,
               \/ RegisterTarget(q, i) \/ SubmitRaises(q, i) \/ SubmitRaisesLate(q, i)
               \/ Unregister(q, i)
        PROVE  /\ pc[q] \in HandlerBusy /\ todo' = todo /\ response' = response
               /\ \E place \in HandlerBusy : pc' = [pc EXCEPT ![q] = place]
    BY <1>0, <2>2 DEF TypeOK, RegisterTarget, SubmitRaises, SubmitRaisesLate, Unregister, AtSubmit,
                      Raised, HandlerBusy
  <2>3. ASSUME NEW i \in 1..MaxBatch, ExecutorSubmit(q, i) \/ RecordSubmitFailure(q, i)
        PROVE  /\ pc[q] \in HandlerBusy /\ todo' = [todo EXCEPT ![q] = todo[q] \ {i}]
               /\ response' = response /\ pc' = [pc EXCEPT ![q] = "submitting"]
    BY <1>0, <2>3 DEF TypeOK, ExecutorSubmit, RecordSubmitFailure, AtSubmit, HandlerBusy
  <2>4. ASSUME NEW i \in 1..MaxBatch, SubmitFailureUnknown(q, i)
        PROVE  /\ pc[q] \in HandlerBusy /\ todo' = [todo EXCEPT ![q] = {}]
               /\ response' = [response EXCEPT ![q] = "500"] /\ pc' = [pc EXCEPT ![q] = "done"]
    BY <2>4 DEF SubmitFailureUnknown, HandlerBusy
  <2> QED
    BY <1>0, <2>1, <2>2, <2>3, <2>4 DEF Handle, TypeOK, HandlerBusy
<1>3. CASE r # q
  <2>1. pc'[r] = pc[r] /\ todo'[r] = todo[r] /\ response'[r] = response[r]
    BY <1>0, <1>2, <1>3 DEF TypeOK
  <2> QED
    BY <1>0, <1>1, <2>1, HandlerKept
<1>4. CASE r = q
  <2>1. response[r] = "none" /\ \A i \in DOMAIN batch[r] : Stored(<<r, i>>)'
    BY <1>0, <1>1, <1>2, <1>4 DEF HandlerFits, HandlerBusy
  <2> QED
    BY <1>0, <1>1, <1>2, <1>4, <2>1 DEF HandlerFits, HandlerBusy, TypeOK
<1> QED
  BY <1>3, <1>4

LEMMA HandlersNext == RowInv /\ HandlersFit /\ [Next]_vars => HandlersFit'
<1> SUFFICES ASSUME RowInv, HandlersFit, [Next]_vars, NEW r \in Requests PROVE HandlerFits(r)'
  BY DEF HandlersFit
<1>0. /\ HandlerFits(r) /\ TypeOK /\ DOMAIN batch[r] \subseteq 1..MaxBatch
      /\ \A i \in DOMAIN batch[r] : <<r, i>> \in Jobs
  BY Positions DEF HandlersFit, RowInv
<1>1. CASE UNCHANGED vars
  BY <1>0, <1>1, HandlerKept DEF vars, tables, handlers, Stored
<1>2. CASE (\E w \in Workers : Work(w)) \/ FailOrphanedJobs
  <2>1. Ordinary
    BY <1>2, OrdinaryWork, OrdinaryProcess
  <2>2. UNCHANGED handlers
    BY <1>2 DEF Work, Dequeue, LookupTarget, LookupMisses, StartJob, StartRefused, StartLost,
       PersistResult, PersistRefused, ScanRaises, FinishJob, FinishUnknown, FailJob, FailJobLost,
       Cleanup, FailOrphanedJobs
  <2> QED
    BY <1>0, <2>1, <2>2, HandlerKept DEF handlers, Ordinary
<1>3. CASE Crash
  <2>1. /\ batch' = batch /\ response' = response /\ rows' = rows /\ todo'[r] = {}
        /\ pc'[r] = IF pc[r] = "new" THEN "new" ELSE "done"
    BY <1>3 DEF Crash, tables
  <2> QED
    BY <1>0, <2>1 DEF HandlerFits, HandlerBusy, Stored
<1> QED
  BY <1>1, <1>2, <1>3, HandlersPost, HandlersHandle DEF Next

LEMMA HandlersInit == Init => HandlersFit
BY DEF Init, HandlersFit, HandlerFits, HandlerBusy

------------------------------------------------------------------------------
(* Who holds a job together.  submit may raise after it has queued, and then *)
(* a job is in the queue or with a thread while the submit loop still counts *)
(* it among those to do.  But it is the job that the loop is giving up, and  *)
(* no job is ever queued twice.                                              *)

InHand(j) == Queued(j) \/ Running(j)

\* The handler is in the except clauses that give the job up.
GivingUp(j) == IsNext(j[1], j[2]) /\ pc[j[1]] \in {"unregistering", "raised"}

OneHolder ==
    /\ \A k, l \in 1..Len(queue) : queue[k] = queue[l] => k = l
    /\ \A j \in Jobs : Queued(j) => ~Running(j)
    /\ \A v, w \in Workers :
          v # w /\ wpc[v] # "idle" /\ wpc[w] # "idle" => wjob[v] # wjob[w]
    /\ \A j \in Jobs : InTodo(j) /\ InHand(j) => GivingUp(j)

\* A step that queues nothing, starts no thread, and does not go on with the loop
\* while a job that it still counts is in hand.
LEMMA HoldersKept ==
    ASSUME OneHolder, queue' = queue,
           \A w \in Workers : wpc'[w] # "idle" => wpc[w] # "idle" /\ wjob'[w] = wjob[w],
           \A j \in Jobs : InTodo(j)' /\ InHand(j) => GivingUp(j)'
    PROVE  OneHolder'
<1>1. \A j \in Jobs : /\ Queued(j)' <=> Queued(j)
                      /\ Running(j)' => Running(j)
  BY DEF Queued, Running, RunBy
<1>2. \A j \in Jobs : InTodo(j)' /\ InHand(j)' => GivingUp(j)'
  BY <1>1 DEF InHand
<1>3. \A v, w \in Workers : v # w /\ wpc'[v] # "idle" /\ wpc'[w] # "idle" => wjob'[v] # wjob'[w]
  BY DEF OneHolder
<1> QED
  BY <1>1, <1>2, <1>3 DEF OneHolder

\* What is left of a queue when its head is taken.
LEMMA QueueTail ==
    ASSUME NEW j \in Jobs, queue \in Seq(Jobs), queue # <<>>, queue' = Tail(queue)
    PROVE  Queued(j) <=> Queued(j)' \/ j = Head(queue)
<1>1. /\ Len(queue) \in Nat /\ Len(queue) > 0 /\ Len(queue') = Len(queue) - 1
      /\ \A k \in 1..Len(queue') : queue'[k] = queue[k + 1]
      /\ Head(queue) = queue[1]
  OBVIOUS
<1>2. \A k \in 1..Len(queue) : k = 1 \/ k - 1 \in 1..Len(queue')
  BY <1>1
<1>3. \A k \in 1..Len(queue') : k + 1 \in 1..Len(queue)
  BY <1>1
<1>4. ASSUME Queued(j) PROVE Queued(j)' \/ j = Head(queue)
  <2>1. PICK k \in 1..Len(queue) : queue[k] = j
    BY <1>4 DEF Queued
  <2>2. CASE k = 1
    BY <1>1, <2>1, <2>2
  <2>3. CASE k - 1 \in 1..Len(queue')
    <3>1. queue'[k - 1] = j
      BY <1>1, <2>1, <2>3
    <3> QED
      BY <2>3, <3>1 DEF Queued
  <2> QED
    BY <1>2, <2>2, <2>3
<1>5. ASSUME Queued(j)' PROVE Queued(j)
  BY <1>1, <1>3, <1>5 DEF Queued
<1>6. j = Head(queue) => Queued(j)
  BY <1>1 DEF Queued
<1> QED
  BY <1>4, <1>5, <1>6

\* An idle thread takes a job out of the queue.
LEMMA DequeueInHand ==
    ASSUME RowInv, NEW w \in Workers, Dequeue(w), NEW j \in Jobs
    PROVE  /\ InHand(j)' <=> InHand(j)
           /\ Queued(j) <=> Queued(j)' \/ j = Head(queue)
           /\ Running(j)' <=> Running(j) \/ j = Head(queue)
<1>0. TypeOK /\ queue \in Seq(Jobs) /\ queue # <<>> /\ wpc[w] = "idle"
  BY DEF RowInv, TypeOK, Dequeue
<1>1. Queued(j) <=> Queued(j)' \/ j = Head(queue)
  <2>1. queue' = Tail(queue)
    BY DEF Dequeue
  <2> QED
    BY <1>0, <2>1, QueueTail
<1>2. Running(j)' <=> Running(j) \/ j = Head(queue)
  <2>1. /\ wjob'[w] = Head(queue) /\ wpc'[w] # "idle"
        /\ \A v \in Workers : v # w => wpc'[v] = wpc[v] /\ wjob'[v] = wjob[v]
    BY <1>0 DEF TypeOK, Dequeue
  <2> QED
    BY <1>0, <2>1 DEF Running, RunBy
<1> QED
  BY <1>1, <1>2 DEF InHand

\* No step of a thread touches the handlers.
LEMMA WorkKeepsHandlers ==
    ASSUME NEW w \in Workers, Work(w) PROVE UNCHANGED handlers
BY DEF Work, Dequeue, LookupTarget, LookupMisses, StartJob, StartRefused, StartLost, PersistResult,
       PersistRefused, ScanRaises, FinishJob, FinishUnknown, FailJob, FailJobLost, Cleanup

LEMMA HoldersWork ==
    ASSUME RowInv, OneHolder, NEW w \in Workers, Work(w)
    PROVE  OneHolder'
<1> USE DEF Fault, Fails, Leaves
<1>0. TypeOK
  BY DEF RowInv
<1>1. \A j \in Jobs : /\ InTodo(j)' <=> InTodo(j)
                      /\ GivingUp(j)' <=> GivingUp(j)
  BY WorkKeepsHandlers DEF handlers, InTodo, GivingUp, IsNext
<1>2. CASE Dequeue(w)
  <2>1. /\ queue \in Seq(Jobs) /\ queue # <<>> /\ Head(queue) \in Jobs
        /\ \A k \in 1..Len(queue') : k + 1 \in 1..Len(queue) /\ queue'[k] = queue[k + 1]
        /\ Head(queue) = queue[1] /\ 1 \in 1..Len(queue)
    BY <1>0, <1>2 DEF TypeOK, Dequeue
  <2>2. \A k, l \in 1..Len(queue') : queue'[k] = queue'[l] => k = l
    BY <2>1 DEF OneHolder
  <2>3. \A k \in 1..Len(queue') : queue'[k] # Head(queue)
    BY <2>1 DEF OneHolder
  <2>4. Queued(Head(queue)) /\ ~Running(Head(queue))
    BY <2>1 DEF OneHolder, Queued
  <2>5. \A j \in Jobs : Queued(j)' => ~Running(j)'
    <3>1. \A j \in Jobs : Queued(j)' => Queued(j) /\ j # Head(queue)
      BY <1>0, <1>2, <2>3, DequeueInHand DEF Queued
    <3> QED
      BY <1>0, <1>2, <3>1, DequeueInHand DEF OneHolder
  <2>6. /\ wpc[w] = "idle" /\ wjob'[w] = Head(queue)
        /\ \A v \in Workers : v # w => wpc'[v] = wpc[v] /\ wjob'[v] = wjob[v]
    BY <1>0, <1>2 DEF TypeOK, Dequeue
  <2>7. \A u, v \in Workers : u # v /\ wpc'[u] # "idle" /\ wpc'[v] # "idle" => wjob'[u] # wjob'[v]
    BY <2>4, <2>6 DEF OneHolder, Running, RunBy
  <2>8. \A j \in Jobs : InTodo(j)' /\ InHand(j)' => GivingUp(j)'
    BY <1>1, <1>2, DequeueInHand DEF OneHolder
  <2> QED
    BY <2>2, <2>5, <2>7, <2>8 DEF OneHolder
<1>3. CASE \/ LookupTarget(w) \/ LookupMisses(w) \/ StartJob(w) \/ StartRefused(w) \/ StartLost(w)
           \/ \E u \in Units : \/ \E pii, warning \in BOOLEAN : PersistResult(w, u, pii, warning)
                               \/ PersistRefused(w, u)
           \/ ScanRaises(w) \/ FailJob(w) \/ FailJobLost(w) \/ Cleanup(w)
           \/ \E partial, exposed \in BOOLEAN :
                 FinishJob(w, partial, exposed) \/ FinishUnknown(w, partial, exposed)
  <2>1. /\ queue' = queue
        /\ \A v \in Workers : wpc'[v] # "idle" => wpc[v] # "idle" /\ wjob'[v] = wjob[v]
    BY <1>0, <1>3 DEF TypeOK, LookupTarget, LookupMisses, StartJob, StartRefused, StartLost,
       PersistResult, PersistRefused, ScanRaises, FinishJob, FinishUnknown, FailJob, FailJobLost,
       Cleanup
  <2>2. \A j \in Jobs : InTodo(j)' /\ InHand(j) => GivingUp(j)'
    BY <1>1 DEF OneHolder
  <2> QED
    BY <2>1, <2>2, HoldersKept
<1> QED
  BY <1>2, <1>3 DEF Work

LEMMA HoldersPost ==
    ASSUME RowInv, OneHolder, NEW r \in Requests, Post(r)
    PROVE  OneHolder'
<1> USE DEF Answer, Fault, pool
<1>0. TypeOK /\ \A j \in Jobs : j[1] \in Requests
  BY DEF RowInv, Jobs
<1>1. /\ pc[r] = "new" /\ queue' = queue /\ wpc' = wpc /\ wjob' = wjob
      /\ \A q \in Requests : q # r => todo'[q] = todo[q] /\ pc'[q] = pc[q]
  BY <1>0 DEF TypeOK, Post, PostRejected, PostLost, PostConflicts, PostAdmitted, PostUnknown
<1>2. \A j \in Jobs : InHand(j) => j[1] # r
  BY <1>1 DEF RowInv, Held, InHand
<1>3. \A j \in Jobs : InTodo(j)' /\ InHand(j) => GivingUp(j)'
  BY <1>0, <1>1, <1>2 DEF OneHolder, InTodo, GivingUp, IsNext
<1> QED
  BY <1>1, <1>3, HoldersKept

\* At most one position of a batch is the next one.
LEMMA NextIsOne ==
    ASSUME NEW r \in Requests, NEW j \in Jobs, NEW k \in Jobs, j[1] = r, k[1] = r,
           IsNext(r, j[2]), IsNext(r, k[2])
    PROVE  j = k
<1>1. j[2] \in Nat /\ k[2] \in Nat /\ j[2] <= k[2] /\ k[2] <= j[2]
  BY BoundsAssumption DEF IsNext, Jobs
<1>2. j[2] = k[2]
  BY <1>1
<1> QED
  BY <1>2 DEF Jobs

LEMMA HoldersHandle ==
    ASSUME RowInv, OneHolder, NEW r \in Requests, Handle(r)
    PROVE  OneHolder'
<1> USE DEF Answer, Fault, pool
<1>0. TypeOK /\ queue \in Seq(Jobs) /\ \A j \in Jobs : j[1] \in Requests
  BY DEF RowInv, TypeOK, Jobs
<1>1. /\ wpc' = wpc /\ wjob' = wjob
      /\ \A q \in Requests : q # r => todo'[q] = todo[q] /\ pc'[q] = pc[q]
  BY <1>0 DEF TypeOK, Handle, Respond, RespondLost, SubmitFailureLost, RegisterTarget, ExecutorSubmit,
     SubmitRaises, SubmitRaisesLate, Unregister, RecordSubmitFailure, SubmitFailureUnknown
<1>2. ASSUME NEW j \in Jobs, j[1] # r, InTodo(j)', InHand(j) PROVE GivingUp(j)'
  BY <1>0, <1>1, <1>2 DEF OneHolder, InTodo, GivingUp, IsNext
\* The loop holds no job in hand before the submission of the next one.
<1>3. ASSUME NEW j \in Jobs, j[1] = r, InTodo(j), pc[r] \in {"submitting", "registered"}
      PROVE  ~InHand(j)
  BY <1>3 DEF OneHolder, GivingUp
<1>4. CASE \/ Respond(r) \/ RespondLost(r) \/ SubmitFailureLost(r)
           \/ \E i \in 1..MaxBatch : SubmitFailureUnknown(r, i)
  <2>1. queue' = queue /\ todo'[r] = {}
    BY <1>0, <1>4 DEF TypeOK, Respond, RespondLost, SubmitFailureLost, SubmitFailureUnknown
  <2> QED
    BY <1>1, <1>2, <2>1, HoldersKept DEF InTodo
<1>5. ASSUME NEW i \in 1..MaxBatch, RegisterTarget(r, i) \/ SubmitRaises(r, i)
      PROVE  OneHolder'
  <2>1. queue' = queue /\ todo' = todo /\ pc[r] \in {"submitting", "registered"}
    BY <1>5 DEF RegisterTarget, SubmitRaises, AtSubmit
  <2> QED
    BY <1>1, <1>2, <1>3, <2>1, HoldersKept DEF InTodo
<1>6. ASSUME NEW i \in 1..MaxBatch, Unregister(r, i) PROVE OneHolder'
  <2>1. queue' = queue /\ todo' = todo /\ pc'[r] = "raised"
    BY <1>0, <1>6 DEF TypeOK, Unregister
  <2>2. ASSUME NEW j \in Jobs, j[1] = r, InTodo(j)', InHand(j) PROVE GivingUp(j)'
    BY <2>1, <2>2 DEF OneHolder, InTodo, GivingUp, IsNext
  <2> QED
    BY <1>1, <1>2, <2>1, <2>2, HoldersKept
<1>7. ASSUME NEW i \in 1..MaxBatch, RecordSubmitFailure(r, i) PROVE OneHolder'
  <2>1. /\ queue' = queue /\ todo'[r] = todo[r] \ {i} /\ IsNext(r, i) /\ <<r, i>> \in Jobs
    BY <1>0, <1>7 DEF TypeOK, RecordSubmitFailure, Jobs
  <2>2. ASSUME NEW j \in Jobs, j[1] = r, InTodo(j)', InHand(j) PROVE FALSE
    <3>1. InTodo(j) /\ j[2] # i
      BY <2>1, <2>2 DEF InTodo
    <3>2. IsNext(r, j[2])
      BY <2>2, <3>1 DEF OneHolder, GivingUp
    <3>3. j = <<r, i>>
      BY <2>1, <2>2, <3>2, NextIsOne
    <3> QED
      BY <3>1, <3>3
  <2> QED
    BY <1>1, <1>2, <2>1, <2>2, HoldersKept
\* The job that is queued was in nobody's hands.
<1>8. ASSUME NEW i \in 1..MaxBatch, ExecutorSubmit(r, i) \/ SubmitRaisesLate(r, i)
      PROVE  OneHolder'
  <2> DEFINE m == <<r, i>>
  <2>1. /\ m \in Jobs /\ m[1] = r /\ m[2] = i /\ IsNext(r, i) /\ InTodo(m)
        /\ pc[r] \in {"submitting", "registered"}
        /\ queue' = Append(queue, m)
    BY <1>0, <1>8 DEF TypeOK, ExecutorSubmit, SubmitRaisesLate, AtSubmit, IsNext, InTodo, Jobs
  <2>2. ~Queued(m) /\ ~Running(m)
    BY <1>3, <2>1 DEF InHand
  <2>3. \A j \in Jobs : /\ Queued(j)' <=> Queued(j) \/ j = m
                        /\ Running(j)' <=> Running(j)
    BY <1>0, <1>1, <2>1 DEF Queued, Running, RunBy
  <2>4. \A k, l \in 1..Len(queue') : queue'[k] = queue'[l] => k = l
    <3>1. /\ Len(queue) \in Nat /\ Len(queue') = Len(queue) + 1 /\ queue'[Len(queue')] = m
          /\ \A k \in 1..Len(queue) : queue'[k] = queue[k]
      BY <1>0, <2>1
    <3>2. \A k \in 1..Len(queue') : k = Len(queue') \/ k \in 1..Len(queue)
      BY <3>1
    <3>3. \A k \in 1..Len(queue) : queue[k] # m
      BY <2>2 DEF Queued
    <3> QED
      BY <3>1, <3>2, <3>3 DEF OneHolder
  <2>5. ASSUME NEW j \in Jobs, j[1] = r, InTodo(j)', InHand(j)' PROVE GivingUp(j)'
    <3>1. InTodo(j)
      BY <1>0, <1>8, <2>5 DEF TypeOK, ExecutorSubmit, SubmitRaisesLate, InTodo
    <3>2. j = m
      BY <1>3, <2>1, <2>3, <2>5, <3>1 DEF InHand
    <3>3. CASE ExecutorSubmit(r, i)
      BY <1>0, <2>5, <3>2, <3>3 DEF TypeOK, ExecutorSubmit, InTodo
    <3>4. CASE SubmitRaisesLate(r, i)
      <4>1. todo' = todo /\ pc'[r] \in {"unregistering", "raised"}
        BY <1>0, <3>4 DEF TypeOK, SubmitRaisesLate, Raised
      <4> QED
        BY <2>1, <3>2, <4>1 DEF GivingUp, IsNext
    <3> QED
      BY <1>8, <3>3, <3>4
  <2>6. \A j \in Jobs : InTodo(j)' /\ InHand(j)' => GivingUp(j)'
    BY <1>2, <2>1, <2>3, <2>5 DEF InHand
  <2>7. \A j \in Jobs : Queued(j)' => ~Running(j)'
    BY <2>2, <2>3 DEF OneHolder
  <2> QED
    BY <1>1, <2>4, <2>6, <2>7 DEF OneHolder
<1> QED
  BY <1>4, <1>5, <1>6, <1>7, <1>8 DEF Handle

HolderInv == RowInv /\ OneHolder /\ DownHoldsNothing

LEMMA HolderInvInit == Init => HolderInv
<1> SUFFICES ASSUME Init PROVE HolderInv
  OBVIOUS
<1>1. /\ queue = <<>> /\ up /\ \A w \in Workers : wpc[w] = "idle"
      /\ \A j \in Jobs : ~InHand(j)
  BY DEF Init, InHand, Queued, Running, RunBy
<1> QED
  BY <1>1, RowInvInit DEF HolderInv, OneHolder, DownHoldsNothing, InHand

\* A served request and a running thread leave the process up or down.
LEMMA HandleKeepsUp == ASSUME NEW r \in Requests, Handle(r) PROVE up' = up
BY DEF Handle, Respond, RespondLost, SubmitFailureLost, RegisterTarget, ExecutorSubmit, SubmitRaises,
       SubmitRaisesLate, Unregister, RecordSubmitFailure, SubmitFailureUnknown, world, Fault

LEMMA WorkKeepsUp == ASSUME NEW w \in Workers, Work(w) PROVE up' = up
BY DEF Work, Dequeue, LookupTarget, LookupMisses, StartJob, StartRefused, StartLost, PersistResult,
       PersistRefused, ScanRaises, FinishJob, FinishUnknown, FailJob, FailJobLost, Cleanup, world, Fault

LEMMA HolderInvNext == HolderInv /\ [Next]_vars => HolderInv'
<1> SUFFICES ASSUME HolderInv, [Next]_vars PROVE HolderInv'
  OBVIOUS
<1>0. RowInv /\ OneHolder /\ DownHoldsNothing /\ RowInv'
  BY RowInvNext DEF HolderInv
<1>1. CASE UNCHANGED vars
  BY <1>0, <1>1 DEF vars, handlers, pool, world, HolderInv, OneHolder, DownHoldsNothing, Held, InHand,
                    GivingUp, InTodo, IsNext, Queued, Running, RunBy
<1>2. CASE Crash \/ FailOrphanedJobs
  <2>1. CASE Crash
    <3>1. /\ queue' = <<>> /\ \A w \in Workers : wpc'[w] = "idle"
          /\ \A j \in Jobs : ~InTodo(j)'
      BY <2>1 DEF Crash, InTodo, Jobs
    <3>2. \A j \in Jobs : ~InHand(j)'
      BY <3>1 DEF InHand, Queued, Running, RunBy
    <3> QED
      BY <1>0, <3>1, <3>2 DEF HolderInv, OneHolder, DownHoldsNothing, Held, InHand
  <2>2. CASE FailOrphanedJobs
    BY <1>0, <2>2 DEF FailOrphanedJobs, handlers, pool, HolderInv, OneHolder, DownHoldsNothing, InHand,
                      GivingUp, InTodo, IsNext, Queued, Running, RunBy
  <2> QED
    BY <1>2, <2>1, <2>2
\* A request is served by a process that is up, and no other step takes up a job.
<1>3. ASSUME NEW r \in Requests, Post(r) PROVE HolderInv'
  <2>1. up'
    BY <1>3 DEF Post, PostRejected, PostLost, PostConflicts, PostAdmitted, PostUnknown, world, Fault
  <2> QED
    BY <1>0, <1>3, <2>1, HoldersPost DEF HolderInv, DownHoldsNothing
<1>4. ASSUME (\E r \in Requests : Handle(r)) \/ \E w \in Workers : Work(w) PROVE HolderInv'
  <2>1. up' = up
    BY <1>4, HandleKeepsUp, WorkKeepsUp
  <2>2. Ordinary
    BY <1>0, <1>4, OrdinaryHandle, OrdinaryWork
  <2>3. DownHoldsNothing'
    BY <1>0, <2>1, <2>2 DEF DownHoldsNothing, Ordinary
  <2> QED
    BY <1>0, <1>4, <2>3, HoldersHandle, HoldersWork DEF HolderInv
<1> QED
  BY <1>1, <1>2, <1>3, <1>4 DEF Next

------------------------------------------------------------------------------
(* Credentials.  A database job has them in memory from its registration to  *)
(* the end of its thread, and no longer.  A lookup misses only when the      *)
(* handler took the registration back because submit raised late; then the   *)
(* submit loop answers for the row, or nobody has to.                        *)

\* The handler is between the registration of a job and its submission, or about
\* to take the registration back.
Entered(j) == IsNext(j[1], j[2]) /\ pc[j[1]] \in {"registered", "unregistering"}

\* Nobody strands the job by not running it.
AnsweredFor(j) == InTodo(j) \/ ~ActiveJob(j) \/ j \in abandoned

SecretsFit ==
    /\ \A j \in registry : IsDb(j) /\ (InHand(j) \/ Entered(j))
    /\ \A j \in Jobs : IsDb(j) /\ InHand(j) => j \in registry \/ AnsweredFor(j)
    /\ \A j \in Jobs : IsNext(j[1], j[2]) /\ pc[j[1]] = "registered" => j \in registry
    /\ \A w \in Workers : wpc[w] \in {"lookup", "cleanup"} => IsDb(wjob[w])

\* A step that keeps registry, batches, and all that is in hand or entered.
LEMMA SecretsKept ==
    ASSUME RowInv, SecretsFit, registry' = registry,
           \A j \in Jobs : InHand(j) \/ Entered(j) => (IsDb(j)' <=> IsDb(j)),
           \A j \in Jobs : InHand(j)' <=> InHand(j),
           \A j \in Jobs : InHand(j) /\ AnsweredFor(j) => AnsweredFor(j)',
           \A j \in Jobs : Entered(j) => Entered(j)',
           \A j \in Jobs : IsNext(j[1], j[2])' /\ pc'[j[1]] = "registered"
                              => IsNext(j[1], j[2]) /\ pc[j[1]] = "registered",
           \A w \in Workers : wpc'[w] \in {"lookup", "cleanup"} =>
              wjob'[w] \in Jobs /\ IsDb(wjob'[w]) /\ InHand(wjob'[w])
    PROVE  SecretsFit'
<1>1. registry \subseteq Jobs
  BY DEF RowInv, TypeOK
<1>2. \A j \in registry' : IsDb(j)' /\ (InHand(j)' \/ Entered(j)')
  BY <1>1 DEF SecretsFit
<1>3. \A j \in Jobs : IsDb(j)' /\ InHand(j)' => j \in registry' \/ AnsweredFor(j)'
  BY DEF SecretsFit
<1>4. \A j \in Jobs : IsNext(j[1], j[2])' /\ pc'[j[1]] = "registered" => j \in registry'
  BY DEF SecretsFit
<1>5. ASSUME NEW w \in Workers, wpc'[w] \in {"lookup", "cleanup"} PROVE IsDb(wjob[w])'
  <2>1. PICK j \in Jobs : j = wjob'[w]
    BY <1>5
  <2>2. IsDb(j)'
    BY <1>5, <2>1
  <2> QED
    BY <2>1, <2>2 DEF IsDb, TargetOf
<1> QED
  BY <1>2, <1>3, <1>4, <1>5 DEF SecretsFit

\* A thread keeps its job.
Keeps(w) ==
    /\ wpc[w] # "idle" /\ wpc'[w] # "idle" /\ wjob' = wjob /\ queue' = queue
    /\ \A v \in Workers : v # w => wpc'[v] = wpc[v]

\* A thread is done with its job.
Drops(w) ==
    /\ wpc[w] # "idle" /\ wpc'[w] = "idle" /\ queue' = queue
    /\ \A v \in Workers : v # w => wpc'[v] = wpc[v] /\ wjob'[v] = wjob[v]

LEMMA KeepsInHand ==
    ASSUME NEW w \in Workers, Keeps(w), NEW j \in Jobs
    PROVE  InHand(j)' <=> InHand(j)
<1>1. Queued(j)' <=> Queued(j)
  BY DEF Keeps, Queued
<1>2. Running(j)' <=> Running(j)
  BY DEF Keeps, Running, RunBy
<1> QED
  BY <1>1, <1>2 DEF InHand

LEMMA DropsFromHand ==
    ASSUME RowInv, OneHolder, NEW w \in Workers, Drops(w), NEW j \in Jobs
    PROVE  InHand(j)' <=> InHand(j) /\ j # wjob[w]
<1>0. wjob[w] \in Jobs /\ Running(wjob[w])
  BY DEF RowInv, TypeOK, Drops, Running, RunBy
<1>1. Queued(j)' <=> Queued(j)
  BY DEF Drops, Queued
<1>2. Queued(j) => j # wjob[w]
  BY <1>0 DEF OneHolder
<1>3. Running(j)' <=> Running(j) /\ j # wjob[w]
  BY <1>0 DEF Drops, Running, RunBy, OneHolder
<1> QED
  BY <1>1, <1>2, <1>3 DEF InHand

LEMMA SecretsWork ==
    ASSUME RowInv, OneHolder, SecretsFit, NEW w \in Workers, Work(w)
    PROVE  SecretsFit'
<1> USE DEF Fault, Fails, Leaves, handlers
<1>0. /\ TypeOK /\ registry \subseteq Jobs
      /\ \A v \in Workers : wpc[v] # "idle" => wjob[v] \in Jobs /\ InHand(wjob[v])
  BY DEF RowInv, TypeOK, InHand, Running, RunBy
<1>1. UNCHANGED handlers
  BY WorkKeepsHandlers
<1>2. \A j \in Jobs : /\ IsDb(j)' <=> IsDb(j)
                      /\ Entered(j)' <=> Entered(j)
                      /\ IsNext(j[1], j[2])' <=> IsNext(j[1], j[2])
  BY <1>1 DEF IsDb, TargetOf, Entered, IsNext
<1>3. \A j \in Jobs : AnsweredFor(j) => AnsweredFor(j)'
  <2>1. Ordinary
    BY OrdinaryWork
  <2>2. abandoned \subseteq abandoned'
    BY DEF Work, Dequeue, LookupTarget, LookupMisses, StartJob, StartRefused, StartLost,
       PersistResult, PersistRefused, ScanRaises, FinishJob, FinishUnknown, FailJob, FailJobLost,
       Cleanup
  <2> QED
    BY <1>1, <2>1, <2>2 DEF AnsweredFor, InTodo, Ordinary
<1>4. ASSUME Keeps(w), registry' = registry,
             wpc'[w] = "lookup" => wpc[w] = "lookup", wpc'[w] = "cleanup" => IsDb(wjob[w])
      PROVE  SecretsFit'
  <2>1. \A v \in Workers : wpc'[v] \in {"lookup", "cleanup"} =>
              wjob'[v] \in Jobs /\ IsDb(wjob'[v]) /\ InHand(wjob'[v])
    BY <1>0, <1>4 DEF Keeps, SecretsFit
  <2>2. pc' = pc
    BY <1>1
  <2> QED
    BY <1>2, <1>4, <1>3, <2>1, <2>2, KeepsInHand, SecretsKept
<1>5. ASSUME Drops(w), registry' = registry \ {wjob[w]}
      PROVE  SecretsFit'
  <2>1. \A j \in Jobs : InHand(j)' <=> InHand(j) /\ j # wjob[w]
    BY <1>5, DropsFromHand
  <2>2. /\ \A j \in registry' : IsDb(j)' /\ (InHand(j)' \/ Entered(j)')
        /\ \A j \in Jobs : IsDb(j)' /\ InHand(j)' => j \in registry' \/ AnsweredFor(j)'
    BY <1>0, <1>2, <1>5, <1>3, <2>1 DEF SecretsFit
  <2>3. ASSUME NEW j \in Jobs, IsNext(j[1], j[2])', pc'[j[1]] = "registered" PROVE j \in registry'
    <3>1. IsNext(j[1], j[2]) /\ pc' = pc
      BY <1>1, <1>2, <2>3
    <3>2. j \in registry /\ InTodo(j) /\ ~GivingUp(j)
      BY <2>3, <3>1 DEF SecretsFit, IsNext, InTodo, GivingUp
    <3>3. j # wjob[w]
      BY <1>0, <1>5, <3>2 DEF Drops, OneHolder
    <3> QED
      BY <1>5, <3>2, <3>3
  <2>4. ASSUME NEW v \in Workers, wpc'[v] \in {"lookup", "cleanup"} PROVE IsDb(wjob[v])'
    <3>1. wpc[v] = wpc'[v] /\ wjob'[v] = wjob[v] /\ IsDb(wjob[v]) /\ batch' = batch
      BY <1>1, <1>5, <2>4 DEF Drops, SecretsFit
    <3> QED
      BY <3>1 DEF IsDb, TargetOf
  <2> QED
    BY <2>2, <2>3, <2>4 DEF SecretsFit
<1>6. CASE Dequeue(w)
  <2>1. registry' = registry /\ pc' = pc
    BY <1>1, <1>6 DEF Dequeue
  <2>2. ASSUME NEW v \in Workers, wpc'[v] \in {"lookup", "cleanup"}
        PROVE  wjob'[v] \in Jobs /\ IsDb(wjob'[v]) /\ InHand(wjob'[v])
    <3>1. CASE v # w
      BY <1>0, <1>6, <2>2, <3>1 DEF TypeOK, Dequeue, SecretsFit
    <3>2. CASE v = w
      <4>1. wjob'[w] = Head(queue) /\ IsDb(Head(queue)) /\ queue # <<>> /\ queue \in Seq(Jobs)
        BY <1>0, <1>6, <2>2, <3>2 DEF TypeOK, Dequeue
      <4>2. Head(queue) \in Jobs /\ Queued(Head(queue))
        BY <4>1 DEF Queued
      <4> QED
        BY <3>2, <4>1, <4>2 DEF InHand
    <3> QED
      BY <3>1, <3>2
  <2> QED
    BY <1>2, <1>6, <1>3, <2>1, <2>2, DequeueInHand, SecretsKept
<1>7. CASE \/ LookupTarget(w) \/ StartJob(w) \/ StartRefused(w) \/ StartLost(w) \/ ScanRaises(w)
           \/ \E u \in Units : \/ \E pii, warning \in BOOLEAN : PersistResult(w, u, pii, warning)
                               \/ PersistRefused(w, u)
           \/ \E partial, exposed \in BOOLEAN : FinishUnknown(w, partial, exposed)
  <2>1. Keeps(w) /\ registry' = registry /\ wpc'[w] \in {"starting", "scanning", "failing"}
    BY <1>0, <1>7 DEF TypeOK, Keeps, LookupTarget, StartJob, StartRefused, StartLost, ScanRaises,
       PersistResult, PersistRefused, FinishUnknown
  <2> QED
    BY <1>4, <2>1
<1>8. CASE \/ FailJob(w) \/ FailJobLost(w)
           \/ \E partial, exposed \in BOOLEAN : FinishJob(w, partial, exposed)
  <2>1. /\ wpc[w] # "idle" /\ registry' = registry /\ queue' = queue
        /\ wpc'  = [wpc EXCEPT ![w] = IF IsDb(wjob[w]) THEN "cleanup" ELSE "idle"]
        /\ wjob' = [wjob EXCEPT ![w] = IF IsDb(wjob[w]) THEN @ ELSE <<>>]
    BY <1>8 DEF FailJob, FailJobLost, FinishJob
  <2>2. CASE IsDb(wjob[w])
    <3>1. Keeps(w) /\ wpc'[w] = "cleanup"
      BY <1>0, <2>1, <2>2 DEF Keeps, TypeOK
    <3> QED
      BY <1>4, <2>1, <2>2, <3>1
  <2>3. CASE ~IsDb(wjob[w])
    <3>1. Drops(w)
      BY <1>0, <2>1, <2>3 DEF Drops, TypeOK
    <3>2. wjob[w] \notin registry
      BY <2>3 DEF SecretsFit
    <3> QED
      BY <1>5, <2>1, <3>1, <3>2
  <2> QED
    BY <2>2, <2>3
<1>9. CASE LookupMisses(w) \/ Cleanup(w)
  <2>1. Drops(w) /\ registry' = registry \ {wjob[w]}
    BY <1>0, <1>9 DEF Drops, LookupMisses, Cleanup, TypeOK
  <2> QED
    BY <1>5, <2>1
<1> QED
  BY <1>6, <1>7, <1>8, <1>9 DEF Work

LEMMA SecretsPost ==
    ASSUME RowInv, SecretsFit, NEW r \in Requests, Post(r)
    PROVE  SecretsFit'
<1> USE DEF Answer, Fault, pool
<1>0. TypeOK /\ \A j \in Jobs : j[1] \in Requests
  BY DEF RowInv, Jobs
<1>1. /\ pc[r] = "new" /\ registry' = registry
      /\ queue' = queue /\ wpc' = wpc /\ wjob' = wjob
      /\ \E place \in {"submitting", "done"} : pc' = [pc EXCEPT ![r] = place]
      /\ \A q \in Requests : q # r => todo'[q] = todo[q] /\ batch'[q] = batch[q]
  BY <1>0 DEF TypeOK, Post, PostRejected, PostLost, PostConflicts, PostAdmitted, PostUnknown, Insert
<1>2. \A j \in Jobs : InHand(j)' <=> InHand(j)
  BY <1>1 DEF InHand, Queued, Running, RunBy
<1>3. \A j \in Jobs : InHand(j) \/ Entered(j) => j[1] # r
  BY <1>1 DEF RowInv, Held, InHand, Entered
<1>4. \A j \in Jobs : pc'[j[1]] \in {"registered", "unregistering"} => j[1] # r
  BY <1>0, <1>1 DEF TypeOK
<1>5. \A j \in Jobs : j[1] # r => /\ IsDb(j)' <=> IsDb(j)
                                  /\ Entered(j)' <=> Entered(j)
                                  /\ IsNext(j[1], j[2])' <=> IsNext(j[1], j[2])
                                  /\ pc'[j[1]] = pc[j[1]]
  BY <1>0, <1>1 DEF TypeOK, IsDb, TargetOf, Entered, IsNext
<1>6. \A w \in Workers : wpc'[w] \in {"lookup", "cleanup"} =>
          wjob'[w] \in Jobs /\ IsDb(wjob'[w]) /\ InHand(wjob'[w])
  BY <1>0, <1>1 DEF TypeOK, SecretsFit, InHand, Running, RunBy
<1>7. \A j \in Jobs : InHand(j) /\ AnsweredFor(j) => AnsweredFor(j)'
  <2>1. /\ abandoned \subseteq abandoned'
        /\ \A j \in Jobs : j[1] # r => rows'[j] = rows[j]
    BY <1>0 DEF Post, PostRejected, PostLost, PostConflicts, PostAdmitted, PostUnknown, Insert, tables
  <2> QED
    BY <1>0, <1>1, <1>3, <2>1 DEF AnsweredFor, InTodo, ActiveJob
<1> QED
  BY <1>1, <1>2, <1>3, <1>4, <1>5, <1>6, <1>7, SecretsKept

\* For a job in hand the loop answers until its row is final or it is written off:
\* it does not submit that job again.
LEMMA AnsweredForHandle ==
    ASSUME RowInv, OneHolder, NEW r \in Requests, Handle(r),
           NEW j \in Jobs, InHand(j), AnsweredFor(j)
    PROVE  AnsweredFor(j)'
<1> USE DEF Answer, Fault
<1>0. /\ TypeOK /\ Ordinary /\ j[1] \in Requests /\ j[2] \in 1..MaxBatch /\ j = <<j[1], j[2]>>
      /\ rows[j] \in Row
  BY OrdinaryHandle DEF RowInv, TypeOK, Jobs
<1>1. abandoned \subseteq abandoned'
  BY DEF Handle, Respond, RespondLost, SubmitFailureLost, RegisterTarget, ExecutorSubmit,
     SubmitRaises, SubmitRaisesLate, Unregister, RecordSubmitFailure, SubmitFailureUnknown
<1>2. CASE ~ActiveJob(j) \/ j \in abandoned
  BY <1>0, <1>1, <1>2 DEF AnsweredFor, Ordinary
<1>3. ASSUME InTodo(j), ~InTodo(j)' PROVE ~ActiveJob(j)' \/ j \in abandoned'
  <2>1. CASE SubmitFailureLost(r)
    <3>1. abandoned' = abandoned \cup {<<r, i>> : i \in todo[r]} /\ j[1] = r /\ j[2] \in todo[r]
      BY <1>0, <1>3, <2>1 DEF TypeOK, SubmitFailureLost, InTodo
    <3> QED
      BY <1>0, <3>1
  <2>2. ASSUME NEW i \in 1..MaxBatch, RecordSubmitFailure(r, i) PROVE ~ActiveJob(j)'
    <3>1. j = <<r, i>> /\ rows'[j] = FailedRow(rows[j])
      BY <1>0, <1>3, <2>2 DEF TypeOK, RecordSubmitFailure, InTodo
    <3> QED
      BY <1>0, <3>1 DEF FailedRow, Row, ActiveJob, Active
  <2>3. ASSUME NEW i \in 1..MaxBatch, ExecutorSubmit(r, i) PROVE FALSE
    <3>1. j[1] = r /\ pc[r] \in {"submitting", "registered"}
      BY <1>0, <1>3, <2>3 DEF TypeOK, ExecutorSubmit, AtSubmit, InTodo
    <3> QED
      BY <1>3, <3>1 DEF OneHolder, GivingUp
  <2>4. CASE \/ Respond(r) \/ RespondLost(r)
             \/ \E i \in 1..MaxBatch : \/ RegisterTarget(r, i) \/ SubmitRaises(r, i)
                                       \/ SubmitRaisesLate(r, i) \/ Unregister(r, i)
    BY <1>3, <2>4 DEF Respond, RespondLost, RegisterTarget, SubmitRaises, SubmitRaisesLate, Unregister,
                      InTodo
  <2>5. ASSUME NEW i \in 1..MaxBatch, SubmitFailureUnknown(r, i)
        PROVE  ~ActiveJob(j)' \/ j \in abandoned'
    <3>1. /\ abandoned' = abandoned \cup {<<r, k>> : k \in todo[r] \ {i}}
          /\ j[1] = r /\ j[2] \in todo[r]
      BY <1>0, <1>3, <2>5 DEF TypeOK, SubmitFailureUnknown, InTodo
    <3>2. CASE j[2] # i
      BY <1>0, <3>1, <3>2
    <3>3. CASE j[2] = i
      <4>1. j = <<r, i>> /\ rows'[j] = FailedRow(rows[j])
        BY <1>0, <2>5, <3>1, <3>3 DEF TypeOK, SubmitFailureUnknown
      <4> QED
        BY <1>0, <4>1 DEF FailedRow, Row, ActiveJob, Active
    <3> QED
      BY <3>2, <3>3
  <2> QED
    BY <2>1, <2>2, <2>3, <2>4, <2>5 DEF Handle
<1> QED
  BY <1>2, <1>3 DEF AnsweredFor

LEMMA SecretsHandle ==
    ASSUME RowInv, OneHolder, SecretsFit, NEW r \in Requests, Handle(r)
    PROVE  SecretsFit'
<1> USE DEF Answer, Fault, pool, tables
<1>0. /\ TypeOK /\ registry \subseteq Jobs /\ \A j \in Jobs : j[1] \in Requests
  BY DEF RowInv, Jobs, TypeOK
<1>1. /\ batch' = batch /\ wpc' = wpc /\ wjob' = wjob
      /\ \A q \in Requests : q # r => todo'[q] = todo[q] /\ pc'[q] = pc[q]
  BY <1>0 DEF TypeOK, Handle, Respond, RespondLost, SubmitFailureLost, RegisterTarget, ExecutorSubmit,
     SubmitRaises, SubmitRaisesLate, Unregister, RecordSubmitFailure, SubmitFailureUnknown
<1>2. \A j \in Jobs : /\ IsDb(j)' <=> IsDb(j)
                      /\ Running(j)' <=> Running(j)
                      /\ j[1] # r => /\ Entered(j)' <=> Entered(j)
                                     /\ IsNext(j[1], j[2])' <=> IsNext(j[1], j[2])
                                     /\ pc'[j[1]] = pc[j[1]]
  BY <1>0, <1>1 DEF IsDb, TargetOf, Running, RunBy, Entered, IsNext
<1>3. \A w \in Workers : wpc'[w] \in {"lookup", "cleanup"} =>
          wjob'[w] \in Jobs /\ IsDb(wjob'[w]) /\ InHand(wjob'[w])
  BY <1>0, <1>1 DEF TypeOK, SecretsFit, InHand, Running, RunBy
<1>4. \A w \in Workers : wpc'[w] \in {"lookup", "cleanup"} => IsDb(wjob[w])'
  BY <1>1 DEF SecretsFit, IsDb, TargetOf
<1>5. \A j, k \in Jobs : j[1] = r /\ k[1] = r /\ IsNext(r, j[2]) /\ IsNext(r, k[2]) => j = k
  BY NextIsOne
<1>6. ASSUME queue' = queue PROVE \A j \in Jobs : InHand(j)' <=> InHand(j)
  BY <1>2, <1>6 DEF InHand, Queued
<1>7. \A j \in Jobs : InHand(j) /\ AnsweredFor(j) => AnsweredFor(j)'
  BY AnsweredForHandle
<1>8. CASE \/ Respond(r) \/ RespondLost(r) \/ SubmitFailureLost(r)
           \/ \E i \in 1..MaxBatch : RecordSubmitFailure(r, i) \/ SubmitFailureUnknown(r, i)
  <2>1. /\ registry' = registry /\ queue' = queue /\ pc[r] \in {"submitting", "raised"}
        /\ pc'[r] \in {"submitting", "done"}
    BY <1>0, <1>8 DEF TypeOK, Respond, RespondLost, SubmitFailureLost, RecordSubmitFailure,
                      SubmitFailureUnknown
  <2>2. \A j \in Jobs : InHand(j)' <=> InHand(j)
    BY <1>6, <2>1
  <2>3. \A j \in Jobs : Entered(j) => Entered(j)'
    BY <1>2, <2>1 DEF Entered
  <2>4. \A j \in Jobs : IsNext(j[1], j[2])' /\ pc'[j[1]] = "registered"
                           => IsNext(j[1], j[2]) /\ pc[j[1]] = "registered"
    BY <1>2, <2>1
  <2> QED
    BY <1>2, <1>3, <1>7, <2>1, <2>2, <2>3, <2>4, SecretsKept
<1>9. ASSUME NEW i \in 1..MaxBatch, RegisterTarget(r, i) PROVE SecretsFit'
  <2> DEFINE m == <<r, i>>
  <2>1. /\ m \in Jobs /\ m[1] = r /\ m[2] = i /\ IsNext(r, i) /\ IsDb(m)
        /\ registry' = registry \cup {m} /\ queue' = queue /\ todo' = todo /\ pc[r] = "submitting"
        /\ pc'[r] = "registered"
    BY <1>0, <1>9 DEF TypeOK, RegisterTarget, Jobs
  <2>2. \A j \in Jobs : InHand(j)' <=> InHand(j)
    BY <1>6, <2>1
  <2>3. \A j \in Jobs : IsNext(j[1], j[2])' <=> IsNext(j[1], j[2])
    BY <2>1 DEF IsNext
  <2>4. Entered(m)' /\ \A j \in Jobs : Entered(j) => Entered(j)'
    BY <1>2, <2>1, <2>3 DEF Entered
  <2>5. \A j \in registry' : IsDb(j)' /\ (InHand(j)' \/ Entered(j)')
    BY <1>0, <1>2, <2>1, <2>2, <2>4 DEF SecretsFit
  <2>6. \A j \in Jobs : IsDb(j)' /\ InHand(j)' => j \in registry' \/ AnsweredFor(j)'
    BY <1>2, <1>7, <2>1, <2>2 DEF SecretsFit
  <2>7. \A j \in Jobs : IsNext(j[1], j[2])' /\ pc'[j[1]] = "registered" => j \in registry'
    BY <1>2, <1>5, <2>1, <2>3 DEF SecretsFit
  <2> QED
    BY <1>4, <2>5, <2>6, <2>7 DEF SecretsFit
<1>10. ASSUME NEW i \in 1..MaxBatch, ExecutorSubmit(r, i) PROVE SecretsFit'
  <2> DEFINE m == <<r, i>>
  <2>1. /\ m \in Jobs /\ m[1] = r /\ m[2] = i /\ IsNext(r, i)
        /\ pc[r] = (IF IsDb(m) THEN "registered" ELSE "submitting")
        /\ registry' = registry /\ queue' = Append(queue, m) /\ queue \in Seq(Jobs)
        /\ pc'[r] = "submitting"
    BY <1>0, <1>10 DEF TypeOK, ExecutorSubmit, AtSubmit, Jobs
  <2>2. \A j \in Jobs : InHand(j)' <=> InHand(j) \/ j = m
    BY <1>2, <2>1 DEF InHand, Queued
  <2>3. IsDb(m) => m \in registry
    BY <2>1 DEF SecretsFit
  <2>4. \A j \in Jobs : Entered(j) => Entered(j)' \/ j = m
    BY <1>2, <1>5, <2>1 DEF Entered
  <2>5. \A j \in registry' : IsDb(j)' /\ (InHand(j)' \/ Entered(j)')
    BY <1>0, <1>2, <2>1, <2>2, <2>4 DEF SecretsFit
  <2>6. \A j \in Jobs : IsDb(j)' /\ InHand(j)' => j \in registry' \/ AnsweredFor(j)'
    BY <1>2, <1>7, <2>1, <2>2, <2>3 DEF SecretsFit
  <2>7. \A j \in Jobs : IsNext(j[1], j[2])' /\ pc'[j[1]] = "registered" => j \in registry'
    BY <1>2, <2>1 DEF SecretsFit
  <2> QED
    BY <1>4, <2>5, <2>6, <2>7 DEF SecretsFit
<1>11. ASSUME NEW i \in 1..MaxBatch, SubmitRaises(r, i) PROVE SecretsFit'
  <2> DEFINE m == <<r, i>>
  <2>1. /\ m \in Jobs /\ m[1] = r /\ m[2] = i /\ IsNext(r, i)
        /\ pc[r] = (IF IsDb(m) THEN "registered" ELSE "submitting")
        /\ pc'[r] = (IF IsDb(m) THEN "unregistering" ELSE "raised")
        /\ registry' = registry /\ queue' = queue /\ todo' = todo
    BY <1>0, <1>11 DEF TypeOK, SubmitRaises, AtSubmit, Raised, Jobs
  <2>2. \A j \in Jobs : InHand(j)' <=> InHand(j)
    BY <1>6, <2>1
  <2>3. \A j \in Jobs : IsNext(j[1], j[2])' <=> IsNext(j[1], j[2])
    BY <2>1 DEF IsNext
  <2>4. \A j \in Jobs : Entered(j) => Entered(j)'
    BY <1>2, <1>5, <2>1, <2>3 DEF Entered
  <2>5. \A j \in Jobs : IsNext(j[1], j[2])' /\ pc'[j[1]] = "registered"
                           => IsNext(j[1], j[2]) /\ pc[j[1]] = "registered"
    BY <1>2, <2>1
  <2> QED
    BY <1>2, <1>3, <1>7, <2>1, <2>2, <2>4, <2>5, SecretsKept
<1>12. ASSUME NEW i \in 1..MaxBatch, Unregister(r, i) PROVE SecretsFit'
  <2> DEFINE m == <<r, i>>
  <2>1. /\ m \in Jobs /\ m[1] = r /\ m[2] = i /\ IsNext(r, i) /\ InTodo(m)
        /\ pc[r] = "unregistering" /\ pc'[r] = "raised"
        /\ registry' = registry \ {m} /\ queue' = queue /\ todo' = todo
    BY <1>0, <1>12 DEF TypeOK, Unregister, Jobs, IsNext, InTodo
  <2>2. \A j \in Jobs : InHand(j)' <=> InHand(j)
    BY <1>6, <2>1
  <2>3. InTodo(m)'
    BY <2>1 DEF InTodo
  <2>4. \A j \in Jobs : Entered(j) => Entered(j)' \/ j = m
    BY <1>2, <1>5, <2>1 DEF Entered
  <2>5. \A j \in registry' : IsDb(j)' /\ (InHand(j)' \/ Entered(j)')
    BY <1>0, <1>2, <2>1, <2>2, <2>4 DEF SecretsFit
  <2>6. \A j \in Jobs : IsDb(j)' /\ InHand(j)' => j \in registry' \/ AnsweredFor(j)'
    BY <1>2, <1>7, <2>1, <2>2, <2>3 DEF SecretsFit, AnsweredFor
  <2>7. \A j \in Jobs : IsNext(j[1], j[2])' /\ pc'[j[1]] = "registered" => j \in registry'
    BY <1>2, <2>1 DEF SecretsFit
  <2> QED
    BY <1>4, <2>5, <2>6, <2>7 DEF SecretsFit
<1>13. ASSUME NEW i \in 1..MaxBatch, SubmitRaisesLate(r, i) PROVE SecretsFit'
  <2> DEFINE m == <<r, i>>
  <2>1. /\ m \in Jobs /\ m[1] = r /\ m[2] = i /\ IsNext(r, i) /\ InTodo(m)
        /\ pc[r] = (IF IsDb(m) THEN "registered" ELSE "submitting")
        /\ pc'[r] = (IF IsDb(m) THEN "unregistering" ELSE "raised")
        /\ registry' = registry /\ queue' = Append(queue, m) /\ queue \in Seq(Jobs) /\ todo' = todo
    BY <1>0, <1>13 DEF TypeOK, SubmitRaisesLate, AtSubmit, Raised, Jobs, IsNext, InTodo
  <2>2. \A j \in Jobs : InHand(j)' <=> InHand(j) \/ j = m
    BY <1>2, <2>1 DEF InHand, Queued
  <2>3. AnsweredFor(m)'
    BY <2>1 DEF AnsweredFor, InTodo
  <2>4. \A j \in Jobs : Entered(j) => Entered(j)' \/ j = m
    BY <1>2, <1>5, <2>1 DEF Entered
  <2>5. \A j \in registry' : IsDb(j)' /\ (InHand(j)' \/ Entered(j)')
    BY <1>0, <1>2, <2>1, <2>2, <2>4 DEF SecretsFit
  <2>6. \A j \in Jobs : IsDb(j)' /\ InHand(j)' => j \in registry' \/ AnsweredFor(j)'
    BY <1>2, <1>7, <2>1, <2>2, <2>3 DEF SecretsFit
  <2>7. \A j \in Jobs : IsNext(j[1], j[2])' /\ pc'[j[1]] = "registered" => j \in registry'
    BY <1>2, <2>1 DEF SecretsFit
  <2> QED
    BY <1>4, <2>5, <2>6, <2>7 DEF SecretsFit
<1> QED
  BY <1>8, <1>9, <1>10, <1>11, <1>12, <1>13 DEF Handle

HoldInv == HolderInv /\ HandlersFit /\ SecretsFit

LEMMA SecretsNext == HolderInv /\ SecretsFit /\ [Next]_vars => SecretsFit'
<1> SUFFICES ASSUME HolderInv, SecretsFit, [Next]_vars PROVE SecretsFit'
  OBVIOUS
<1>0. RowInv /\ OneHolder /\ DownHoldsNothing /\ registry \subseteq Jobs
  BY DEF HolderInv, RowInv, TypeOK
<1>1. CASE UNCHANGED vars
  BY <1>1 DEF vars, tables, handlers, pool, SecretsFit, InHand, Entered, AnsweredFor, ActiveJob, InTodo,
              Queued, Running, RunBy, IsDb, TargetOf, IsNext
\* The process was down and held nothing.
<1>2. CASE FailOrphanedJobs
  <2>1. ~up /\ UNCHANGED <<handlers, registry, pool>>
    BY <1>2 DEF FailOrphanedJobs
  <2>2. \A j \in Jobs : ~InHand(j) /\ ~InHand(j)'
    BY <1>0, <2>1 DEF DownHoldsNothing, Held, InHand, pool, Queued, Running, RunBy
  <2> QED
    BY <1>0, <2>1, <2>2 DEF handlers, pool, SecretsFit, Entered, IsDb, TargetOf, IsNext
<1>3. CASE Crash
  <2>1. /\ registry' = {} /\ queue' = <<>> /\ \A w \in Workers : wpc'[w] = "idle"
        /\ \A j \in Jobs : pc'[j[1]] \in {"new", "done"}
    BY <1>3 DEF Crash, Jobs
  <2> QED
    BY <2>1 DEF SecretsFit, InHand, Queued, Running, RunBy
<1> QED
  BY <1>0, <1>1, <1>2, <1>3, SecretsPost, SecretsHandle, SecretsWork DEF Next

LEMMA HoldInvAlways == Spec => []HoldInv
<1>1. Init => SecretsFit
  BY DEF Init, SecretsFit, InHand, Queued, Running, RunBy, Jobs
<1>2. HolderInv => RowInv
  BY DEF HolderInv
<1> QED
  BY <1>1, <1>2, HolderInvInit, HolderInvNext, HandlersInit, HandlersNext, SecretsNext, PTL
     DEF Spec, HoldInv

\* No job is run by two threads or waits behind its own run, and none is submitted
\* again once it is queued, even when the executor raises after it has queued.
THEOREM JobsAreTakenOnce == Spec => []OneHolder
<1>1. HoldInv => OneHolder
  BY DEF HoldInv, HolderInv
<1> QED
  BY <1>1, HoldInvAlways, PTL

\* No credential is in memory without a job that still needs it.
THEOREM SecretsStayConfined == Spec => []SecretsConfined
<1>1. HoldInv => SecretsConfined
  <2> SUFFICES ASSUME HoldInv, NEW j \in registry
               PROVE  IsDb(j) /\ (Submitting(j) \/ Queued(j) \/ Running(j))
    BY DEF SecretsConfined
  <2>1. IsDb(j) /\ (InHand(j) \/ Entered(j))
    BY DEF HoldInv, SecretsFit
  <2> QED
    BY <2>1 DEF InHand, Entered, Submitting, IsNext, HandlerBusy
<1> QED
  BY <1>1, HoldInvAlways, PTL

------------------------------------------------------------------------------
(* No job is stranded.                                                       *)

\* A thread still has the row of the job to write.
Worked(j) == \E w \in Workers : RunBy(w, j) /\ wpc[w] # "cleanup"

Covered(j) == ActiveJob(j) => InTodo(j) \/ Queued(j) \/ Worked(j) \/ j \in abandoned

NoneStranded == up => \A j \in Jobs : Covered(j)

LEMMA StrandedPost ==
    ASSUME RowInv, HandlersFit, NoneStranded, NEW r \in Requests, Post(r), NEW j \in Jobs
    PROVE  Covered(j)'
<1> USE DEF Answer, Fault, pool, tables
<1>0. /\ TypeOK /\ j[1] \in Requests /\ todo[r] = {} /\ pc[r] = "new" /\ Covered(j)
  BY DEF RowInv, Jobs, HandlersFit, HandlerFits, NoneStranded, Post, PostRejected, PostLost,
         PostConflicts, PostAdmitted, PostUnknown
<1>1. queue' = queue /\ wpc' = wpc /\ wjob' = wjob /\ abandoned \subseteq abandoned'
  BY DEF Post, PostRejected, PostLost, PostConflicts, PostAdmitted, PostUnknown
<1>2. Queued(j)' <=> Queued(j)
  BY <1>1 DEF Queued
<1>3. Worked(j)' <=> Worked(j)
  BY <1>1 DEF Worked, RunBy
<1>4. CASE PostRejected(r) \/ PostLost(r) \/ \E b \in Batches : \E ok \in SUBSET DOMAIN b : PostConflicts(r, b, ok)
  <2>1. rows' = rows /\ todo' = todo
    BY <1>4 DEF PostRejected, PostLost, PostConflicts
  <2> QED
    BY <1>0, <1>1, <1>2, <1>3, <2>1 DEF Covered, ActiveJob, InTodo
<1>5. ASSUME NEW b \in Batches, NEW ok \in SUBSET DOMAIN b,
             PostAdmitted(r, b, ok) \/ PostUnknown(r, b, ok)
      PROVE  Covered(j)'
  <2>1. CASE j[1] = r /\ j[2] \in ok
    <3>1. CASE PostAdmitted(r, b, ok)
      BY <1>0, <2>1, <3>1 DEF PostAdmitted, TypeOK, Covered, InTodo
    <3>2. CASE PostUnknown(r, b, ok)
      BY <2>1, <3>2 DEF PostUnknown, Covered, Jobs
    <3> QED
      BY <1>5, <3>1, <3>2
  <2>2. CASE j[1] = r /\ j[2] \in DOMAIN b /\ j[2] \notin ok
    <3>1. rows'[j] = NewRow(j[2] \in ok)
      BY <1>5, <2>2 DEF PostAdmitted, PostUnknown, Insert
    <3>2. rows'[j].status = "failed"
      BY <2>2, <3>1 DEF NewRow, NoRow
    <3> QED
      BY <3>2 DEF Covered, ActiveJob, Active
  <2>3. CASE ~(j[1] = r /\ j[2] \in DOMAIN b)
    <3>1. rows'[j] = rows[j]
      BY <1>5, <2>3 DEF PostAdmitted, PostUnknown, Insert
    <3>2. InTodo(j) => InTodo(j)'
      BY <1>0, <1>5 DEF PostAdmitted, PostUnknown, TypeOK, InTodo
    <3> QED
      BY <1>0, <1>1, <1>2, <1>3, <3>1, <3>2 DEF Covered, ActiveJob
  <2> QED
    BY <2>1, <2>2, <2>3
<1> QED
  BY <1>4, <1>5 DEF Post

LEMMA StrandedHandle ==
    ASSUME RowInv, HandlersFit, NoneStranded, up, NEW r \in Requests, Handle(r), NEW j \in Jobs
    PROVE  Covered(j)'
<1> USE DEF Answer, Fault, pool, tables
<1>0. TypeOK /\ j[1] \in Requests /\ Covered(j)
  BY DEF RowInv, Jobs, NoneStranded
<1>1. wpc' = wpc /\ wjob' = wjob /\ abandoned \subseteq abandoned'
  BY DEF Handle, Respond, RespondLost, SubmitFailureLost, RegisterTarget, ExecutorSubmit,
     SubmitRaises, SubmitRaisesLate, Unregister, RecordSubmitFailure, SubmitFailureUnknown
<1>2. Worked(j) => Worked(j)'
  BY <1>1 DEF Worked, RunBy
<1>3. Queued(j) => Queued(j)'
  <2>1. queue' = queue \/ (queue \in Seq(Jobs) /\ \E k \in Jobs : queue' = Append(queue, k))
    BY <1>0 DEF TypeOK, Handle, Respond, RespondLost, SubmitFailureLost, RegisterTarget, ExecutorSubmit,
       SubmitRaises, SubmitRaisesLate, Unregister, RecordSubmitFailure, SubmitFailureUnknown,
       Jobs
  <2> QED
    BY <2>1 DEF Queued
<1>4. ASSUME rows' = rows, InTodo(j) => InTodo(j)' \/ Queued(j)' \/ j \in abandoned'
      PROVE  Covered(j)'
  BY <1>0, <1>1, <1>2, <1>3, <1>4 DEF Covered, ActiveJob
<1>5. CASE Respond(r) \/ RespondLost(r)
  BY <1>4, <1>5 DEF Respond, RespondLost, InTodo
<1>6. CASE SubmitFailureLost(r)
  <2>1. rows' = rows /\ todo' = [todo EXCEPT ![r] = {}] /\ abandoned' = abandoned \cup {<<r, i>> : i \in todo[r]}
    BY <1>6 DEF SubmitFailureLost
  <2>2. InTodo(j) => InTodo(j)' \/ j \in abandoned'
    BY <1>0, <2>1 DEF TypeOK, InTodo, Jobs
  <2> QED
    BY <1>4, <2>1, <2>2
<1>7. ASSUME NEW i \in 1..MaxBatch,
             RegisterTarget(r, i) \/ SubmitRaises(r, i) \/ SubmitRaisesLate(r, i) \/ Unregister(r, i)
      PROVE  Covered(j)'
  BY <1>4, <1>7 DEF RegisterTarget, SubmitRaises, SubmitRaisesLate, Unregister, InTodo
<1>8. ASSUME NEW i \in 1..MaxBatch, ExecutorSubmit(r, i) PROVE Covered(j)'
  <2>1. /\ rows' = rows /\ todo' = [todo EXCEPT ![r] = @ \ {i}] /\ queue' = Append(queue, <<r, i>>)
        /\ queue \in Seq(Jobs)
    BY <1>0, <1>8 DEF ExecutorSubmit, TypeOK
  <2>2. j = <<r, i>> => Queued(j)'
    BY <2>1 DEF Queued, Jobs
  <2>3. InTodo(j) => InTodo(j)' \/ j = <<r, i>>
    BY <1>0, <2>1 DEF TypeOK, InTodo, Jobs
  <2> QED
    BY <1>4, <2>1, <2>2, <2>3
<1>9. ASSUME NEW i \in 1..MaxBatch, RecordSubmitFailure(r, i) PROVE Covered(j)'
  <2>1. /\ rows' = [rows EXCEPT ![<<r, i>>] = FailedRow(@)] /\ todo' = [todo EXCEPT ![r] = @ \ {i}]
    BY <1>9 DEF RecordSubmitFailure
  <2>2. CASE j = <<r, i>>
    <3>1. rows'[j].status = "failed"
      BY <1>0, <2>1, <2>2 DEF TypeOK, FailedRow, Row
    <3> QED
      BY <3>1 DEF Covered, ActiveJob, Active
  <2>3. CASE j # <<r, i>>
    <3>1. rows'[j] = rows[j] /\ (InTodo(j) => InTodo(j)')
      BY <1>0, <2>1, <2>3 DEF TypeOK, InTodo, Jobs
    <3> QED
      BY <1>0, <1>1, <1>2, <1>3, <3>1 DEF Covered, ActiveJob
  <2> QED
    BY <2>2, <2>3
<1>10. ASSUME NEW i \in 1..MaxBatch, SubmitFailureUnknown(r, i) PROVE Covered(j)'
  <2>1. /\ rows' = [rows EXCEPT ![<<r, i>>] = FailedRow(@)] /\ todo' = [todo EXCEPT ![r] = {}]
        /\ abandoned' = abandoned \cup {<<r, k>> : k \in todo[r] \ {i}}
    BY <1>10 DEF SubmitFailureUnknown
  <2>2. CASE j = <<r, i>>
    <3>1. rows'[j].status = "failed"
      BY <1>0, <2>1, <2>2 DEF TypeOK, FailedRow, Row
    <3> QED
      BY <3>1 DEF Covered, ActiveJob, Active
  <2>3. CASE j # <<r, i>>
    <3>1. rows'[j] = rows[j]
      BY <1>0, <2>1, <2>3 DEF TypeOK
    <3>2. InTodo(j) => InTodo(j)' \/ j \in abandoned'
      BY <1>0, <2>1, <2>3 DEF TypeOK, InTodo, Jobs
    <3> QED
      BY <1>0, <1>1, <1>2, <1>3, <3>1, <3>2 DEF Covered, ActiveJob
  <2> QED
    BY <2>2, <2>3
<1> QED
  BY <1>5, <1>6, <1>7, <1>8, <1>9, <1>10 DEF Handle

LEMMA StrandedWork ==
    ASSUME RowInv, SecretsFit, NoneStranded, up, NEW w \in Workers, Work(w), NEW j \in Jobs
    PROVE  Covered(j)'
<1> USE DEF Fault, Fails, Leaves, handlers, tables
<1>0. /\ TypeOK /\ Covered(j) /\ queue \in Seq(Jobs) /\ rows \in [Jobs -> Row]
      /\ wpc[w] # "idle" => wjob[w] \in Jobs /\ rows[wjob[w]] \in Row
  BY DEF RowInv, TypeOK, NoneStranded
<1>1. todo' = todo /\ abandoned \subseteq abandoned'
  BY DEF Work, Dequeue, LookupTarget, LookupMisses, StartJob, StartRefused, StartLost,
     PersistResult, PersistRefused, ScanRaises, FinishJob, FinishUnknown, FailJob, FailJobLost,
     Cleanup
<1>2. InTodo(j)' <=> InTodo(j)
  BY <1>1 DEF InTodo
\* A step after which the thread still has its job to write.
<1>3. ASSUME queue' = queue, wjob' = wjob, wpc[w] # "idle", wpc'[w] \notin {"idle", "cleanup"},
             \A v \in Workers : v # w => wpc'[v] = wpc[v],
             \A k \in Jobs : k # wjob[w] => rows'[k] = rows[k]
      PROVE  Covered(j)'
  <2>1. Queued(j)' <=> Queued(j)
    BY <1>3 DEF Queued
  <2>2. CASE j = wjob[w]
    BY <1>3, <2>2 DEF Covered, Worked, RunBy
  <2>3. CASE j # wjob[w]
    <3>1. rows'[j] = rows[j] /\ (Worked(j) => Worked(j)')
      BY <1>3, <2>3 DEF Worked, RunBy
    <3> QED
      BY <1>0, <1>1, <1>2, <2>1, <3>1 DEF Covered, ActiveJob
  <2> QED
    BY <2>2, <2>3
\* A step after which it has not, because the row is final or beyond writing.
<1>4. ASSUME queue' = queue, wpc[w] # "idle",
             rows'[wjob[w]].status \notin Active \/ wjob[w] \in abandoned'
                \/ (wpc[w] = "cleanup" /\ rows' = rows),
             \A v \in Workers : v # w => wpc'[v] = wpc[v] /\ wjob'[v] = wjob[v],
             \A k \in Jobs : k # wjob[w] => rows'[k] = rows[k]
      PROVE  Covered(j)'
  <2>1. Queued(j)' <=> Queued(j)
    BY <1>4 DEF Queued
  <2>2. Worked(j) /\ (j # wjob[w] \/ wpc[w] = "cleanup") => Worked(j)'
    BY <1>4 DEF Worked, RunBy
  <2>3. CASE j = wjob[w] /\ (rows'[j].status \notin Active \/ j \in abandoned')
    BY <2>3 DEF Covered, ActiveJob
  <2>4. CASE j # wjob[w] \/ (wpc[w] = "cleanup" /\ rows' = rows)
    <3>1. rows'[j] = rows[j]
      BY <1>4, <2>4
    <3> QED
      BY <1>0, <1>1, <1>2, <2>1, <2>2, <2>4, <3>1 DEF Covered, ActiveJob
  <2> QED
    BY <1>4, <2>3, <2>4
<1>5. CASE Dequeue(w)
  <2>1. /\ rows' = rows /\ wpc'[w] \in {"lookup", "starting"} /\ wjob'[w] = Head(queue)
        /\ \A v \in Workers : v # w => wpc'[v] = wpc[v] /\ wjob'[v] = wjob[v]
    BY <1>0, <1>5 DEF TypeOK, Dequeue
  <2>2. Queued(j) => Queued(j)' \/ j = Head(queue)
    <3>1. queue # <<>> /\ queue' = Tail(queue)
      BY <1>5 DEF Dequeue
    <3> QED
      BY <1>0, <3>1, QueueTail
  <2>3. Worked(j) => Worked(j)'
    BY <1>5, <2>1 DEF Dequeue, Worked, RunBy
  <2>4. j = Head(queue) => Worked(j)'
    BY <2>1 DEF Worked, RunBy
  <2> QED
    BY <1>0, <1>1, <1>2, <2>1, <2>2, <2>3, <2>4 DEF Covered, ActiveJob
<1>6. CASE LookupMisses(w)
  <2>1. /\ wjob[w] \in Jobs /\ IsDb(wjob[w]) /\ InHand(wjob[w]) /\ wjob[w] \notin registry
        /\ rows' = rows /\ queue' = queue
        /\ \A v \in Workers : v # w => wpc'[v] = wpc[v] /\ wjob'[v] = wjob[v]
    BY <1>0, <1>6 DEF TypeOK, LookupMisses, SecretsFit, InHand, Running, RunBy
  <2>2. AnsweredFor(wjob[w])
    BY <2>1 DEF SecretsFit
  <2>3. CASE j = wjob[w]
    BY <1>1, <1>2, <2>1, <2>2, <2>3 DEF Covered, AnsweredFor, ActiveJob
  <2>4. CASE j # wjob[w]
    <3>1. (Queued(j) => Queued(j)') /\ (Worked(j) => Worked(j)')
      BY <2>1, <2>4 DEF Queued, Worked, RunBy
    <3> QED
      BY <1>0, <1>1, <1>2, <2>1, <3>1 DEF Covered, ActiveJob
  <2> QED
    BY <2>3, <2>4
<1>7. CASE \/ LookupTarget(w) \/ StartJob(w) \/ StartRefused(w) \/ StartLost(w) \/ ScanRaises(w)
           \/ \E u \in Units : \/ \E pii, warning \in BOOLEAN : PersistResult(w, u, pii, warning)
                               \/ PersistRefused(w, u)
           \/ \E partial, exposed \in BOOLEAN : FinishUnknown(w, partial, exposed)
  <2>1. /\ queue' = queue /\ wjob' = wjob /\ wpc[w] # "idle" /\ wpc'[w] \notin {"idle", "cleanup"}
        /\ \A v \in Workers : v # w => wpc'[v] = wpc[v]
        /\ \A k \in Jobs : k # wjob[w] => rows'[k] = rows[k]
    BY <1>0, <1>7 DEF TypeOK, LookupTarget, StartJob, StartRefused, StartLost, ScanRaises,
       PersistResult, PersistRefused, FinishUnknown
  <2> QED
    BY <1>3, <2>1
<1>8. CASE \/ FailJob(w) \/ FailJobLost(w) \/ Cleanup(w)
           \/ \E partial, exposed \in BOOLEAN : FinishJob(w, partial, exposed)
  <2>1. /\ queue' = queue /\ wpc[w] # "idle"
        /\ \A v \in Workers : v # w => wpc'[v] = wpc[v] /\ wjob'[v] = wjob[v]
        /\ \A k \in Jobs : k # wjob[w] => rows'[k] = rows[k]
    BY <1>0, <1>8 DEF TypeOK, FailJob, FailJobLost, Cleanup, FinishJob
  <2>2. CASE FailJob(w)
    <3>1. rows'[wjob[w]] = FailedRow(rows[wjob[w]])
      BY <1>0, <2>1, <2>2 DEF FailJob
    <3>2. rows'[wjob[w]].status = "failed"
      BY <1>0, <2>1, <3>1 DEF FailedRow, Row
    <3> QED
      BY <1>4, <2>1, <3>2 DEF Active
  <2>3. ASSUME NEW partial \in BOOLEAN, NEW exposed \in BOOLEAN, FinishJob(w, partial, exposed)
        PROVE  Covered(j)'
    <3>1. rows'[wjob[w]] = FinishedRow(rows[wjob[w]], partial, partial \/ exposed)
      BY <1>0, <2>1, <2>3 DEF FinishJob
    <3>2. rows'[wjob[w]].status \in {"completed", "completed_with_warnings"}
      BY <1>0, <2>1, <3>1 DEF FinishedRow, Row
    <3> QED
      BY <1>4, <2>1, <3>2 DEF Active
  <2>4. CASE FailJobLost(w) \/ Cleanup(w)
    <3>1. wjob[w] \in abandoned' \/ (wpc[w] = "cleanup" /\ rows' = rows)
      BY <2>4 DEF FailJobLost, Cleanup
    <3> QED
      BY <1>4, <2>1, <3>1
  <2> QED
    BY <1>8, <2>2, <2>3, <2>4
<1> QED
  BY <1>5, <1>6, <1>7, <1>8 DEF Work

WatchInv == HoldInv /\ NoneStranded

LEMMA WatchInvAlways == Spec => []WatchInv
<1>1. Init => NoneStranded
  BY DEF Init, NoneStranded, Covered, ActiveJob, Active, NoRow
<1>2. WatchInv /\ [Next]_vars => NoneStranded'
  <2> SUFFICES ASSUME WatchInv, [Next]_vars, up', NEW j \in Jobs PROVE Covered(j)'
    BY DEF NoneStranded
  <2>0. RowInv /\ HandlersFit /\ SecretsFit /\ NoneStranded /\ rows \in [Jobs -> Row]
    BY DEF WatchInv, HoldInv, HolderInv, RowInv, TypeOK
  <2>1. CASE UNCHANGED vars
    BY <2>0, <2>1 DEF vars, tables, handlers, pool, world, NoneStranded, Covered, ActiveJob, InTodo,
                      Queued, Worked, RunBy
  <2>2. CASE FailOrphanedJobs
    <3>1. rows'[j].status \notin Active
      BY <2>0, <2>2 DEF FailOrphanedJobs, ActiveJob, Active, FailedRow, Row
    <3> QED
      BY <3>1 DEF Covered, ActiveJob
  <2>3. ASSUME NEW r \in Requests, Post(r) PROVE Covered(j)'
    BY <2>0, <2>3, StrandedPost
  <2>4. CASE ~Crash /\ ~FailOrphanedJobs /\ ~\E r \in Requests : Post(r)
    <3>1. CASE \E r \in Requests : Handle(r)
      <4>1. PICK r \in Requests : Handle(r)
        BY <3>1
      <4>2. up' = up
        BY <4>1, HandleKeepsUp
      <4> QED
        BY <2>0, <4>1, <4>2, StrandedHandle
    <3>2. CASE \E w \in Workers : Work(w)
      <4>1. PICK w \in Workers : Work(w)
        BY <3>2
      <4>2. up' = up
        BY <4>1, WorkKeepsUp
      <4> QED
        BY <2>0, <4>1, <4>2, StrandedWork
    <3> QED
      BY <2>1, <2>4, <3>1, <3>2 DEF Next
  <2>5. CASE Crash
    BY <2>5 DEF Crash
  <2> QED
    BY <2>2, <2>3, <2>4, <2>5
<1> QED
  BY <1>1, <1>2, HoldInvAlways, PTL DEF WatchInv, Spec

\* While the process serves, an active row is somebody's job: nothing but the loss
\* of the commit that records a failure leaves a target locked, even when the executor
\* raises after it has queued.
THEOREM NoJobIsStranded == Spec => []NoStrandedJob
<1>1. WatchInv => NoStrandedJob
  <2> SUFFICES ASSUME WatchInv, up, NEW j \in Jobs, ActiveJob(j)
               PROVE  \/ Submitting(j) \/ Queued(j)
                      \/ \E w \in Workers : RunBy(w, j) /\ wpc[w] # "cleanup"
                      \/ j \in abandoned
    BY DEF NoStrandedJob
  <2>1. InTodo(j) \/ Queued(j) \/ Worked(j) \/ j \in abandoned
    BY DEF WatchInv, NoneStranded, Covered
  <2>2. InTodo(j) => Submitting(j)
    <3>1. j[1] \in Requests /\ HandlerFits(j[1]) /\ pc[j[1]] \in PcValues
      BY DEF WatchInv, HoldInv, HolderInv, HandlersFit, RowInv, TypeOK, Jobs
    <3> QED
      BY <3>1 DEF HandlerFits, InTodo, Submitting, PcValues, HandlerBusy
  <2> QED
    BY <2>1, <2>2 DEF Worked
<1> QED
  BY <1>1, WatchInvAlways, PTL

\* What the answer says of the batch is what the tables and the process hold.
THEOREM AnswersAreTrue == Spec => []AnswerIsTrue
<1>1. WatchInv => AnswerIsTrue
  <2> SUFFICES ASSUME WatchInv, NEW r \in Requests
               PROVE  /\ response[r] = "202" /\ up =>
                            \A i \in DOMAIN batch[r] :
                                \/ rows[<<r, i>>].status \in Terminal
                                \/ Queued(<<r, i>>) \/ Running(<<r, i>>) \/ <<r, i>> \in abandoned
                      /\ response[r] \in {"409", "422"} => JobsOf(r) = {}
    BY DEF AnswerIsTrue
  <2>0. RowInv /\ HandlerFits(r) /\ NoneStranded
    BY DEF WatchInv, HoldInv, HolderInv, HandlersFit
  <2>1. ASSUME response[r] = "202", up, NEW i \in DOMAIN batch[r]
        PROVE  \/ rows[<<r, i>>].status \in Terminal
               \/ Queued(<<r, i>>) \/ Running(<<r, i>>) \/ <<r, i>> \in abandoned
    <3>1. PICK j \in Jobs : j = <<r, i>>
      BY <2>0, <2>1, Positions
    <3>2. ~InTodo(j) /\ Stored(j)
      BY <2>0, <2>1, <3>1 DEF HandlerFits, InTodo
    <3>3. Covered(j) /\ rows[j] \in Row
      BY <2>0, <2>1 DEF NoneStranded, RowInv, TypeOK
    <3>4. ActiveJob(j) \/ rows[j].status \in Terminal
      BY <3>2, <3>3 DEF ActiveJob, Active, Terminal, Completed, Row, Stored
    <3>5. Worked(j) => Running(j)
      BY DEF Worked, Running
    <3> QED
      BY <3>1, <3>2, <3>3, <3>4, <3>5 DEF Covered
  <2>2. response[r] \in {"409", "422"} => JobsOf(r) = {}
    BY <2>0 DEF HandlerFits, JobsOf, Stored
  <2> QED
    BY <2>1, <2>2
<1> QED
  BY <1>1, WatchInvAlways, PTL

------------------------------------------------------------------------------
(* Whoever could not record a failure has let go of the job, so that nothing *)
(* touches the row before the restart does.                                  *)

GivenUp == \A j \in abandoned : Stored(j) /\ ~InTodo(j) /\ ~Queued(j) /\ ~Worked(j)

GiveInv == LifeInv /\ HandlersFit /\ GivenUp

\* A step that gives nothing up and hands no job given up to anybody.
LEMMA GivenUpKept ==
    ASSUME PlaceInv, GivenUp, abandoned' \subseteq abandoned,
           \A j \in Jobs : Stored(j) => Stored(j)',
           \A j \in Jobs : j \in abandoned /\ InTodo(j)' => InTodo(j),
           \A j \in Jobs : j \in abandoned /\ Queued(j)' => Queued(j),
           \A j \in Jobs : j \in abandoned /\ Worked(j)' => Worked(j) \/ Queued(j)
    PROVE  GivenUp'
<1>1. abandoned \subseteq Jobs
  BY DEF PlaceInv, RowInv, TypeOK
<1> QED
  BY <1>1 DEF GivenUp

\* Nothing but the insert of a batch stores a row, and nothing deletes one.
LEMMA StoredStays ==
    ASSUME LifeInv, [Next]_vars, NEW j \in Jobs, Stored(j)
    PROVE  Stored(j)'
<1>1. Changes(j) /\ rows[j] \in Row
  BY RowChanges DEF LifeInv, PlaceInv, RowInv, TypeOK
<1> QED
  BY <1>1 DEF Changes, Stored, StartedRow, PersistedRow, FinishedRow, FailedRow, Row

LEMMA GivenUpPost ==
    ASSUME ~UnknownCommits, LifeInv, GivenUp, NEW r \in Requests, Post(r)
    PROVE  GivenUp'
<1> USE DEF Answer, Fault, pool
<1>0. TypeOK /\ PlaceInv /\ \A j \in Jobs : j[1] \in Requests
  BY DEF LifeInv, PlaceInv, RowInv, Jobs
<1>1. /\ pc[r] = "new" /\ abandoned' = abandoned
      /\ queue' = queue /\ wpc' = wpc /\ wjob' = wjob
      /\ \A q \in Requests : q # r => todo'[q] = todo[q]
  BY <1>0 DEF TypeOK, Post, PostRejected, PostLost, PostConflicts, PostAdmitted, PostUnknown
<1>2. \A j \in Jobs : j \in abandoned => j[1] # r
  BY <1>1 DEF GivenUp, LifeInv, PlaceInv, RowInv
<1>3. \A j \in Jobs : j \in abandoned /\ InTodo(j)' => InTodo(j)
  BY <1>0, <1>1, <1>2 DEF InTodo
<1>4. \A j \in Jobs : Queued(j)' <=> Queued(j)
  BY <1>1 DEF Queued
<1>5. \A j \in Jobs : Worked(j)' <=> Worked(j)
  BY <1>1 DEF Worked, RunBy
<1>6. \A j \in Jobs : Stored(j) => Stored(j)'
  BY StoredStays DEF Next
<1> QED
  BY <1>0, <1>1, <1>3, <1>4, <1>5, <1>6, GivenUpKept

LEMMA GivenUpHandle ==
    ASSUME ~LateRaises, LifeInv, GivenUp, NEW r \in Requests, Handle(r)
    PROVE  GivenUp'
<1> USE DEF Answer, Fault, pool, tables
<1>0. /\ TypeOK /\ PlaceInv /\ OnePlace /\ queue \in Seq(Jobs)
      /\ \A j \in Jobs : InTodo(j) => Stored(j)
  BY DEF LifeInv, PlaceInv, RowInv, TypeOK, Held
<1>1. wpc' = wpc /\ wjob' = wjob
  BY DEF Handle, Respond, RespondLost, SubmitFailureLost, RegisterTarget, ExecutorSubmit,
     SubmitRaises, SubmitRaisesLate, Unregister, RecordSubmitFailure, SubmitFailureUnknown
<1>2. \A j \in Jobs : InTodo(j)' => InTodo(j)
  <2>1. \/ todo' = todo
        \/ todo' = [todo EXCEPT ![r] = {}]
        \/ \E i \in 1..MaxBatch : todo' = [todo EXCEPT ![r] = @ \ {i}]
    BY DEF Handle, Respond, RespondLost, SubmitFailureLost, RegisterTarget, ExecutorSubmit,
       SubmitRaises, SubmitRaisesLate, Unregister, RecordSubmitFailure, SubmitFailureUnknown
  <2>2. todo \in [Requests -> SUBSET (1..MaxBatch)] /\ \A j \in Jobs : j[1] \in Requests
    BY <1>0 DEF TypeOK, Jobs
  <2> QED
    BY <2>1, <2>2 DEF InTodo
<1>3. \A j \in Jobs : Worked(j)' <=> Worked(j)
  BY <1>1 DEF Worked, RunBy
<1>4. \A j \in Jobs : Stored(j) => Stored(j)'
  BY StoredStays DEF Next
<1>5. ASSUME NEW i \in 1..MaxBatch, ExecutorSubmit(r, i) PROVE GivenUp'
  <2>1. /\ queue' = Append(queue, <<r, i>>) /\ abandoned' = abandoned
        /\ <<r, i>> \in Jobs /\ InTodo(<<r, i>>)
    BY <1>5 DEF ExecutorSubmit, AtSubmit, IsNext, InTodo, Jobs
  <2>2. \A j \in Jobs : Queued(j)' => Queued(j) \/ j = <<r, i>>
    BY <1>0, <2>1 DEF Queued
  <2>3. \A j \in Jobs : j \in abandoned /\ Queued(j)' => Queued(j)
    BY <2>1, <2>2 DEF GivenUp
  <2> QED
    BY <1>0, <1>2, <1>3, <1>4, <2>1, <2>3, GivenUpKept
<1>6. CASE SubmitFailureLost(r)
  <2>1. /\ queue' = queue /\ todo' = [todo EXCEPT ![r] = {}]
        /\ abandoned' = abandoned \cup {<<r, i>> : i \in todo[r]}
    BY <1>6 DEF SubmitFailureLost
  <2>2. \A j \in Jobs : Queued(j)' <=> Queued(j)
    BY <2>1 DEF Queued
  <2>3. ASSUME NEW j \in abandoned' PROVE Stored(j)' /\ ~InTodo(j)' /\ ~Queued(j)' /\ ~Worked(j)'
    <3>1. CASE j \in abandoned
      <4>1. j \in Jobs
        BY <1>0, <3>1 DEF TypeOK
      <4> QED
        BY <1>2, <1>3, <1>4, <2>2, <3>1, <4>1 DEF GivenUp
    <3>2. ASSUME NEW i \in todo[r], j = <<r, i>>
          PROVE  Stored(j)' /\ ~InTodo(j)' /\ ~Queued(j)' /\ ~Worked(j)'
      <4>1. j \in Jobs /\ InTodo(j) /\ ~InTodo(j)'
        BY <1>0, <2>1, <3>2 DEF TypeOK, InTodo, Jobs
      <4>2. ~Queued(j) /\ ~Worked(j) /\ Stored(j)
        BY <1>0, <4>1 DEF OnePlace, Worked, Running
      <4> QED
        BY <1>3, <1>4, <2>2, <4>1, <4>2
    <3> QED
      BY <2>1, <3>1, <3>2
  <2> QED
    BY <2>3 DEF GivenUp
<1>7. CASE \/ Respond(r) \/ RespondLost(r)
           \/ \E i \in 1..MaxBatch : \/ RegisterTarget(r, i) \/ SubmitRaises(r, i)
                                     \/ Unregister(r, i) \/ RecordSubmitFailure(r, i)
  <2>1. queue' = queue /\ abandoned' = abandoned
    BY <1>7 DEF Respond, RespondLost, RegisterTarget, SubmitRaises, Unregister, RecordSubmitFailure
  <2>2. \A j \in Jobs : Queued(j)' <=> Queued(j)
    BY <2>1 DEF Queued
  <2> QED
    BY <1>0, <1>2, <1>3, <1>4, <2>1, <2>2, GivenUpKept
<1>8. ASSUME NEW i \in 1..MaxBatch, SubmitFailureUnknown(r, i) PROVE GivenUp'
  <2>1. /\ queue' = queue /\ todo' = [todo EXCEPT ![r] = {}]
        /\ abandoned' = abandoned \cup {<<r, k>> : k \in todo[r] \ {i}}
    BY <1>8 DEF SubmitFailureUnknown
  <2>2. \A j \in Jobs : Queued(j)' <=> Queued(j)
    BY <2>1 DEF Queued
  <2>3. ASSUME NEW j \in abandoned' PROVE Stored(j)' /\ ~InTodo(j)' /\ ~Queued(j)' /\ ~Worked(j)'
    <3>1. CASE j \in abandoned
      <4>1. j \in Jobs
        BY <1>0, <3>1 DEF TypeOK
      <4> QED
        BY <1>2, <1>3, <1>4, <2>2, <3>1, <4>1 DEF GivenUp
    <3>2. ASSUME NEW k \in todo[r], j = <<r, k>>
          PROVE  Stored(j)' /\ ~InTodo(j)' /\ ~Queued(j)' /\ ~Worked(j)'
      <4>1. j \in Jobs /\ InTodo(j) /\ ~InTodo(j)'
        BY <1>0, <2>1, <3>2 DEF TypeOK, InTodo, Jobs
      <4>2. ~Queued(j) /\ ~Worked(j) /\ Stored(j)
        BY <1>0, <4>1 DEF OnePlace, Worked, Running
      <4> QED
        BY <1>3, <1>4, <2>2, <4>1, <4>2
    <3> QED
      BY <2>1, <3>1, <3>2
  <2> QED
    BY <2>3 DEF GivenUp
<1> QED
  BY <1>5, <1>6, <1>7, <1>8 DEF Handle, SubmitRaisesLate

LEMMA GivenUpWork ==
    ASSUME LifeInv, GivenUp, NEW w \in Workers, Work(w)
    PROVE  GivenUp'
<1> USE DEF Fault, Fails, Leaves, handlers, tables
<1>0. /\ TypeOK /\ PlaceInv /\ OnePlace /\ queue \in Seq(Jobs)
      /\ wpc[w] # "idle" => wjob[w] \in Jobs /\ Running(wjob[w]) /\ Stored(wjob[w])
  BY DEF LifeInv, PlaceInv, RowInv, TypeOK, Held, Running, RunBy
<1>1. todo' = todo
  BY DEF Work, Dequeue, LookupTarget, LookupMisses, StartJob, StartRefused, StartLost,
     PersistResult, PersistRefused, ScanRaises, FinishJob, FinishUnknown, FailJob, FailJobLost,
     Cleanup
<1>2. \A j \in Jobs : InTodo(j)' <=> InTodo(j)
  BY <1>1 DEF InTodo
<1>3. \A j \in Jobs : Stored(j) => Stored(j)'
  BY StoredStays DEF Next
<1>4. CASE Dequeue(w)
  <2>1. /\ queue # <<>> /\ queue' = Tail(queue) /\ wjob'[w] = Head(queue) /\ abandoned' = abandoned
        /\ \A v \in Workers : v # w => wpc'[v] = wpc[v] /\ wjob'[v] = wjob[v]
    BY <1>0, <1>4 DEF TypeOK, Dequeue
  <2>2. \A j \in Jobs : (Queued(j)' => Queued(j)) /\ (j = Head(queue) => Queued(j))
    BY <1>0, <2>1, QueueTail
  <2>3. \A j \in Jobs : Worked(j)' => Worked(j) \/ Queued(j)
    BY <2>1, <2>2 DEF Worked, RunBy
  <2> QED
    BY <1>0, <1>2, <1>3, <2>1, <2>2, <2>3, GivenUpKept
<1>5. ASSUME queue' = queue, abandoned' = abandoned,
             \A v \in Workers : /\ wpc'[v] # "idle" => wpc[v] # "idle" /\ wjob'[v] = wjob[v]
                                /\ wpc[v] = "cleanup" => wpc'[v] \in {"idle", "cleanup"}
      PROVE  GivenUp'
  <2>1. \A j \in Jobs : Queued(j)' <=> Queued(j)
    BY <1>5 DEF Queued
  <2>2. \A j \in Jobs : Worked(j)' => Worked(j)
    BY <1>5 DEF Worked, RunBy
  <2> QED
    BY <1>0, <1>2, <1>3, <1>5, <2>1, <2>2, GivenUpKept
<1>6. CASE \/ LookupTarget(w) \/ LookupMisses(w) \/ StartJob(w) \/ StartRefused(w) \/ StartLost(w)
           \/ \E u \in Units : \/ \E pii, warning \in BOOLEAN : PersistResult(w, u, pii, warning)
                               \/ PersistRefused(w, u)
           \/ ScanRaises(w) \/ FailJob(w) \/ Cleanup(w)
           \/ \E partial, exposed \in BOOLEAN :
                 FinishJob(w, partial, exposed) \/ FinishUnknown(w, partial, exposed)
  <2>1. /\ queue' = queue /\ abandoned' = abandoned
        /\ \A v \in Workers : v # w => wpc'[v] = wpc[v] /\ wjob'[v] = wjob[v]
    BY <1>0, <1>6 DEF TypeOK, LookupTarget, LookupMisses, StartJob, StartRefused, StartLost,
       PersistResult, PersistRefused, ScanRaises, FailJob, Cleanup, FinishJob, FinishUnknown
  <2>2. /\ wpc'[w] # "idle" => wpc[w] # "idle" /\ wjob'[w] = wjob[w]
        /\ wpc[w] = "cleanup" => wpc'[w] \in {"idle", "cleanup"}
    BY <1>0, <1>6 DEF TypeOK, LookupTarget, LookupMisses, StartJob, StartRefused, StartLost,
       PersistResult, PersistRefused, ScanRaises, FailJob, Cleanup, FinishJob, FinishUnknown
  <2> QED
    BY <1>5, <2>1, <2>2
<1>7. CASE FailJobLost(w)
  <2>1. /\ queue' = queue /\ abandoned' = abandoned \cup {wjob[w]} /\ wpc[w] = "failing"
        /\ wpc'[w] \in {"idle", "cleanup"}
        /\ \A v \in Workers : v # w => wpc'[v] = wpc[v] /\ wjob'[v] = wjob[v]
    BY <1>0, <1>7 DEF TypeOK, FailJobLost
  <2>2. \A j \in Jobs : Queued(j)' <=> Queued(j)
    BY <2>1 DEF Queued
  <2>3. \A j \in Jobs : Worked(j)' => Worked(j)
    BY <2>1 DEF Worked, RunBy
  <2>4. ~InTodo(wjob[w]) /\ ~Queued(wjob[w]) /\ Stored(wjob[w]) /\ wjob[w] \in Jobs
    BY <1>0, <2>1 DEF OnePlace
  <2>5. \A j \in Jobs : j = wjob[w] => ~Worked(j)'
    BY <1>0, <2>1 DEF OnePlace, Worked, RunBy
  <2>6. ASSUME NEW j \in abandoned' PROVE Stored(j)' /\ ~InTodo(j)' /\ ~Queued(j)' /\ ~Worked(j)'
    <3>1. CASE j \in abandoned
      <4>1. j \in Jobs
        BY <1>0, <3>1 DEF TypeOK
      <4> QED
        BY <1>2, <1>3, <2>2, <2>3, <3>1, <4>1 DEF GivenUp
    <3>2. CASE j = wjob[w]
      BY <1>2, <1>3, <2>2, <2>4, <2>5, <3>2
    <3> QED
      BY <2>1, <3>1, <3>2
  <2> QED
    BY <2>6 DEF GivenUp
<1> QED
  BY <1>4, <1>6, <1>7 DEF Work

LEMMA GiveInvAlways ==
    ASSUME ~LateRaises, ~UnknownCommits PROVE Spec => []GiveInv
<1>1. Init => GivenUp
  BY DEF Init, GivenUp
<1>2. GiveInv /\ [Next]_vars => GivenUp'
  <2> SUFFICES ASSUME GiveInv, [Next]_vars PROVE GivenUp'
    OBVIOUS
  <2>0. LifeInv /\ GivenUp
    BY DEF GiveInv
  <2>1. CASE UNCHANGED vars
    BY <2>0, <2>1 DEF vars, tables, handlers, pool, GivenUp, Stored, InTodo, Queued, Worked, RunBy
  <2>2. CASE Crash
    <3>1. /\ rows' = rows /\ abandoned' = abandoned
          /\ queue' = <<>> /\ (\A w \in Workers : wpc'[w] = "idle")
          /\ \A j \in Jobs : ~InTodo(j)'
      BY <2>2 DEF Crash, tables, InTodo, Jobs
    <3>2. abandoned \subseteq Jobs
      BY <2>0 DEF LifeInv, PlaceInv, RowInv, TypeOK
    <3> QED
      BY <2>0, <3>1, <3>2 DEF GivenUp, Stored, Queued, Worked, RunBy
  <2>3. CASE FailOrphanedJobs
    BY <2>3 DEF FailOrphanedJobs, GivenUp
  <2> QED
    BY <2>0, <2>1, <2>2, <2>3, GivenUpPost, GivenUpHandle, GivenUpWork DEF Next
<1>3. LifeInv => RowInv
  BY DEF LifeInv, PlaceInv
<1> QED
  BY <1>1, <1>2, <1>3, LifeInvAlways, HandlersInit, HandlersNext, PTL DEF Spec, GiveInv

------------------------------------------------------------------------------
(* Every step of the lifecycle is a step of the contract, or none.           *)

StatusOf == [j \in Jobs |-> rows[j].status]

\* The two modules name the same jobs and statuses.
LEMMA SameNames ==
    /\ Contract!Jobs = Jobs /\ Contract!Active = Active /\ Contract!Completed = Completed
    /\ Contract!Batches = Batches
BY DEF Contract!Jobs, Contract!Active, Contract!Completed, Contract!Batches, Jobs, Active, Completed,
       Batches

\* A write to the row of one job moves the status of that job only.
LEMMA StatusMoves ==
    ASSUME rows \in [Jobs -> Row], NEW m \in Jobs, NEW row, rows' = [rows EXCEPT ![m] = row]
    PROVE  StatusOf' = [StatusOf EXCEPT ![m] = row.status]
BY DEF StatusOf

LEMMA ContractPost ==
    ASSUME ~UnknownCommits, GiveInv, NEW r \in Requests, Post(r)
    PROVE  Contract!Next \/ UNCHANGED <<StatusOf, batch, abandoned>>
<1> USE DEF Answer, Fault, tables
<1>0. /\ TypeOK /\ rows \in [Jobs -> Row] /\ \A j \in Jobs : pc[j[1]] = "new" => ~Stored(j)
      /\ HandlerFits(r)
  BY DEF GiveInv, LifeInv, PlaceInv, RowInv, TypeOK, HandlersFit
<1>1. ASSUME NEW b \in Batches, NEW ok \in SUBSET DOMAIN b, PostAdmitted(r, b, ok)
      PROVE  Contract!Next
  <2>1. /\ pc[r] = "new" /\ ~Clashes(b, ok) /\ batch' = [batch EXCEPT ![r] = b]
        /\ rows' = [j \in Jobs |-> IF j[1] = r /\ j[2] \in DOMAIN b
                                   THEN NewRow(j[2] \in ok) ELSE rows[j]]
        /\ abandoned' = abandoned
    BY <1>1 DEF PostAdmitted, Insert
  <2>2. batch[r] = <<>>
    BY <1>0, <2>1 DEF HandlerFits
  <2>3. /\ \A i \in ok : ~Contract!Busy(b[i])
        /\ \A i, k \in ok : i # k => b[i] # b[k]
    BY <2>1, SameNames DEF Contract!Busy, Clashes, ActiveJob, TargetOf
  <2>4. \A j \in Jobs : rows'[j].status = IF j[1] = r /\ j[2] \in DOMAIN b
                                          THEN IF j[2] \in ok THEN "pending" ELSE "failed"
                                          ELSE rows[j].status
    BY <2>1 DEF NewRow, NoRow
  <2>5. StatusOf' = [j \in Jobs |-> IF j[1] = r /\ j[2] \in DOMAIN b
                                    THEN IF j[2] \in ok THEN "pending" ELSE "failed"
                                    ELSE StatusOf[j]]
    BY <2>4 DEF StatusOf
  <2>6. Contract!Store(r, b, ok)
    BY <2>1, <2>2, <2>3, <2>5, SameNames DEF Contract!Store, StatusOf
  <2> QED
    BY <2>6, SameNames DEF Contract!Next
<1>2. CASE PostRejected(r) \/ PostLost(r) \/ \E b \in Batches : \E ok \in SUBSET DOMAIN b : PostConflicts(r, b, ok)
  BY <1>2 DEF PostRejected, PostLost, PostConflicts, StatusOf
<1> QED
  BY <1>1, <1>2 DEF Post, PostUnknown

\* The four ways a single job moves, in the terms of the contract.
LEMMA ContractMoves ==
    ASSUME rows \in [Jobs -> Row], NEW m \in Jobs, batch' = batch
    PROVE  /\ /\ rows[m].status = "pending" /\ m \notin abandoned /\ abandoned' = abandoned
              /\ rows' = [rows EXCEPT ![m] = StartedRow(@)]
              => Contract!Next
           /\ /\ rows[m].status = "running" /\ m \notin abandoned /\ abandoned' = abandoned
              /\ \E partial, warnings \in BOOLEAN :
                    rows' = [rows EXCEPT ![m] = FinishedRow(@, partial, warnings)]
              => Contract!Next
           /\ /\ ActiveJob(m) /\ m \notin abandoned /\ abandoned' = abandoned
              /\ rows' = [rows EXCEPT ![m] = FailedRow(@)]
              => Contract!Next
           /\ /\ ActiveJob(m) /\ m \notin abandoned /\ abandoned' = abandoned \cup {m}
              /\ rows' = rows
              => Contract!Next
<1>0. rows[m] \in Row /\ StatusOf[m] = rows[m].status
  BY DEF StatusOf
<1>1. ASSUME rows[m].status = "pending", m \notin abandoned, abandoned' = abandoned,
             rows' = [rows EXCEPT ![m] = StartedRow(@)]
      PROVE  Contract!Next
  <2>1. StartedRow(rows[m]).status = "running"
    BY <1>0 DEF StartedRow, Row
  <2>2. StatusOf' = [StatusOf EXCEPT ![m] = "running"]
    BY <1>1, <2>1, StatusMoves
  <2>3. Contract!Start(m)
    BY <1>0, <1>1, <2>2 DEF Contract!Start, StatusOf
  <2> QED
    BY <2>3, SameNames DEF Contract!Next
<1>2. ASSUME NEW partial \in BOOLEAN, NEW warnings \in BOOLEAN,
             rows[m].status = "running", m \notin abandoned, abandoned' = abandoned,
             rows' = [rows EXCEPT ![m] = FinishedRow(@, partial, warnings)]
      PROVE  Contract!Next
  <2>1. PICK s \in Completed : s = FinishedRow(rows[m], partial, warnings).status
    BY <1>0 DEF FinishedRow, Row, Completed
  <2>2. StatusOf' = [StatusOf EXCEPT ![m] = s]
    BY <1>2, <2>1, StatusMoves
  <2>3. Contract!Complete(m)
    BY <1>0, <1>2, <2>2, SameNames DEF Contract!Complete, StatusOf
  <2> QED
    BY <2>3, SameNames DEF Contract!Next, Contract!End
<1>3. ASSUME ActiveJob(m), m \notin abandoned, abandoned' = abandoned,
             rows' = [rows EXCEPT ![m] = FailedRow(@)]
      PROVE  Contract!Next
  <2>1. FailedRow(rows[m]).status = "failed"
    BY <1>0 DEF FailedRow, Row
  <2>2. StatusOf' = [StatusOf EXCEPT ![m] = "failed"]
    BY <1>3, <2>1, StatusMoves
  <2>3. Contract!Fail(m)
    BY <1>0, <1>3, <2>2, SameNames DEF Contract!Fail, StatusOf, ActiveJob
  <2> QED
    BY <2>3, SameNames DEF Contract!Next, Contract!End
<1>4. ASSUME ActiveJob(m), m \notin abandoned, abandoned' = abandoned \cup {m}, rows' = rows
      PROVE  Contract!Next
  <2>1. Contract!Lose({m})
    BY <1>0, <1>4, SameNames DEF Contract!Lose, StatusOf, ActiveJob
  <2> QED
    BY <2>1, SameNames DEF Contract!Next
<1> QED
  BY <1>1, <1>2, <1>3, <1>4

LEMMA ContractHandle ==
    ASSUME ~LateRaises, ~UnknownCommits, GiveInv, NEW r \in Requests, Handle(r)
    PROVE  Contract!Next \/ UNCHANGED <<StatusOf, batch, abandoned>>
<1> USE DEF Answer, Fault, tables
<1>0. /\ TypeOK /\ rows \in [Jobs -> Row] /\ StatusFits /\ GivenUp
  BY DEF GiveInv, LifeInv, PlaceInv, RowInv, TypeOK
<1>1. ASSUME NEW i \in 1..MaxBatch, RecordSubmitFailure(r, i)
      PROVE  Contract!Next
  <2>1. /\ <<r, i>> \in Jobs /\ InTodo(<<r, i>>) /\ batch' = batch /\ abandoned' = abandoned
        /\ rows' = [rows EXCEPT ![<<r, i>>] = FailedRow(@)]
    BY <1>1 DEF RecordSubmitFailure, IsNext, InTodo, Jobs
  <2>2. ActiveJob(<<r, i>>) /\ <<r, i>> \notin abandoned
    BY <1>0, <2>1 DEF StatusFits, GivenUp, ActiveJob, Active
  <2> QED
    BY <1>0, <2>1, <2>2, ContractMoves
<1>2. CASE SubmitFailureLost(r)
  <2> DEFINE S == {<<r, i>> : i \in todo[r]}
  <2>1. rows' = rows /\ batch' = batch /\ abandoned' = abandoned \cup S
    BY <1>2 DEF SubmitFailureLost
  <2>2. \A j \in S : j \in Jobs /\ InTodo(j)
    BY <1>0 DEF TypeOK, InTodo, Jobs
  <2>3. \A j \in S : ActiveJob(j) /\ j \notin abandoned
    BY <1>0, <2>2 DEF StatusFits, GivenUp, ActiveJob, Active
  <2>4. CASE S = {}
    BY <2>1, <2>4 DEF StatusOf
  <2>5. CASE S # {}
    <3>1. \A j \in S : StatusOf[j] = rows[j].status
      BY <2>2 DEF StatusOf
    <3>2. Contract!Lose(S)
      BY <2>1, <2>3, <2>5, <3>1, SameNames DEF Contract!Lose, StatusOf, ActiveJob
    <3>3. S \in SUBSET Jobs
      BY <2>2
    <3> QED
      BY <3>2, <3>3, SameNames DEF Contract!Next
  <2> QED
    BY <2>4, <2>5
<1>3. CASE \/ Respond(r) \/ RespondLost(r)
           \/ \E i \in 1..MaxBatch : \/ RegisterTarget(r, i) \/ ExecutorSubmit(r, i)
                                     \/ SubmitRaises(r, i) \/ Unregister(r, i)
  BY <1>3 DEF Respond, RespondLost, RegisterTarget, ExecutorSubmit, SubmitRaises, Unregister, StatusOf
<1> QED
  BY <1>1, <1>2, <1>3 DEF Handle, SubmitRaisesLate, SubmitFailureUnknown

LEMMA ContractWork ==
    ASSUME ~UnknownCommits, GiveInv, NEW w \in Workers, Work(w)
    PROVE  Contract!Next \/ UNCHANGED <<StatusOf, batch, abandoned>>
<1> USE DEF Fault, Fails, handlers, tables
<1>0. /\ rows \in [Jobs -> Row] /\ StatusFits
      /\ wpc[w] # "idle" => wjob[w] \in Jobs
      /\ wpc[w] \in {"starting", "scanning", "failing"} => wjob[w] \notin abandoned
      /\ wpc[w] = "failing" => ActiveJob(wjob[w])
  BY DEF GiveInv, LifeInv, PlaceInv, RowInv, TypeOK, FailingFits, GivenUp, Worked, RunBy
<1>1. CASE StartJob(w)
  <2>1. /\ wpc[w] = "starting" /\ batch' = batch /\ abandoned' = abandoned
        /\ rows' = [rows EXCEPT ![wjob[w]] = StartedRow(@)]
    BY <1>1 DEF StartJob
  <2> QED
    BY <1>0, <2>1, ContractMoves DEF StatusFits
<1>2. ASSUME NEW u \in Units, NEW pii \in BOOLEAN, NEW warning \in BOOLEAN,
             PersistResult(w, u, pii, warning)
      PROVE  UNCHANGED <<StatusOf, batch, abandoned>>
  <2>1. /\ wjob[w] \in Jobs /\ batch' = batch /\ abandoned' = abandoned
        /\ rows' = [rows EXCEPT ![wjob[w]] = PersistedRow(@, pii)]
    BY <1>0, <1>2 DEF PersistResult
  <2>2. PersistedRow(rows[wjob[w]], pii).status = rows[wjob[w]].status
    BY <1>0, <2>1 DEF PersistedRow, Row
  <2>3. \A j \in Jobs : rows'[j].status = rows[j].status
    BY <1>0, <2>1, <2>2
  <2> QED
    BY <2>1, <2>3 DEF StatusOf
<1>3. ASSUME NEW partial \in BOOLEAN, NEW exposed \in BOOLEAN, FinishJob(w, partial, exposed)
      PROVE  Contract!Next
  <2>1. /\ wpc[w] = "scanning" /\ batch' = batch /\ abandoned' = abandoned
        /\ rows' = [rows EXCEPT ![wjob[w]] = FinishedRow(@, partial, partial \/ exposed)]
        /\ (partial \/ exposed) \in BOOLEAN
    BY <1>3 DEF FinishJob
  <2> QED
    BY <1>0, <2>1, ContractMoves DEF StatusFits
<1>4. CASE FailJob(w)
  <2>1. /\ wpc[w] = "failing" /\ batch' = batch /\ abandoned' = abandoned
        /\ rows' = [rows EXCEPT ![wjob[w]] = FailedRow(@)]
    BY <1>4 DEF FailJob
  <2> QED
    BY <1>0, <2>1, ContractMoves
<1>5. CASE FailJobLost(w)
  <2>1. /\ wpc[w] = "failing" /\ batch' = batch /\ abandoned' = abandoned \cup {wjob[w]}
        /\ rows' = rows
    BY <1>5 DEF FailJobLost
  <2> QED
    BY <1>0, <2>1, ContractMoves
<1>6. CASE \/ Dequeue(w) \/ LookupTarget(w) \/ LookupMisses(w) \/ StartRefused(w) \/ StartLost(w)
           \/ \E u \in Units : PersistRefused(w, u)
           \/ ScanRaises(w) \/ Cleanup(w)
  BY <1>6 DEF Dequeue, LookupTarget, LookupMisses, StartRefused, StartLost, PersistRefused, ScanRaises,
              Cleanup, StatusOf
<1> QED
  BY <1>1, <1>2, <1>3, <1>4, <1>5, <1>6 DEF Work, FinishUnknown

\* What a client relies on of a batch and its jobs is what the lifecycle does: every
\* step is a step of the contract or none.  What the contract says of jobs that end
\* rests on fairness and is not part of this.
THEOREM ContractIsKept ==
    ASSUME ~LateRaises, ~UnknownCommits PROVE Spec => Contract!SafeSpec
<1>1. Init => Contract!Init
  BY SameNames DEF Init, Contract!Init, NoRow
<1>2. GiveInv /\ [Next]_vars => [Contract!Next]_<<StatusOf, batch, abandoned>>
  <2> SUFFICES ASSUME GiveInv, [Next]_vars
               PROVE  Contract!Next \/ UNCHANGED <<StatusOf, batch, abandoned>>
    OBVIOUS
  <2>1. CASE UNCHANGED vars \/ Crash
    BY <2>1 DEF vars, tables, handlers, Crash, StatusOf
  <2>2. CASE FailOrphanedJobs
    <3>0. rows \in [Jobs -> Row]
      BY DEF GiveInv, LifeInv, PlaceInv, RowInv, TypeOK
    <3>1. /\ batch' = batch /\ abandoned' = {}
          /\ rows' = [j \in Jobs |-> IF ActiveJob(j) THEN FailedRow(rows[j]) ELSE rows[j]]
      BY <2>2 DEF FailOrphanedJobs, handlers
    <3>2. \A j \in Jobs : FailedRow(rows[j]).status = "failed"
      BY <3>0 DEF FailedRow, Row
    <3>3. StatusOf' = [j \in Jobs |-> IF StatusOf[j] \in Active THEN "failed" ELSE StatusOf[j]]
      BY <3>1, <3>2 DEF StatusOf, ActiveJob
    <3>4. Contract!Restart
      BY <3>1, <3>3, SameNames DEF Contract!Restart, StatusOf
    <3> QED
      BY <3>4 DEF Contract!Next
  <2> QED
    BY <2>1, <2>2, ContractPost, ContractHandle, ContractWork DEF Next
<1>3. [Contract!Next]_<<StatusOf, batch, abandoned>> => [Contract!Next]_(Contract!jobVars)
  BY DEF StatusOf, Contract!jobVars
<1> QED
  BY <1>1, <1>2, <1>3, GiveInvAlways, PTL DEF Spec, Contract!SafeSpec
==============================================================================
