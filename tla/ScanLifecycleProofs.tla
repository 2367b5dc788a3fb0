------------------------ MODULE ScanLifecycleProofs ------------------------
(***************************************************************************)
(* Proofs about ScanLifecycle for every set of requests, targets, workers  *)
(* and units and every bound.                                              *)
(***************************************************************************)
EXTENDS ScanRequirements, TLAPS

------------------------------------------------------------------------------
(* The helpers the actions are built from.                                  *)

\* A batch has positions 1..n for some n up to MaxBatch.
LEMMA BatchDomain == \A b \in Batches : DOMAIN b \subseteq 1..MaxBatch
  BY BoundsAssumption DEF Batches

\* Every write of the coordinator and of the routes produces a row.
LEMMA RowTypes ==
  /\ NoRow \in Row
  /\ \A ok \in BOOLEAN : NewRow(ok) \in Row
  /\ \A row \in Row :
        /\ StartedRow(row) \in Row
        /\ FailedRow(row) \in Row
        /\ \A pii \in BOOLEAN : PersistedRow(row, pii) \in Row
        /\ \A partial, warnings \in BOOLEAN : FinishedRow(row, partial, warnings) \in Row
<1>1. /\ NoRow \in Row
      /\ \A ok \in BOOLEAN : NewRow(ok) \in Row
  BY DEF NoRow, NewRow, Row, Active, Terminal, Completed
<1>2. ASSUME NEW row \in Row
      PROVE  /\ StartedRow(row) \in Row
             /\ FailedRow(row) \in Row
  BY ProgressAssumption DEF StartedRow, FailedRow, Row, Active, Terminal, Completed
<1>3. ASSUME NEW row \in Row, NEW pii \in BOOLEAN
      PROVE  PersistedRow(row, pii) \in Row
  <2>1. row.progress \in Nat /\ row.matches \in Nat
    BY DEF Row
  <2>2. NextProgress(row.progress) \in Nat
    BY <2>1, ProgressAssumption DEF NextProgress
  <2>3. (IF pii THEN row.matches + 1 ELSE row.matches) \in Nat
    BY <2>1
  <2> QED
    BY <2>2, <2>3 DEF PersistedRow, Row
<1>4. ASSUME NEW row \in Row, NEW partial \in BOOLEAN, NEW warnings \in BOOLEAN
      PROVE  FinishedRow(row, partial, warnings) \in Row
  BY ProgressAssumption DEF FinishedRow, Row, Active, Terminal, Completed
<1> QED
  BY <1>1, <1>2, <1>3, <1>4

------------------------------------------------------------------------------
(* Type correctness.                                                        *)

LEMMA TypeInit == Init => TypeOK
  BY RowTypes DEF Init, TypeOK, PcValues, WpcValues, Identities

\* The insert of a batch.
LEMMA TypeInsert ==
  ASSUME TypeOK, NEW r \in Requests, NEW b \in Batches, NEW ok \in SUBSET DOMAIN b,
         Insert(r, b, ok)
  PROVE  /\ rows' \in [Jobs -> Row]
         /\ batch' \in [Requests -> Batches \cup {<<>>}]
<1>1. ASSUME NEW j \in Jobs
      PROVE  NewRow(j[2] \in ok) \in Row
  BY DEF NewRow, NoRow, Row, Active, Terminal, Completed
<1>2. rows' = [j \in Jobs |-> IF j[1] = r /\ j[2] \in DOMAIN b
                              THEN NewRow(j[2] \in ok) ELSE rows[j]]
  BY DEF Insert
<1>3. rows' \in [Jobs -> Row]
  BY <1>1, <1>2 DEF TypeOK
<1> QED
  BY <1>3 DEF Insert, TypeOK

\* A client's request.
LEMMA TypePost ==
  ASSUME TypeOK, NEW r \in Requests, Post(r)
  PROVE  TypeOK'
<1> USE DEF Answer, Fault, tables, handlers, pool, world, PcValues
<1>1. CASE PostRejected(r)
  BY <1>1 DEF TypeOK, PostRejected
<1>2. CASE PostLost(r)
  BY <1>2 DEF TypeOK, PostLost
<1>3. ASSUME NEW b \in Batches, NEW ok \in SUBSET DOMAIN b, PostConflicts(r, b, ok)
      PROVE  TypeOK'
  BY <1>3 DEF TypeOK, PostConflicts
<1>4. ASSUME NEW b \in Batches, NEW ok \in SUBSET DOMAIN b, PostAdmitted(r, b, ok)
      PROVE  TypeOK'
  <2>1. rows' \in [Jobs -> Row]
    BY <1>4, TypeInsert DEF PostAdmitted
  <2>2. todo' \in [Requests -> SUBSET (1..MaxBatch)]
    BY <1>4, BatchDomain DEF TypeOK, PostAdmitted
  <2>3. /\ batch' \in [Requests -> Batches \cup {<<>>}]
        /\ pc' \in [Requests -> PcValues]
    BY <1>4 DEF TypeOK, PostAdmitted, Insert
  <2> QED
    BY <1>4, <2>1, <2>2, <2>3 DEF TypeOK, PostAdmitted, Insert
<1>5. ASSUME NEW b \in Batches, NEW ok \in SUBSET DOMAIN b, PostUnknown(r, b, ok)
      PROVE  TypeOK'
  <2>1. rows' \in [Jobs -> Row]
    BY <1>5, TypeInsert DEF PostUnknown
  <2>2. {<<r, i>> : i \in ok} \subseteq Jobs
    BY BatchDomain DEF Jobs
  <2>3. /\ batch' \in [Requests -> Batches \cup {<<>>}]
        /\ pc' \in [Requests -> PcValues]
        /\ response' \in [Requests -> {"none", "202", "409", "422", "500"}]
    BY <1>5 DEF TypeOK, PostUnknown, Insert
  <2> QED
    BY <1>5, <2>1, <2>2, <2>3 DEF TypeOK, PostUnknown, Insert
<1> QED
  BY <1>1, <1>2, <1>3, <1>4, <1>5 DEF Post

\* A step of the submit loop.
LEMMA TypeHandle ==
  ASSUME TypeOK, NEW r \in Requests, Handle(r)
  PROVE  TypeOK'
<1> USE DEF Answer, Fault, tables, handlers, pool, world, PcValues
<1>1. CASE Respond(r)
  BY <1>1 DEF TypeOK, Respond
<1>2. CASE RespondLost(r)
  BY <1>2 DEF TypeOK, RespondLost
<1>3. CASE SubmitFailureLost(r)
  <2>1. {<<r, i>> : i \in todo[r]} \subseteq Jobs
    BY DEF TypeOK, Jobs
  <2> QED
    BY <1>3, <2>1 DEF TypeOK, SubmitFailureLost
<1>4. ASSUME NEW i \in 1..MaxBatch, RegisterTarget(r, i)
      PROVE  TypeOK'
  BY <1>4 DEF TypeOK, RegisterTarget, Jobs
<1>5. ASSUME NEW i \in 1..MaxBatch, ExecutorSubmit(r, i)
      PROVE  TypeOK'
  BY <1>5 DEF TypeOK, ExecutorSubmit, Jobs
<1>6. ASSUME NEW i \in 1..MaxBatch, SubmitRaises(r, i)
      PROVE  TypeOK'
  BY <1>6 DEF TypeOK, SubmitRaises, Raised
<1>7. ASSUME NEW i \in 1..MaxBatch, SubmitRaisesLate(r, i)
      PROVE  TypeOK'
  BY <1>7 DEF TypeOK, SubmitRaisesLate, Raised, Jobs
<1>8. ASSUME NEW i \in 1..MaxBatch, Unregister(r, i)
      PROVE  TypeOK'
  BY <1>8 DEF TypeOK, Unregister
<1>9. ASSUME NEW i \in 1..MaxBatch, RecordSubmitFailure(r, i)
      PROVE  TypeOK'
  <2>1. rows' \in [Jobs -> Row]
    BY <1>9, RowTypes DEF TypeOK, RecordSubmitFailure
  <2> QED
    BY <1>9, <2>1 DEF TypeOK, RecordSubmitFailure
<1>10. ASSUME NEW i \in 1..MaxBatch, SubmitFailureUnknown(r, i)
       PROVE  TypeOK'
  <2>1. rows' \in [Jobs -> Row]
    BY <1>10, RowTypes DEF TypeOK, SubmitFailureUnknown
  <2>2. {<<r, k>> : k \in todo[r] \ {i}} \subseteq Jobs
    BY DEF TypeOK, Jobs
  <2> QED
    BY <1>10, <2>1, <2>2 DEF TypeOK, SubmitFailureUnknown
<1> QED
  BY <1>1, <1>2, <1>3, <1>4, <1>5, <1>6, <1>7, <1>8, <1>9, <1>10 DEF Handle

\* A step of a worker thread.
LEMMA TypeWork ==
  ASSUME TypeOK, NEW w \in Workers, Work(w)
  PROVE  TypeOK'
<1> USE DEF Fault, Fails, Leaves, ForgetScan, tables, handlers, pool, world, WpcValues
<1>1. CASE Dequeue(w)
  BY <1>1 DEF TypeOK, Dequeue
<1>2. CASE LookupTarget(w)
  BY <1>2 DEF TypeOK, LookupTarget
<1>3. CASE LookupMisses(w)
  BY <1>3 DEF TypeOK, LookupMisses
<1>4. CASE StartJob(w)
  <2>1. rows' \in [Jobs -> Row]
    BY <1>4, RowTypes DEF TypeOK, StartJob
  <2> QED
    BY <1>4, <2>1 DEF TypeOK, StartJob
<1>5. CASE StartRefused(w)
  BY <1>5 DEF TypeOK, StartRefused
<1>6. CASE StartLost(w)
  BY <1>6 DEF TypeOK, StartLost
<1>7. ASSUME NEW u \in Units, NEW pii \in BOOLEAN, NEW warning \in BOOLEAN,
             PersistResult(w, u, pii, warning)
      PROVE  TypeOK'
  <2>1. rows' \in [Jobs -> Row]
    BY <1>7, RowTypes DEF TypeOK, PersistResult
  <2>2. inventory' \in [Jobs -> SUBSET Identities]
    BY <1>7 DEF TypeOK, PersistResult, Identity, Identities
  <2> QED
    BY <1>7, <2>1, <2>2 DEF TypeOK, PersistResult
<1>8. ASSUME NEW u \in Units, PersistRefused(w, u)
      PROVE  TypeOK'
  BY <1>8 DEF TypeOK, PersistRefused
<1>9. CASE ScanRaises(w)
  BY <1>9 DEF TypeOK, ScanRaises
<1>10. ASSUME NEW partial \in BOOLEAN, NEW exposed \in BOOLEAN,
              FinishJob(w, partial, exposed)
       PROVE  TypeOK'
  <2>1. rows' \in [Jobs -> Row]
    BY <1>10, RowTypes DEF TypeOK, FinishJob
  <2> QED
    BY <1>10, <2>1 DEF TypeOK, FinishJob
<1>11. ASSUME NEW partial \in BOOLEAN, NEW exposed \in BOOLEAN,
              FinishUnknown(w, partial, exposed)
       PROVE  TypeOK'
  <2>1. rows' \in [Jobs -> Row]
    BY <1>11, RowTypes DEF TypeOK, FinishUnknown
  <2> QED
    BY <1>11, <2>1 DEF TypeOK, FinishUnknown
<1>12. CASE FailJob(w)
  <2>1. rows' \in [Jobs -> Row]
    BY <1>12, RowTypes DEF TypeOK, FailJob
  <2> QED
    BY <1>12, <2>1 DEF TypeOK, FailJob
<1>13. CASE FailJobLost(w)
  BY <1>13 DEF TypeOK, FailJobLost
<1>14. CASE Cleanup(w)
  BY <1>14 DEF TypeOK, Cleanup
<1> QED
  BY <1>1, <1>2, <1>3, <1>4, <1>5, <1>6, <1>7, <1>8, <1>9, <1>10, <1>11, <1>12,
     <1>13, <1>14 DEF Work

\* The process dies, or comes back.
LEMMA TypeProcess ==
  ASSUME TypeOK, Crash \/ FailOrphanedJobs
  PROVE  TypeOK'
<1> USE DEF tables, handlers, pool, world, PcValues, WpcValues
<1>1. CASE Crash
  <2>1. queue' \in Seq(Jobs)
    BY <1>1 DEF Crash
  <2>2. /\ pc' \in [Requests -> PcValues]
        /\ todo' \in [Requests -> SUBSET (1..MaxBatch)]
    BY <1>1 DEF Crash, TypeOK
  <2>3. /\ wpc' \in [Workers -> WpcValues]
        /\ wjob' \in [Workers -> Jobs \cup {<<>>}]
        /\ warned' \in [Workers -> BOOLEAN]
        /\ seen' \in [Workers -> SUBSET Units]
    BY <1>1 DEF Crash
  <2>4. \A w \in Workers : wpc'[w] = "idle"
    BY <1>1 DEF Crash
  <2>5. /\ registry' \subseteq Jobs
        /\ crashes' \in Nat /\ faults' \in Nat /\ abandoned' \subseteq Jobs
    BY <1>1 DEF TypeOK, Crash
  <2>6. up' \in BOOLEAN
    BY <1>1 DEF Crash
  <2>7. /\ rows' = rows /\ inventory' = inventory /\ batch' = batch
        /\ response' = response
    BY <1>1 DEF Crash
  <2> QED
    BY <2>1, <2>2, <2>3, <2>4, <2>5, <2>6, <2>7 DEF TypeOK
<1>2. CASE FailOrphanedJobs
  <2>1. rows' \in [Jobs -> Row]
    BY <1>2, RowTypes DEF TypeOK, FailOrphanedJobs
  <2> QED
    BY <1>2, <2>1 DEF TypeOK, FailOrphanedJobs
<1> QED
  BY <1>1, <1>2

LEMMA TypeNext == TypeOK /\ [Next]_vars => TypeOK'
<1> SUFFICES ASSUME TypeOK, [Next]_vars
             PROVE  TypeOK'
  OBVIOUS
<1>1. CASE Next
  BY <1>1, TypePost, TypeHandle, TypeWork, TypeProcess DEF Next
<1>2. CASE UNCHANGED vars
  BY <1>2 DEF vars, tables, handlers, pool, world, TypeOK
<1> QED
  BY <1>1, <1>2

\* Every reachable state is well typed: whatever the handlers, threads, crashes
\* and lost commits do, no row, queue or registry ever holds anything else.
THEOREM TypeCorrect == Spec => []TypeOK
  BY TypeInit, TypeNext, PTL DEF Spec

------------------------------------------------------------------------------
(* One active job per target.  The index speaks of the rows of one commit;   *)
(* that a thread never brings a finished row back to life rests on the       *)
(* CHECK that ties finished_at to the status, and on rows never being        *)
(* deleted while someone holds their job.                                    *)

Stored(j) == rows[j].status # "absent"

InTodo(j) == j[2] \in todo[j[1]]

\* Some part of the process still has the job to do.
Held(j) == InTodo(j) \/ Queued(j) \/ Running(j)

FinishedMatches(j) == (rows[j].status \in Terminal) <=> rows[j].finished

RowInv ==
    /\ TypeOK
    /\ \A j \in Jobs : FinishedMatches(j)
    /\ \A j \in Jobs : pc[j[1]] = "new" => ~Stored(j)
    /\ \A j \in Jobs : Held(j) => Stored(j)
    /\ OneActivePerTarget

\* What every step but the insert of a batch does to the rows and the places.
Ordinary ==
    /\ batch' = batch
    /\ \A j \in Jobs : /\ Stored(j)' <=> Stored(j)
                       /\ ActiveJob(j)' => ActiveJob(j)
                       /\ FinishedMatches(j) => FinishedMatches(j)'
                       /\ Held(j)' => Held(j)
    /\ \A r \in Requests : pc'[r] = "new" => pc[r] = "new"

LEMMA OrdinaryKeepsRowInv ==
  ASSUME RowInv, Ordinary, TypeOK'
  PROVE  RowInv'
<1>1. \A j \in Jobs : j[1] \in Requests
  BY DEF Jobs
<1>2. \A j \in Jobs : TargetOf(j)' = TargetOf(j)
  BY DEF Ordinary, TargetOf
<1>3. OneActivePerTarget'
  BY <1>2 DEF RowInv, OneActivePerTarget, Ordinary
<1> QED
  BY <1>1, <1>3 DEF RowInv, Ordinary

LEMMA RowInvInit == Init => RowInv
<1> SUFFICES ASSUME Init PROVE RowInv
  OBVIOUS
<1>1. \A j \in Jobs : rows[j] = NoRow
  BY DEF Init
<1>2. \A j \in Jobs : ~Held(j)
  BY DEF Init, Held, InTodo, Queued, Running, RunBy, Jobs
<1> QED
  BY <1>1, <1>2, TypeInit
     DEF RowInv, OneActivePerTarget, ActiveJob, FinishedMatches, Stored, NoRow, Active,
         Terminal, Completed

\* The rows after a step that rewrites at most the row of job m.
RowsKept(m) ==
    /\ \A j \in Jobs : j # m => rows'[j] = rows[j]
    /\ /\ rows'[m].status # "absent"
       /\ rows'[m].status \in Active => rows[m].status \in Active
       /\ FinishedMatches(m) => ((rows'[m].status \in Terminal) <=> rows'[m].finished)

LEMMA OrdinaryRows ==
  ASSUME RowInv, batch' = batch,
         rows' = rows \/ \E m \in Jobs : Stored(m) /\ RowsKept(m),
         \A j \in Jobs : Held(j)' => Held(j),
         \A r \in Requests : pc'[r] = "new" => pc[r] = "new"
  PROVE  Ordinary
<1>1. CASE rows' = rows
  BY <1>1 DEF Ordinary, Stored, ActiveJob, FinishedMatches
<1>2. ASSUME NEW m \in Jobs, Stored(m), RowsKept(m)
      PROVE  Ordinary
  BY <1>2 DEF Ordinary, Stored, ActiveJob, FinishedMatches, RowsKept
<1> QED
  BY <1>1, <1>2

\* Each write of a row that exists leaves a row, activates nothing that was not
\* active, and keeps finished_at in step with the status.
LEMMA WritesKeepRows ==
  ASSUME RowInv, NEW m \in Jobs, Stored(m)
  PROVE  /\ rows' = [rows EXCEPT ![m] = FailedRow(@)] => RowsKept(m)
         /\ RowOK(StartedRow(rows[m])) /\ rows' = [rows EXCEPT ![m] = StartedRow(@)]
               => RowsKept(m)
         /\ \A pii \in BOOLEAN :
               rows' = [rows EXCEPT ![m] = PersistedRow(@, pii)] => RowsKept(m)
         /\ \A partial, warnings \in BOOLEAN :
               rows' = [rows EXCEPT ![m] = FinishedRow(@, partial, warnings)] => RowsKept(m)
<1> USE DEF RowsKept, FinishedMatches, Stored, Active, Terminal, Completed
<1>1. rows \in [Jobs -> Row] /\ rows[m] \in Row
  BY DEF RowInv, TypeOK
<1>2. rows' = [rows EXCEPT ![m] = FailedRow(@)] => RowsKept(m)
  BY <1>1 DEF FailedRow, Row
<1>3. RowOK(StartedRow(rows[m])) /\ rows' = [rows EXCEPT ![m] = StartedRow(@)]
         => RowsKept(m)
  BY <1>1 DEF StartedRow, RowOK, Row, RowInv
<1>4. ASSUME NEW pii \in BOOLEAN, rows' = [rows EXCEPT ![m] = PersistedRow(@, pii)]
      PROVE  RowsKept(m)
  BY <1>1, <1>4 DEF PersistedRow, Row
<1>5. ASSUME NEW partial \in BOOLEAN, NEW warnings \in BOOLEAN,
             rows' = [rows EXCEPT ![m] = FinishedRow(@, partial, warnings)]
      PROVE  RowsKept(m)
  BY <1>1, <1>5 DEF FinishedRow, Row
<1> QED
  BY <1>2, <1>3, <1>4, <1>5

LEMMA OrdinaryHandle ==
  ASSUME RowInv, NEW r \in Requests, Handle(r)
  PROVE  Ordinary
<1> USE DEF Answer, Fault, tables, handlers, pool, world, Held, InTodo, Queued, Running, RunBy
<1>0. TypeOK
  BY DEF RowInv
<1>1. CASE Respond(r)
  BY <1>1, <1>0, OrdinaryRows DEF TypeOK, Respond
<1>2. CASE RespondLost(r)
  BY <1>2, <1>0, OrdinaryRows DEF TypeOK, RespondLost
<1>3. CASE SubmitFailureLost(r)
  BY <1>3, <1>0, OrdinaryRows DEF TypeOK, SubmitFailureLost, Jobs
<1>4. ASSUME NEW i \in 1..MaxBatch, RegisterTarget(r, i)
      PROVE  Ordinary
  BY <1>4, <1>0, OrdinaryRows DEF TypeOK, RegisterTarget
<1>5. ASSUME NEW i \in 1..MaxBatch, ExecutorSubmit(r, i)
      PROVE  Ordinary
  BY <1>5, <1>0, OrdinaryRows DEF TypeOK, ExecutorSubmit, AtSubmit, IsNext, Jobs
<1>6. ASSUME NEW i \in 1..MaxBatch, SubmitRaises(r, i)
      PROVE  Ordinary
  BY <1>6, <1>0, OrdinaryRows DEF TypeOK, SubmitRaises, Raised
<1>7. ASSUME NEW i \in 1..MaxBatch, SubmitRaisesLate(r, i)
      PROVE  Ordinary
  BY <1>7, <1>0, OrdinaryRows DEF TypeOK, SubmitRaisesLate, AtSubmit, IsNext, Raised, Jobs
<1>8. ASSUME NEW i \in 1..MaxBatch, Unregister(r, i)
      PROVE  Ordinary
  BY <1>8, <1>0, OrdinaryRows DEF TypeOK, Unregister
<1>9. ASSUME NEW i \in 1..MaxBatch, RecordSubmitFailure(r, i)
      PROVE  Ordinary
  <2>1. <<r, i>> \in Jobs /\ Stored(<<r, i>>)
    BY <1>9, <1>0 DEF RecordSubmitFailure, IsNext, RowInv, Jobs
  <2>2. RowsKept(<<r, i>>)
    BY <1>9, <2>1, WritesKeepRows DEF RecordSubmitFailure
  <2> QED
    BY <1>9, <1>0, <2>1, <2>2, OrdinaryRows DEF TypeOK, RecordSubmitFailure, Jobs
<1>10. ASSUME NEW i \in 1..MaxBatch, SubmitFailureUnknown(r, i)
       PROVE  Ordinary
  <2>1. <<r, i>> \in Jobs /\ Stored(<<r, i>>)
    BY <1>10, <1>0 DEF SubmitFailureUnknown, IsNext, RowInv, Jobs
  <2>2. RowsKept(<<r, i>>)
    BY <1>10, <2>1, WritesKeepRows DEF SubmitFailureUnknown
  <2> QED
    BY <1>10, <1>0, <2>1, <2>2, OrdinaryRows DEF TypeOK, SubmitFailureUnknown, Jobs
<1> QED
  BY <1>1, <1>2, <1>3, <1>4, <1>5, <1>6, <1>7, <1>8, <1>9, <1>10 DEF Handle

LEMMA OrdinaryWork ==
  ASSUME RowInv, NEW w \in Workers, Work(w)
  PROVE  Ordinary
<1> USE DEF Fault, Fails, Leaves, ForgetScan, tables, handlers, pool, world, Held, InTodo, Queued,
            Running, RunBy
<1>0. TypeOK
  BY DEF RowInv
<1>1. CASE Dequeue(w)
  BY <1>1, <1>0, OrdinaryRows DEF TypeOK, Dequeue
<1>2. CASE LookupTarget(w)
  BY <1>2, <1>0, OrdinaryRows DEF TypeOK, LookupTarget
<1>3. CASE LookupMisses(w)
  BY <1>3, <1>0, OrdinaryRows DEF TypeOK, LookupMisses
<1>4. wpc[w] # "idle" => wjob[w] \in Jobs /\ Stored(wjob[w])
  BY <1>0 DEF TypeOK, RowInv
<1>5. CASE StartJob(w)
  BY <1>5, <1>0, <1>4, WritesKeepRows, OrdinaryRows DEF TypeOK, StartJob
<1>6. CASE StartRefused(w)
  BY <1>6, <1>0, OrdinaryRows DEF TypeOK, StartRefused
<1>7. CASE StartLost(w)
  BY <1>7, <1>0, OrdinaryRows DEF TypeOK, StartLost
<1>8. ASSUME NEW u \in Units, NEW pii \in BOOLEAN, NEW warning \in BOOLEAN,
             PersistResult(w, u, pii, warning)
      PROVE  Ordinary
  BY <1>8, <1>0, <1>4, WritesKeepRows, OrdinaryRows DEF TypeOK, PersistResult
<1>9. ASSUME NEW u \in Units, PersistRefused(w, u)
      PROVE  Ordinary
  BY <1>9, <1>0, OrdinaryRows DEF TypeOK, PersistRefused
<1>10. CASE ScanRaises(w)
  BY <1>10, <1>0, OrdinaryRows DEF TypeOK, ScanRaises
<1>11. ASSUME NEW partial \in BOOLEAN, NEW exposed \in BOOLEAN,
              FinishJob(w, partial, exposed)
       PROVE  Ordinary
  BY <1>11, <1>0, <1>4, WritesKeepRows, OrdinaryRows DEF TypeOK, FinishJob
<1>12. ASSUME NEW partial \in BOOLEAN, NEW exposed \in BOOLEAN,
              FinishUnknown(w, partial, exposed)
       PROVE  Ordinary
  BY <1>12, <1>0, <1>4, WritesKeepRows, OrdinaryRows DEF TypeOK, FinishUnknown
<1>13. CASE FailJob(w)
  BY <1>13, <1>0, <1>4, WritesKeepRows, OrdinaryRows DEF TypeOK, FailJob
<1>14. CASE FailJobLost(w)
  BY <1>14, <1>0, OrdinaryRows DEF TypeOK, FailJobLost
<1>15. CASE Cleanup(w)
  BY <1>15, <1>0, OrdinaryRows DEF TypeOK, Cleanup
<1> QED
  BY <1>1, <1>2, <1>3, <1>5, <1>6, <1>7, <1>8, <1>9, <1>10, <1>11, <1>12, <1>13,
     <1>14, <1>15 DEF Work

LEMMA OrdinaryProcess ==
  ASSUME RowInv, Crash \/ FailOrphanedJobs
  PROVE  Ordinary
<1> USE DEF tables, handlers, pool, world, Held, InTodo, Queued, Running, RunBy
<1>1. CASE Crash
  BY <1>1, OrdinaryRows DEF RowInv, TypeOK, Crash, Jobs
<1>2. CASE FailOrphanedJobs
  <2>1. ASSUME NEW j \in Jobs
        PROVE  /\ Stored(j)' <=> Stored(j)
               /\ ActiveJob(j)' => ActiveJob(j)
               /\ FinishedMatches(j) => FinishedMatches(j)'
    <3>1. rows[j] \in Row /\ rows'[j] = IF ActiveJob(j) THEN FailedRow(rows[j]) ELSE rows[j]
      BY <1>2 DEF FailOrphanedJobs, RowInv, TypeOK
    <3> QED
      BY <3>1 DEF Stored, ActiveJob, FinishedMatches, FailedRow, Row, Active, Terminal,
                  Completed
  <2> QED
    BY <1>2, <2>1 DEF FailOrphanedJobs, Ordinary
<1> QED
  BY <1>1, <1>2

LEMMA InsertKeepsRowInv ==
  ASSUME RowInv, TypeOK',
         NEW r \in Requests, NEW b \in Batches, NEW ok \in SUBSET DOMAIN b,
         pc[r] = "new", ~Clashes(b, ok), Insert(r, b, ok),
         \A j \in Jobs : Held(j)' => Held(j) \/ (j[1] = r /\ j[2] \in ok),
         \A q \in Requests : pc'[q] = "new" => pc[q] = "new" /\ q # r
  PROVE  RowInv'
<1> DEFINE New(j) == j[1] = r /\ j[2] \in DOMAIN b
<1>1. ASSUME NEW j \in Jobs
      PROVE  /\ j[1] \in Requests
             /\ New(j) => rows'[j] = NewRow(j[2] \in ok)
             /\ ~New(j) => rows'[j] = rows[j]
             /\ j[1] = r => ~Stored(j)
             /\ TargetOf(j)' = IF j[1] = r THEN b[j[2]] ELSE TargetOf(j)
  BY DEF Insert, RowInv, TypeOK, Jobs, TargetOf
<1>2. ASSUME NEW j \in Jobs, New(j)
      PROVE  /\ Stored(j)'
             /\ FinishedMatches(j)'
             /\ ActiveJob(j)' => j[2] \in ok
  <2> USE DEF NewRow, NoRow, Stored, FinishedMatches, ActiveJob, Active, Terminal, Completed
  <2>1. CASE j[2] \in ok
    <3>1. rows'[j].status = "pending" /\ rows'[j].finished = FALSE
      BY <1>1, <1>2, <2>1
    <3> QED
      BY <2>1, <3>1
  <2>2. CASE j[2] \notin ok
    <3>1. rows'[j] = [NoRow EXCEPT !.status = "failed", !.finished = TRUE,
                                   !.coverage = "failed", !.error = TRUE]
      BY <1>1, <1>2, <2>2
    <3>2. rows'[j].status = "failed" /\ rows'[j].finished
      BY <3>1
    <3> QED
      BY <3>2
  <2> QED
    BY <2>1, <2>2
<1>3. ASSUME NEW j \in Jobs, ActiveJob(j)'
      PROVE  \/ ActiveJob(j) /\ j[1] # r /\ TargetOf(j)' = TargetOf(j)
             \/ j[1] = r /\ j[2] \in ok /\ TargetOf(j)' = b[j[2]]
  BY <1>1, <1>2, <1>3 DEF ActiveJob, Stored, Active
<1>4. OneActivePerTarget'
  <2> SUFFICES ASSUME NEW j \in Jobs, NEW k \in Jobs, j # k, ActiveJob(j)', ActiveJob(k)'
               PROVE  TargetOf(j)' # TargetOf(k)'
    BY DEF OneActivePerTarget
  <2>1. CASE j[1] = r /\ k[1] = r
    <3>1. j[2] # k[2]
      BY <2>1 DEF Jobs
    <3> QED
      BY <2>1, <3>1, <1>3 DEF Clashes
  <2>2. CASE j[1] # r /\ k[1] # r
    BY <2>2, <1>3 DEF RowInv, OneActivePerTarget
  <2>3. CASE j[1] = r /\ k[1] # r
    BY <2>3, <1>3 DEF Clashes
  <2>4. CASE j[1] # r /\ k[1] = r
    BY <2>4, <1>3 DEF Clashes
  <2> QED
    BY <2>1, <2>2, <2>3, <2>4
<1>5. \A j \in Jobs : FinishedMatches(j)'
  BY <1>1, <1>2 DEF RowInv, FinishedMatches
<1>6. \A j \in Jobs : pc'[j[1]] = "new" => ~Stored(j)'
  BY <1>1 DEF RowInv, Stored
<1>7. \A j \in Jobs : Held(j)' => Stored(j)'
  BY <1>1, <1>2 DEF RowInv, Stored
<1> QED
  BY <1>4, <1>5, <1>6, <1>7 DEF RowInv

LEMMA RowInvNext == RowInv /\ [Next]_vars => RowInv'
<1> SUFFICES ASSUME RowInv, [Next]_vars
             PROVE  RowInv'
  OBVIOUS
<1>1. TypeOK'
  BY TypeNext DEF RowInv
<1>2. Ordinary => RowInv'
  BY <1>1, OrdinaryKeepsRowInv
<1>3. ASSUME NEW r \in Requests, Post(r)
      PROVE  RowInv'
  <2> USE DEF Answer, Fault, tables, handlers, pool, world, Held, InTodo, Queued, Running, RunBy
  <2>1. CASE PostRejected(r) \/ PostLost(r)
    BY <2>1, <1>2, OrdinaryRows DEF RowInv, TypeOK, PostRejected, PostLost
  <2>2. ASSUME NEW b \in Batches, NEW ok \in SUBSET DOMAIN b, PostConflicts(r, b, ok)
        PROVE  RowInv'
    BY <2>2, <1>2, OrdinaryRows DEF RowInv, TypeOK, PostConflicts
  <2>3. ASSUME NEW b \in Batches, NEW ok \in SUBSET DOMAIN b, PostAdmitted(r, b, ok)
        PROVE  RowInv'
    BY <2>3, <1>1, InsertKeepsRowInv DEF RowInv, TypeOK, PostAdmitted, Jobs
  <2>4. ASSUME NEW b \in Batches, NEW ok \in SUBSET DOMAIN b, PostUnknown(r, b, ok)
        PROVE  RowInv'
    BY <2>4, <1>1, InsertKeepsRowInv DEF RowInv, TypeOK, PostUnknown, Jobs
  <2> QED
    BY <1>3, <2>1, <2>2, <2>3, <2>4 DEF Post
<1>4. CASE UNCHANGED vars
  BY <1>4, <1>2, OrdinaryRows
     DEF RowInv, vars, tables, handlers, pool, world, Held, InTodo, Queued, Running, RunBy
<1> QED
  BY <1>2, <1>3, <1>4, OrdinaryHandle, OrdinaryWork, OrdinaryProcess DEF Next

\* uq_scan_jobs_active_target's promise holds of the whole program, for every
\* number of requests, threads, crashes and lost commits, and even when the
\* executor raises after it has queued: no update brings a second job of a
\* target back to pending or running.
THEOREM TargetsHaveOneActiveJob == Spec => []OneActivePerTarget
<1>1. RowInv => OneActivePerTarget
  BY DEF RowInv
<1> QED
  BY <1>1, RowInvInit, RowInvNext, PTL DEF Spec

------------------------------------------------------------------------------
(* Exclusive scans.  A thread that scans holds a running row because a job   *)
(* is in one place only (submit loop, queue or one thread) and each place    *)
(* knows the status.  This needs an executor that queues a job or raises,    *)
(* and not both: with LateRaises the submit loop fails a job that a thread   *)
(* is about to run.                                                          *)

OnePlace ==
    /\ \A k, l \in 1..Len(queue) : queue[k] = queue[l] => k = l
    /\ \A j \in Jobs : InTodo(j) => ~Queued(j) /\ ~Running(j)
    /\ \A j \in Jobs : Queued(j) => ~Running(j)
    /\ \A v, w \in Workers :
          v # w /\ wpc[v] # "idle" /\ wpc[w] # "idle" => wjob[v] # wjob[w]

StatusFits ==
    /\ \A j \in Jobs : InTodo(j) \/ Queued(j) => rows[j].status = "pending"
    /\ \A w \in Workers :
          /\ wpc[w] \in {"lookup", "starting"} => rows[wjob[w]].status = "pending"
          /\ wpc[w] = "scanning" => rows[wjob[w]].status = "running"

DownHoldsNothing == ~up => \A j \in Jobs : ~Held(j)

PlaceInv == RowInv /\ OnePlace /\ StatusFits /\ DownHoldsNothing

LEMMA PlaceInvInit == Init => PlaceInv
<1> SUFFICES ASSUME Init PROVE PlaceInv
  OBVIOUS
<1>1. /\ queue = <<>> /\ \A w \in Workers : wpc[w] = "idle"
      /\ \A j \in Jobs : ~InTodo(j)
      /\ up = TRUE
  BY DEF Init, InTodo, Jobs
<1> QED
  BY <1>1, RowInvInit DEF PlaceInv, OnePlace, StatusFits, DownHoldsNothing, Queued, Running, RunBy

\* A step that leaves the rows and keeps jobs where they are, or drops them.
Quiet ==
    /\ rows' = rows /\ queue' = queue /\ up' = up
    /\ \A j \in Jobs : InTodo(j)' => InTodo(j)
    /\ \A w \in Workers :
          /\ wpc'[w] # "idle" => wpc[w] # "idle" /\ wjob'[w] = wjob[w]
          /\ wpc'[w] = "lookup" => wpc[w] = "lookup"
          /\ wpc'[w] = "starting" => wpc[w] \in {"lookup", "starting"}
          /\ wpc'[w] = "scanning" => wpc[w] = "scanning"

LEMMA QuietKeepsPlaces ==
  ASSUME PlaceInv, Quiet, RowInv'
  PROVE  PlaceInv'
<1> USE DEF Quiet, Queued, Running, RunBy
<1>1. OnePlace'
  BY DEF PlaceInv, OnePlace
<1>2. StatusFits'
  BY DEF PlaceInv, StatusFits
<1>3. DownHoldsNothing'
  BY DEF PlaceInv, DownHoldsNothing, Held
<1> QED
  BY <1>1, <1>2, <1>3 DEF PlaceInv

\* A thread's step that may rewrite the row of its own job and nothing else.
OwnRow(w) ==
    /\ wpc[w] # "idle"
    /\ queue' = queue /\ todo' = todo /\ up' = up
    /\ \A j \in Jobs : j # wjob[w] => rows'[j] = rows[j]
    /\ \A v \in Workers : v # w => wpc'[v] = wpc[v] /\ wjob'[v] = wjob[v]
    /\ wpc'[w] # "idle" => wjob'[w] = wjob[w]
    /\ \/ wpc'[w] \in {"idle", "failing", "cleanup"}
       \/ wpc'[w] = "scanning" /\ rows'[wjob[w]].status = "running"

LEMMA OwnRowKeepsPlaces ==
  ASSUME PlaceInv, NEW w \in Workers, OwnRow(w), RowInv'
  PROVE  PlaceInv'
<1> USE DEF OwnRow, Queued, Running, RunBy, InTodo
<1>0. \A v \in Workers : wpc[v] # "idle" => wjob[v] \in Jobs
  BY DEF PlaceInv, RowInv, TypeOK
<1>1. OnePlace'
  BY <1>0 DEF PlaceInv, OnePlace
<1>2. StatusFits'
  BY <1>0 DEF PlaceInv, StatusFits, OnePlace
<1>3. DownHoldsNothing'
  BY <1>0 DEF PlaceInv, DownHoldsNothing, Held
<1> QED
  BY <1>1, <1>2, <1>3 DEF PlaceInv

LEMMA PlacesWork ==
  ASSUME PlaceInv, RowInv', NEW w \in Workers, Work(w)
  PROVE  PlaceInv'
<1> USE DEF Fault, Fails, Leaves, ForgetScan, tables, handlers, pool, world
<1>0. TypeOK
  BY DEF PlaceInv, RowInv
<1>1. CASE Dequeue(w)
  <2> USE DEF Dequeue, Queued, Running, RunBy, InTodo
  <2>1. /\ queue \in Seq(Jobs) /\ queue # <<>>
        /\ Head(queue) \in Jobs /\ Queued(Head(queue))
        /\ \A k \in 1..Len(queue') : k + 1 \in 1..Len(queue) /\ queue'[k] = queue[k + 1]
        /\ \A k \in 1..Len(queue') : queue'[k] # Head(queue)
    BY <1>0, <1>1 DEF TypeOK, PlaceInv, OnePlace
  <2>2. \A j \in Jobs : Queued(j)' => Queued(j) /\ j # Head(queue)
    BY <2>1
  <2>3. /\ wpc[w] = "idle" /\ wjob'[w] = Head(queue) /\ wpc'[w] \in {"lookup", "starting"}
        /\ \A v \in Workers : v # w => wpc'[v] = wpc[v] /\ wjob'[v] = wjob[v]
        /\ rows' = rows /\ todo' = todo /\ up' = up
    BY <1>0, <1>1 DEF TypeOK
  <2>4. ~Running(Head(queue)) /\ ~InTodo(Head(queue))
    BY <2>1 DEF PlaceInv, OnePlace
  <2>5. OnePlace'
    <3>1. \A k, l \in 1..Len(queue') : queue'[k] = queue'[l] => k = l
      BY <2>1 DEF PlaceInv, OnePlace
    <3>2. \A j \in Jobs : Running(j)' => Running(j) \/ j = Head(queue)
      BY <2>3
    <3>3. \A v, x \in Workers :
             v # x /\ wpc'[v] # "idle" /\ wpc'[x] # "idle" => wjob'[v] # wjob'[x]
      BY <2>3, <2>4 DEF PlaceInv, OnePlace
    <3> QED
      BY <2>2, <2>3, <2>4, <3>1, <3>2, <3>3 DEF PlaceInv, OnePlace
  <2>6. StatusFits'
    BY <2>1, <2>2, <2>3 DEF PlaceInv, StatusFits
  <2>7. DownHoldsNothing'
    BY <2>1, <2>3 DEF PlaceInv, DownHoldsNothing, Held
  <2> QED
    BY <2>5, <2>6, <2>7 DEF PlaceInv
<1>2. CASE LookupTarget(w) \/ LookupMisses(w) \/ StartRefused(w) \/ StartLost(w)
           \/ ScanRaises(w) \/ FailJobLost(w) \/ Cleanup(w)
  <2>1. Quiet
    BY <1>0, <1>2 DEF TypeOK, Quiet, LookupTarget, LookupMisses, StartRefused, StartLost,
                      ScanRaises, FailJobLost, Cleanup, InTodo
  <2> QED
    BY <2>1, QuietKeepsPlaces
<1>3. ASSUME NEW u \in Units, PersistRefused(w, u)
      PROVE  PlaceInv'
  <2>1. Quiet
    BY <1>0, <1>3 DEF TypeOK, Quiet, PersistRefused, InTodo
  <2> QED
    BY <2>1, QuietKeepsPlaces
<1>4. wpc[w] # "idle" => wjob[w] \in Jobs /\ rows[wjob[w]] \in Row
  BY <1>0 DEF TypeOK
<1>5. CASE StartJob(w)
  <2>1. OwnRow(w)
    BY <1>0, <1>4, <1>5 DEF TypeOK, OwnRow, StartJob, StartedRow, Row
  <2> QED
    BY <2>1, OwnRowKeepsPlaces
<1>6. ASSUME NEW u \in Units, NEW pii \in BOOLEAN, NEW warning \in BOOLEAN,
             PersistResult(w, u, pii, warning)
      PROVE  PlaceInv'
  <2>1. rows[wjob[w]].status = "running"
    BY <1>6 DEF PersistResult, PlaceInv, StatusFits
  <2>2. OwnRow(w)
    BY <1>0, <1>4, <1>6, <2>1 DEF TypeOK, OwnRow, PersistResult, PersistedRow, Row
  <2> QED
    BY <2>2, OwnRowKeepsPlaces
<1>7. ASSUME NEW partial \in BOOLEAN, NEW exposed \in BOOLEAN,
             FinishJob(w, partial, exposed) \/ FinishUnknown(w, partial, exposed)
      PROVE  PlaceInv'
  <2>1. OwnRow(w)
    BY <1>0, <1>4, <1>7 DEF TypeOK, OwnRow, FinishJob, FinishUnknown
  <2> QED
    BY <2>1, OwnRowKeepsPlaces
<1>8. CASE FailJob(w)
  <2>1. OwnRow(w)
    BY <1>0, <1>4, <1>8 DEF TypeOK, OwnRow, FailJob
  <2> QED
    BY <2>1, OwnRowKeepsPlaces
<1> QED
  BY <1>1, <1>2, <1>3, <1>5, <1>6, <1>7, <1>8 DEF Work

LEMMA PlacesHandle ==
  ASSUME ~LateRaises, PlaceInv, RowInv', NEW r \in Requests, Handle(r)
  PROVE  PlaceInv'
<1> USE DEF Answer, Fault, tables, handlers, pool, world
<1>0. TypeOK
  BY DEF PlaceInv, RowInv
<1>1. CASE Respond(r) \/ RespondLost(r) \/ SubmitFailureLost(r)
  <2>1. Quiet
    BY <1>0, <1>1 DEF TypeOK, Quiet, Respond, RespondLost, SubmitFailureLost, InTodo, Jobs
  <2> QED
    BY <2>1, QuietKeepsPlaces
<1>2. ASSUME NEW i \in 1..MaxBatch,
             RegisterTarget(r, i) \/ SubmitRaises(r, i) \/ Unregister(r, i)
      PROVE  PlaceInv'
  <2>1. Quiet
    BY <1>0, <1>2 DEF TypeOK, Quiet, RegisterTarget, SubmitRaises, Unregister, InTodo
  <2> QED
    BY <2>1, QuietKeepsPlaces
<1>3. ASSUME NEW i \in 1..MaxBatch, ExecutorSubmit(r, i)
      PROVE  PlaceInv'
  <2> DEFINE m == <<r, i>>
  <2> USE DEF Queued, Running, RunBy
  <2>1. m \in Jobs /\ InTodo(m) /\ ~Queued(m) /\ ~Running(m)
    BY <1>3 DEF ExecutorSubmit, AtSubmit, IsNext, InTodo, Jobs, PlaceInv, OnePlace
  <2>2. /\ queue' = Append(queue, m) /\ queue \in Seq(Jobs)
        /\ rows' = rows /\ wpc' = wpc /\ wjob' = wjob /\ up' = up
    BY <1>0, <1>3 DEF TypeOK, ExecutorSubmit
  <2>3. \A j \in Jobs : InTodo(j)' <=> InTodo(j) /\ j # m
    BY <1>0, <1>3 DEF TypeOK, ExecutorSubmit, InTodo, Jobs
  <2>4. \A j \in Jobs : Queued(j)' <=> Queued(j) \/ j = m
    BY <2>1, <2>2
  <2>5. \A k, l \in 1..Len(queue') : queue'[k] = queue'[l] => k = l
    BY <2>1, <2>2 DEF PlaceInv, OnePlace
  <2>6. OnePlace'
    <3> HIDE DEF Queued
    <3>1. \A j \in Jobs : Running(j)' <=> Running(j)
      BY <2>2
    <3> HIDE DEF Running, RunBy
    <3> QED
      BY <2>1, <2>2, <2>3, <2>4, <2>5, <3>1 DEF PlaceInv, OnePlace
  <2>7. StatusFits'
    BY <2>1, <2>2, <2>3, <2>4 DEF PlaceInv, StatusFits
  <2>8. DownHoldsNothing'
    BY <2>1, <2>2, <2>3, <2>4 DEF PlaceInv, DownHoldsNothing, Held
  <2> QED
    BY <2>6, <2>7, <2>8 DEF PlaceInv
<1>4. ASSUME NEW i \in 1..MaxBatch, RecordSubmitFailure(r, i)
      PROVE  PlaceInv'
  <2> DEFINE m == <<r, i>>
  <2> USE DEF Queued, Running, RunBy
  <2>1. m \in Jobs /\ InTodo(m) /\ ~Queued(m) /\ ~Running(m)
    BY <1>4 DEF RecordSubmitFailure, IsNext, InTodo, Jobs, PlaceInv, OnePlace
  <2>2. /\ \A j \in Jobs : j # m => rows'[j] = rows[j]
        /\ queue' = queue /\ wpc' = wpc /\ wjob' = wjob /\ up' = up
    BY <1>0, <1>4 DEF TypeOK, RecordSubmitFailure
  <2>3. \A j \in Jobs : InTodo(j)' <=> InTodo(j) /\ j # m
    BY <1>0, <1>4 DEF TypeOK, RecordSubmitFailure, InTodo, Jobs
  <2>4. \A w \in Workers : wpc[w] # "idle" => wjob[w] \in Jobs /\ wjob[w] # m
    BY <1>0, <2>1 DEF TypeOK
  <2>5. OnePlace'
    BY <2>2, <2>3 DEF PlaceInv, OnePlace
  <2>6. StatusFits'
    BY <2>1, <2>2, <2>3, <2>4 DEF PlaceInv, StatusFits
  <2>7. DownHoldsNothing'
    BY <2>2, <2>3 DEF PlaceInv, DownHoldsNothing, Held
  <2> QED
    BY <2>5, <2>6, <2>7 DEF PlaceInv
<1>5. ASSUME NEW i \in 1..MaxBatch, SubmitRaisesLate(r, i)
      PROVE  FALSE
  BY <1>5 DEF SubmitRaisesLate
<1>6. ASSUME NEW i \in 1..MaxBatch, SubmitFailureUnknown(r, i)
      PROVE  PlaceInv'
  <2> DEFINE m == <<r, i>>
  <2> USE DEF Queued, Running, RunBy
  <2>1. m \in Jobs /\ InTodo(m) /\ ~Queued(m) /\ ~Running(m)
    BY <1>6 DEF SubmitFailureUnknown, IsNext, InTodo, Jobs, PlaceInv, OnePlace
  <2>2. /\ \A j \in Jobs : j # m => rows'[j] = rows[j]
        /\ queue' = queue /\ wpc' = wpc /\ wjob' = wjob /\ up' = up
    BY <1>0, <1>6 DEF TypeOK, SubmitFailureUnknown
  <2>3. \A j \in Jobs : InTodo(j)' => InTodo(j) /\ j # m
    BY <1>0, <1>6 DEF TypeOK, SubmitFailureUnknown, InTodo, Jobs
  <2>4. \A w \in Workers : wpc[w] # "idle" => wjob[w] \in Jobs /\ wjob[w] # m
    BY <1>0, <2>1 DEF TypeOK
  <2>5. OnePlace'
    BY <2>2, <2>3 DEF PlaceInv, OnePlace
  <2>6. StatusFits'
    BY <2>1, <2>2, <2>3, <2>4 DEF PlaceInv, StatusFits
  <2>7. DownHoldsNothing'
    BY <2>2, <2>3 DEF PlaceInv, DownHoldsNothing, Held
  <2> QED
    BY <2>5, <2>6, <2>7 DEF PlaceInv
<1> QED
  BY <1>1, <1>2, <1>3, <1>4, <1>5, <1>6 DEF Handle

LEMMA PlacesProcess ==
  ASSUME PlaceInv, RowInv', Crash \/ FailOrphanedJobs
  PROVE  PlaceInv'
<1> USE DEF tables, handlers, pool, world, Queued, Running, RunBy
<1>1. CASE Crash
  <2>1. /\ queue' = <<>> /\ \A w \in Workers : wpc'[w] = "idle"
        /\ \A j \in Jobs : ~InTodo(j)'
    BY <1>1 DEF Crash, InTodo, Jobs
  <2> QED
    BY <2>1 DEF PlaceInv, OnePlace, StatusFits, DownHoldsNothing, Held
<1>2. CASE FailOrphanedJobs
  <2>1. /\ queue' = queue /\ wpc' = wpc /\ wjob' = wjob /\ todo' = todo /\ up'
    BY <1>2 DEF FailOrphanedJobs
  <2>2. \A j \in Jobs : ~Held(j)
    BY <1>2 DEF FailOrphanedJobs, PlaceInv, DownHoldsNothing
  <2>3. OnePlace'
    BY <2>1 DEF PlaceInv, OnePlace, InTodo
  <2>4. StatusFits'
    <3>1. \A j \in Jobs : ~InTodo(j)' /\ ~Queued(j)'
      BY <2>1, <2>2 DEF Held, InTodo
    <3>2. \A w \in Workers : wpc[w] # "idle" => wjob[w] \in Jobs /\ Held(wjob[w])
      BY DEF Held, PlaceInv, RowInv, TypeOK
    <3> QED
      BY <2>1, <2>2, <3>1, <3>2 DEF StatusFits
  <2> QED
    BY <2>1, <2>3, <2>4 DEF PlaceInv, DownHoldsNothing
<1> QED
  BY <1>1, <1>2

LEMMA PlacesInsert ==
  ASSUME PlaceInv, RowInv',
         NEW r \in Requests, NEW b \in Batches, NEW ok \in SUBSET DOMAIN b,
         up, pc[r] = "new", Insert(r, b, ok),
         queue' = queue, wpc' = wpc, wjob' = wjob, up' = up,
         \A j \in Jobs : InTodo(j)' => InTodo(j) \/ (j[1] = r /\ j[2] \in ok)
  PROVE  PlaceInv'
<1> USE DEF Queued, Running, RunBy
<1>1. \A j \in Jobs : Held(j) => j[1] # r
  BY DEF PlaceInv, RowInv
<1>2. ASSUME NEW j \in Jobs
      PROVE  /\ j[1] # r => rows'[j] = rows[j]
             /\ j[1] = r /\ j[2] \in ok => rows'[j] = NewRow(TRUE)
  BY DEF Insert
<1>3. NewRow(TRUE).status = "pending"
  BY DEF NewRow, NoRow
<1>4. OnePlace'
  BY <1>1 DEF PlaceInv, OnePlace, Held
<1>5. StatusFits'
  <2>1. \A j \in Jobs : InTodo(j)' \/ Queued(j)' => rows'[j].status = "pending"
    BY <1>1, <1>2, <1>3 DEF PlaceInv, StatusFits, Held
  <2>2. \A w \in Workers : wpc[w] # "idle" => wjob[w] \in Jobs /\ rows'[wjob[w]] = rows[wjob[w]]
    BY <1>1, <1>2 DEF Held, PlaceInv, RowInv, TypeOK
  <2> QED
    BY <2>1, <2>2 DEF PlaceInv, StatusFits
<1>6. DownHoldsNothing'
  BY DEF DownHoldsNothing
<1> QED
  BY <1>4, <1>5, <1>6 DEF PlaceInv

LEMMA PlacesPost ==
  ASSUME PlaceInv, RowInv', NEW r \in Requests, Post(r)
  PROVE  PlaceInv'
<1> USE DEF Answer, Fault, tables, handlers, pool, world
<1>0. TypeOK
  BY DEF PlaceInv, RowInv
<1>1. CASE PostRejected(r) \/ PostLost(r)
  <2>1. Quiet
    BY <1>1 DEF Quiet, PostRejected, PostLost, InTodo
  <2> QED
    BY <2>1, QuietKeepsPlaces
<1>2. ASSUME NEW b \in Batches, NEW ok \in SUBSET DOMAIN b, PostConflicts(r, b, ok)
      PROVE  PlaceInv'
  <2>1. Quiet
    BY <1>2 DEF Quiet, PostConflicts, InTodo
  <2> QED
    BY <2>1, QuietKeepsPlaces
<1>3. ASSUME NEW b \in Batches, NEW ok \in SUBSET DOMAIN b,
             PostAdmitted(r, b, ok) \/ PostUnknown(r, b, ok)
      PROVE  PlaceInv'
  BY <1>0, <1>3, PlacesInsert DEF TypeOK, PostAdmitted, PostUnknown, InTodo, Jobs
<1> QED
  BY <1>1, <1>2, <1>3 DEF Post

LEMMA PlaceInvNext == ASSUME ~LateRaises PROVE PlaceInv /\ [Next]_vars => PlaceInv'
<1> SUFFICES ASSUME PlaceInv, [Next]_vars
             PROVE  PlaceInv'
  OBVIOUS
<1>1. RowInv'
  BY RowInvNext DEF PlaceInv
<1>2. CASE UNCHANGED vars
  <2>1. Quiet
    BY <1>2 DEF Quiet, vars, tables, handlers, pool, world, InTodo
  <2> QED
    BY <1>1, <2>1, QuietKeepsPlaces
<1> QED
  BY <1>1, <1>2, PlacesPost, PlacesHandle, PlacesWork, PlacesProcess DEF Next

LEMMA PlacesExclude == PlaceInv => ExclusiveScan
<1> SUFFICES ASSUME PlaceInv, NEW v \in Workers, NEW w \in Workers, v # w,
                    wpc[v] = "scanning", wpc[w] = "scanning"
             PROVE  TargetOf(wjob[v]) # TargetOf(wjob[w])
  BY DEF ExclusiveScan
<1>1. wjob[v] \in Jobs /\ wjob[w] \in Jobs /\ wjob[v] # wjob[w]
  BY DEF PlaceInv, RowInv, TypeOK, OnePlace
<1>2. ActiveJob(wjob[v]) /\ ActiveJob(wjob[w])
  BY DEF PlaceInv, StatusFits, ActiveJob, Active
<1> QED
  BY <1>1, <1>2 DEF PlaceInv, RowInv, OneActivePerTarget

\* Two threads never scan one target at once, however requests, crashes and lost
\* or unknown commits interleave, provided that _EXECUTOR.submit never raises
\* after it has queued (run late_exclusive shows the proviso is needed).
THEOREM ScansAreExclusive == ASSUME ~LateRaises PROVE Spec => []ExclusiveScan
  BY PlaceInvInit, PlaceInvNext, PlacesExclude, PTL DEF Spec
==============================================================================
