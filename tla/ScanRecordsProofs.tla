-------------------------- MODULE ScanRecordsProofs --------------------------
(***************************************************************************)
(* More proofs about ScanLifecycle: what is written to the rows, when, and *)
(* that it fits the constraints, the inventory and the earlier statuses.   *)
(***************************************************************************)
EXTENDS ScanLifecycleProofs, FiniteSetTheorems

------------------------------------------------------------------------------
(* What may happen to a row.                                                 *)

\* A thread that is about to write a failure has an active row, unless a commit
\* that raised was applied.
FailingFits ==
    \A w \in Workers : wpc[w] = "failing" => UnknownCommits \/ ActiveJob(wjob[w])

LifeInv == PlaceInv /\ FailingFits

Changes(j) ==
    \/ rows'[j] = rows[j]
    \/ ~Stored(j) /\ \E ok \in BOOLEAN : rows'[j] = NewRow(ok)
    \/ rows[j].status = "pending" /\ rows'[j] = StartedRow(rows[j])
    \/ rows[j].status = "running" /\ \E pii \in BOOLEAN : rows'[j] = PersistedRow(rows[j], pii)
    \/ /\ rows[j].status = "running"
       /\ \E partial, warnings \in BOOLEAN : rows'[j] = FinishedRow(rows[j], partial, warnings)
    \/ /\ Stored(j) /\ (UnknownCommits \/ ActiveJob(j))
       /\ rows'[j] = FailedRow(rows[j])

LEMMA WorkChanges ==
    ASSUME LifeInv, NEW w \in Workers, Work(w), NEW j \in Jobs
    PROVE  Changes(j)
<1> USE DEF Fault, Fails, Leaves, ForgetScan, tables
<1>0. /\ rows \in [Jobs -> Row] /\ (wpc[w] # "idle" => wjob[w] \in Jobs /\ Stored(wjob[w]))
      /\ StatusFits
  BY DEF LifeInv, PlaceInv, RowInv, TypeOK, Held, Running, RunBy
<1>1. CASE \/ Dequeue(w) \/ LookupTarget(w) \/ LookupMisses(w) \/ StartRefused(w) \/ StartLost(w)
           \/ \E u \in Units : PersistRefused(w, u)
           \/ ScanRaises(w) \/ FailJobLost(w) \/ Cleanup(w)
  BY <1>1 DEF Changes, Dequeue, LookupTarget, LookupMisses, StartRefused, StartLost, PersistRefused,
              ScanRaises, FailJobLost, Cleanup
<1>2. CASE StartJob(w)
  BY <1>0, <1>2 DEF Changes, StartJob, StatusFits
<1>3. ASSUME NEW u \in Units, NEW pii \in BOOLEAN, NEW warning \in BOOLEAN,
             PersistResult(w, u, pii, warning)
      PROVE  Changes(j)
  BY <1>0, <1>3 DEF Changes, PersistResult, StatusFits
<1>4. ASSUME NEW partial \in BOOLEAN, NEW exposed \in BOOLEAN,
             FinishJob(w, partial, exposed) \/ FinishUnknown(w, partial, exposed)
      PROVE  Changes(j)
  <2>1. rows' = [rows EXCEPT ![wjob[w]] = FinishedRow(@, partial, partial \/ exposed)]
    BY <1>4 DEF FinishJob, FinishUnknown
  <2>2. wpc[w] = "scanning" /\ (partial \/ exposed) \in BOOLEAN
    BY <1>4 DEF FinishJob, FinishUnknown
  <2> QED
    BY <1>0, <2>1, <2>2 DEF Changes, StatusFits
<1>5. CASE FailJob(w)
  BY <1>0, <1>5 DEF Changes, FailJob, LifeInv, FailingFits
<1> QED
  BY <1>1, <1>2, <1>3, <1>4, <1>5 DEF Work

\* Every step of the lifecycle makes of a row one of these changes.
LEMMA RowChanges ==
    ASSUME LifeInv, [Next]_vars, NEW j \in Jobs
    PROVE  Changes(j)
<1>0. /\ rows \in [Jobs -> Row] /\ j[1] \in Requests
      /\ StatusFits /\ (pc[j[1]] = "new" => ~Stored(j))
  BY DEF LifeInv, PlaceInv, RowInv, TypeOK, Jobs
<1>1. CASE UNCHANGED vars
  BY <1>1 DEF vars, tables, Changes
<1>2. ASSUME NEW r \in Requests, Handle(r) PROVE Changes(j)
  <2>1. ASSUME NEW i \in 1..MaxBatch, RecordSubmitFailure(r, i) \/ SubmitFailureUnknown(r, i)
        PROVE  Changes(j)
    <3>1. <<r, i>> \in Jobs /\ InTodo(<<r, i>>)
      BY <2>1 DEF RecordSubmitFailure, SubmitFailureUnknown, IsNext, InTodo, Jobs
    <3>2. ActiveJob(<<r, i>>)
      BY <1>0, <3>1 DEF StatusFits, ActiveJob, Active
    <3> QED
      BY <1>0, <2>1, <3>1, <3>2 DEF Changes, RecordSubmitFailure, SubmitFailureUnknown, Stored, ActiveJob,
                                     Active
  <2> QED
    BY <1>2, <2>1 DEF Handle, Respond, RespondLost, SubmitFailureLost, RegisterTarget, ExecutorSubmit,
       SubmitRaises, SubmitRaisesLate, Unregister, tables, Changes
<1>3. ASSUME NEW r \in Requests, Post(r) PROVE Changes(j)
  <2>1. ASSUME NEW b \in Batches, NEW ok \in SUBSET DOMAIN b,
               PostAdmitted(r, b, ok) \/ PostUnknown(r, b, ok)
        PROVE  Changes(j)
    <3>1. /\ pc[r] = "new"
          /\ rows' = [k \in Jobs |-> IF k[1] = r /\ k[2] \in DOMAIN b
                                     THEN NewRow(k[2] \in ok) ELSE rows[k]]
      BY <2>1 DEF PostAdmitted, PostUnknown, Insert
    <3>2. rows'[j] = rows[j] \/ (j[1] = r /\ rows'[j] = NewRow(j[2] \in ok))
      BY <3>1
    <3>3. (j[2] \in ok) \in BOOLEAN
      OBVIOUS
    <3> QED
      BY <1>0, <3>1, <3>2, <3>3 DEF Changes
  <2> QED
    BY <1>3, <2>1 DEF Post, PostRejected, PostLost, PostConflicts, tables, Changes
<1>4. CASE Crash \/ FailOrphanedJobs
  BY <1>0, <1>4 DEF Crash, FailOrphanedJobs, tables, Changes, Stored, ActiveJob, Active
<1> QED
  BY <1>1, <1>2, <1>3, <1>4, WorkChanges DEF Next

\* While a thread has a job, nobody else touches its row.
LEMMA OthersKeepOff ==
    ASSUME LifeInv, NEW w \in Workers, wpc[w] # "idle",
           \/ \E r \in Requests : Post(r) \/ Handle(r)
           \/ \E v \in Workers : v # w /\ Work(v)
           \/ FailOrphanedJobs \/ UNCHANGED vars
    PROVE  wpc'[w] = wpc[w] /\ wjob'[w] = wjob[w] /\ rows'[wjob[w]] = rows[wjob[w]]
<1> USE DEF Fault, Fails, Leaves, ForgetScan, tables, pool, handlers
<1>0. /\ TypeOK /\ wjob[w] \in Jobs /\ Running(wjob[w]) /\ Stored(wjob[w]) /\ OnePlace
      /\ rows \in [Jobs -> Row] /\ up
      /\ pc[wjob[w][1]] # "new"
  BY DEF LifeInv, PlaceInv, RowInv, TypeOK, Held, Running, RunBy, DownHoldsNothing, Jobs
<1>1. CASE UNCHANGED vars
  BY <1>1 DEF vars
<1>2. ASSUME NEW r \in Requests, Handle(r)
      PROVE  wpc'[w] = wpc[w] /\ wjob'[w] = wjob[w] /\ rows'[wjob[w]] = rows[wjob[w]]
  <2>1. ASSUME NEW i \in 1..MaxBatch, RecordSubmitFailure(r, i) \/ SubmitFailureUnknown(r, i)
        PROVE  wpc'[w] = wpc[w] /\ wjob'[w] = wjob[w] /\ rows'[wjob[w]] = rows[wjob[w]]
    <3>1. <<r, i>> \in Jobs /\ InTodo(<<r, i>>)
      BY <2>1 DEF RecordSubmitFailure, SubmitFailureUnknown, IsNext, InTodo, Jobs
    <3>2. <<r, i>> # wjob[w]
      BY <1>0, <3>1 DEF OnePlace
    <3> QED
      BY <1>0, <2>1, <3>1, <3>2 DEF RecordSubmitFailure, SubmitFailureUnknown
  <2> QED
    BY <1>2, <2>1 DEF Handle, Respond, RespondLost, SubmitFailureLost, RegisterTarget, ExecutorSubmit,
       SubmitRaises, SubmitRaisesLate, Unregister
<1>3. ASSUME NEW r \in Requests, Post(r)
      PROVE  wpc'[w] = wpc[w] /\ wjob'[w] = wjob[w] /\ rows'[wjob[w]] = rows[wjob[w]]
  <2>1. ASSUME NEW b \in Batches, NEW ok \in SUBSET DOMAIN b,
               PostAdmitted(r, b, ok) \/ PostUnknown(r, b, ok)
        PROVE  wpc'[w] = wpc[w] /\ wjob'[w] = wjob[w] /\ rows'[wjob[w]] = rows[wjob[w]]
    BY <1>0, <2>1 DEF PostAdmitted, PostUnknown, Insert
  <2> QED
    BY <1>3, <2>1 DEF Post, PostRejected, PostLost, PostConflicts
<1>4. CASE FailOrphanedJobs
  BY <1>0, <1>4 DEF FailOrphanedJobs
<1>5. ASSUME NEW v \in Workers, v # w, Work(v)
      PROVE  wpc'[w] = wpc[w] /\ wjob'[w] = wjob[w] /\ rows'[wjob[w]] = rows[wjob[w]]
  <2>1. wpc'[w] = wpc[w] /\ wjob'[w] = wjob[w]
    BY <1>0, <1>5 DEF TypeOK, Work, Dequeue, LookupTarget, LookupMisses, StartJob, StartRefused,
       StartLost, PersistResult, PersistRefused, ScanRaises, FinishJob, FinishUnknown, FailJob,
       FailJobLost, Cleanup
  <2>2. rows' = rows \/ (wpc[v] # "idle" /\ \A j \in Jobs : j # wjob[v] => rows'[j] = rows[j])
    BY <1>0, <1>5 DEF TypeOK, Work, Dequeue, LookupTarget, LookupMisses, StartJob, StartRefused,
       StartLost, PersistResult, PersistRefused, ScanRaises, FinishJob, FinishUnknown, FailJob,
       FailJobLost, Cleanup
  <2> QED
    BY <1>0, <1>5, <2>1, <2>2 DEF OnePlace
<1> QED
  BY <1>1, <1>2, <1>3, <1>4, <1>5

LEMMA LifeInvNext == ASSUME ~LateRaises PROVE LifeInv /\ [Next]_vars => LifeInv'
<1> SUFFICES ASSUME LifeInv, [Next]_vars PROVE LifeInv'
  OBVIOUS
<1>1. PlaceInv'
  BY PlaceInvNext DEF LifeInv
<1>2. ASSUME NEW w \in Workers, wpc'[w] = "failing"
      PROVE  UnknownCommits' \/ ActiveJob(wjob[w])'
  <2>0. /\ TypeOK /\ StatusFits /\ (wpc[w] = "failing" => UnknownCommits \/ ActiveJob(wjob[w]))
    BY DEF LifeInv, PlaceInv, RowInv, FailingFits
  <2>1. CASE Work(w)
    <3>1. CASE StartRefused(w) \/ StartLost(w) \/ ScanRaises(w) \/ \E u \in Units : PersistRefused(w, u)
      <4>1. wpc[w] \in {"starting", "scanning"} /\ rows' = rows /\ wjob' = wjob
        BY <3>1 DEF StartRefused, StartLost, ScanRaises, PersistRefused, tables
      <4> QED
        BY <2>0, <4>1 DEF StatusFits, ActiveJob, Active
    <3>2. CASE \E partial, exposed \in BOOLEAN : FinishUnknown(w, partial, exposed)
      BY <3>2 DEF FinishUnknown
    <3>3. CASE \/ Dequeue(w) \/ LookupTarget(w) \/ LookupMisses(w) \/ StartJob(w)
               \/ \E partial, exposed \in BOOLEAN : FinishJob(w, partial, exposed)
               \/ FailJob(w) \/ FailJobLost(w) \/ Cleanup(w)
               \/ \E u \in Units, pii, warning \in BOOLEAN : PersistResult(w, u, pii, warning)
      BY <1>2, <2>0, <3>3 DEF TypeOK, Dequeue, LookupTarget, LookupMisses, StartJob, FinishJob,
            FailJob, FailJobLost, Cleanup, PersistResult, Leaves
    <3> QED
      BY <2>1, <3>1, <3>2, <3>3 DEF Work
  <2>2. CASE Crash
    BY <1>2, <2>2 DEF Crash
  <2>3. CASE \/ \E r \in Requests : Post(r) \/ Handle(r)
             \/ \E v \in Workers : v # w /\ Work(v)
             \/ FailOrphanedJobs \/ UNCHANGED vars
    <3>1. wpc[w] # "idle"
      <4>1. ASSUME NEW v \in Workers, v # w, Work(v) PROVE wpc'[w] = wpc[w]
        BY <2>0, <4>1 DEF TypeOK, Work, Dequeue, LookupTarget, LookupMisses, StartJob, StartRefused,
           StartLost, PersistResult, PersistRefused, ScanRaises, FinishJob, FinishUnknown, FailJob,
           FailJobLost, Cleanup, Fails, Leaves
      <4>2. ASSUME NEW r \in Requests, Handle(r) PROVE wpc' = wpc
        BY <4>2 DEF Handle, Respond, RespondLost, SubmitFailureLost, RegisterTarget, ExecutorSubmit,
           SubmitRaises, SubmitRaisesLate, Unregister, RecordSubmitFailure, SubmitFailureUnknown, pool
      <4>3. ASSUME NEW r \in Requests, Post(r) PROVE wpc' = wpc
        BY <4>3 DEF Post, PostRejected, PostLost, PostConflicts, PostAdmitted, PostUnknown, pool
      <4>4. ASSUME FailOrphanedJobs \/ UNCHANGED vars PROVE wpc' = wpc
        BY <4>4 DEF FailOrphanedJobs, vars, pool
      <4> QED
        BY <1>2, <2>3, <4>1, <4>2, <4>3, <4>4
    <3>2. wpc'[w] = wpc[w] /\ wjob'[w] = wjob[w] /\ rows'[wjob[w]] = rows[wjob[w]]
      BY <2>3, <3>1, OthersKeepOff
    <3> QED
      BY <1>2, <2>0, <3>2 DEF ActiveJob
  <2> QED
    BY <2>1, <2>2, <2>3 DEF Next
<1> QED
  BY <1>1, <1>2 DEF LifeInv, FailingFits

LEMMA LifeInvAlways == ASSUME ~LateRaises PROVE Spec => []LifeInv
<1>1. Init => LifeInv
  BY PlaceInvInit DEF LifeInv, FailingFits, Init
<1> QED
  BY <1>1, LifeInvNext, PTL DEF Spec

------------------------------------------------------------------------------
(* The rows satisfy their constraints, and jobs move forward.                *)

\* A row that satisfies its constraints and may still be started, or go on.
RowGood(row) ==
    /\ row.status # "absent" => RowOK(row)
    /\ row.status = "absent" => row = NoRow
    /\ row.status \in Active => ~row.error /\ row.progress <= ProgressCap
    /\ row.status = "pending" => row.progress = 0

RowsGood == \A j \in Jobs : RowGood(rows[j])

LEMMA GoodChanges ==
    ASSUME NEW j \in Jobs, rows[j] \in Row, RowGood(rows[j]), Changes(j)
    PROVE  RowGood(rows'[j])
<1> USE ProgressAssumption DEF RowGood, RowOK, Row, Active, Terminal, Completed
<1>1. CASE rows'[j] = rows[j]
  BY <1>1
<1>2. ASSUME NEW ok \in BOOLEAN, rows'[j] = NewRow(ok) PROVE RowGood(rows'[j])
  BY <1>2 DEF NewRow, NoRow
<1>3. CASE rows[j].status = "pending" /\ rows'[j] = StartedRow(rows[j])
  BY <1>3 DEF StartedRow
<1>4. ASSUME NEW pii \in BOOLEAN, rows[j].status = "running", rows'[j] = PersistedRow(rows[j], pii)
      PROVE  RowGood(rows'[j])
  BY <1>4 DEF PersistedRow, NextProgress
<1>5. ASSUME NEW partial \in BOOLEAN, NEW warnings \in BOOLEAN,
             rows'[j] = FinishedRow(rows[j], partial, warnings)
      PROVE  RowGood(rows'[j])
  BY <1>5 DEF FinishedRow
<1>6. CASE Stored(j) /\ rows'[j] = FailedRow(rows[j])
  BY <1>6 DEF FailedRow, Stored
<1> QED
  BY <1>1, <1>2, <1>3, <1>4, <1>5, <1>6 DEF Changes

RecordInv == LifeInv /\ RowsGood

LEMMA RecordInvAlways == ASSUME ~LateRaises PROVE Spec => []RecordInv
<1>1. Init => RowsGood
  BY ProgressAssumption DEF Init, RowsGood, RowGood, NoRow, Active
<1>2. RecordInv /\ [Next]_vars => RowsGood'
  <2> SUFFICES ASSUME RecordInv, [Next]_vars, NEW j \in Jobs PROVE RowGood(rows'[j])
    BY DEF RowsGood
  <2>1. rows[j] \in Row /\ RowGood(rows[j]) /\ LifeInv
    BY DEF RecordInv, RowsGood, LifeInv, PlaceInv, RowInv, TypeOK
  <2>2. Changes(j)
    BY <2>1, RowChanges
  <2> QED
    BY <2>1, <2>2, GoodChanges
<1> QED
  BY <1>1, <1>2, LifeInvAlways, PTL DEF Spec, RecordInv

\* No commit of a scan is ever refused by a CHECK constraint.
THEOREM ChecksAreRespected == ASSUME ~LateRaises PROVE Spec => []WritesRespectChecks
<1>1. RecordInv => WritesRespectChecks
  <2> SUFFICES ASSUME RecordInv PROVE WritesRespectChecks
    OBVIOUS
  <2>1. \A j \in Jobs : rows[j].status # "absent" => RowOK(rows[j])
    BY DEF RecordInv, RowsGood, RowGood
  <2>2. ASSUME NEW w \in Workers, wpc[w] = "starting" PROVE RowOK(StartedRow(rows[wjob[w]]))
    <3>1. wjob[w] \in Jobs /\ rows[wjob[w]] \in Row /\ rows[wjob[w]].status = "pending"
      BY <2>2 DEF RecordInv, LifeInv, PlaceInv, StatusFits, RowInv, TypeOK
    <3>2. RowGood(rows[wjob[w]])
      BY <3>1 DEF RecordInv, RowsGood
    <3> QED
      BY <3>1, <3>2, ProgressAssumption
      DEF RowGood, RowOK, StartedRow, Row, Active, Terminal, Completed
  <2> QED
    BY <2>1, <2>2 DEF WritesRespectChecks
<1> QED
  BY <1>1, RecordInvAlways, PTL

\* No step moves a job back, unless a commit that raised was applied.
LEMMA StepForward ==
    ASSUME ~UnknownCommits PROVE RecordInv /\ [Next]_vars => \A j \in Jobs : JobForward(j)
<1>1. ASSUME RecordInv, [Next]_vars, NEW j \in Jobs PROVE JobForward(j)
  <2>1. rows[j] \in Row /\ RowGood(rows[j]) /\ Changes(j)
    BY <1>1, RowChanges DEF RecordInv, RowsGood, LifeInv, PlaceInv, RowInv, TypeOK
  <2> USE ProgressAssumption
      DEF JobForward, StatusRank, RowGood, RowOK, Row, Active, Terminal, Completed, Stored, ActiveJob
  <2>2. CASE rows'[j] = rows[j]
    BY <2>1, <2>2
  <2>3. ASSUME NEW ok \in BOOLEAN, ~Stored(j), rows'[j] = NewRow(ok) PROVE JobForward(j)
    BY <2>1, <2>3 DEF NewRow, NoRow
  <2>4. CASE rows[j].status = "pending" /\ rows'[j] = StartedRow(rows[j])
    BY <2>1, <2>4 DEF StartedRow
  <2>5. ASSUME NEW pii \in BOOLEAN, rows[j].status = "running",
               rows'[j] = PersistedRow(rows[j], pii)
        PROVE  JobForward(j)
    BY <2>1, <2>5 DEF PersistedRow, NextProgress
  <2>6. ASSUME NEW partial \in BOOLEAN, NEW warnings \in BOOLEAN, rows[j].status = "running",
               rows'[j] = FinishedRow(rows[j], partial, warnings)
        PROVE  JobForward(j)
    BY <2>1, <2>6 DEF FinishedRow
  <2>7. CASE ActiveJob(j) /\ rows'[j] = FailedRow(rows[j])
    BY <2>1, <2>7 DEF FailedRow
  <2> QED
    BY <2>1, <2>2, <2>3, <2>4, <2>5, <2>6, <2>7 DEF Changes
<1> QED
  BY <1>1

\* A job never moves back, unless a commit that raised was applied.
THEOREM JobsOnlyMoveForward ==
    ASSUME ~LateRaises, ~UnknownCommits PROVE Spec => JobsMoveForward
<1>1. RecordInv /\ [Next]_vars => [\A j \in Jobs : JobForward(j)]_vars
  BY StepForward
<1> QED
  BY <1>1, RecordInvAlways, PTL DEF Spec, JobsMoveForward

\* A batch is stored whole: once it has a job, it keeps its jobs and gets no other.
LEMMA BatchIsFixed ==
    ASSUME LifeInv, [Next]_vars, NEW r \in Requests, JobsOf(r) # {}
    PROVE  JobsOf(r)' = JobsOf(r)
<1>0. RowInv /\ rows \in [Jobs -> Row] /\ pc[r] # "new"
  BY DEF LifeInv, PlaceInv, RowInv, TypeOK, JobsOf, Stored
<1>1. ASSUME \A j \in Jobs : j[1] = r => (Stored(j)' <=> Stored(j)) PROVE JobsOf(r)' = JobsOf(r)
  BY <1>1 DEF JobsOf, Stored
<1>2. CASE Ordinary
  BY <1>1, <1>2 DEF Ordinary
<1>3. ASSUME NEW q \in Requests, Post(q) PROVE JobsOf(r)' = JobsOf(r)
  <2>1. q # r
    BY <1>0, <1>3 DEF Post, PostRejected, PostLost, PostConflicts, PostAdmitted, PostUnknown
  <2>2. \A j \in Jobs : j[1] = r => rows'[j] = rows[j]
    BY <1>3, <2>1 DEF Post, PostRejected, PostLost, PostConflicts, PostAdmitted, PostUnknown, Insert,
                      tables
  <2> QED
    BY <1>1, <2>2 DEF Stored
<1>4. CASE UNCHANGED vars
  BY <1>1, <1>4 DEF vars, tables, Stored
<1> QED
  BY <1>0, <1>2, <1>3, <1>4, OrdinaryHandle, OrdinaryWork, OrdinaryProcess DEF Next

\* What the status endpoint derives from the jobs of a batch never moves back,
\* unless a commit that raised was applied: jobs advance one by one, and a batch
\* that has left pending, or is over, says so for good.
THEOREM BatchesOnlyMoveForward ==
    ASSUME ~LateRaises, ~UnknownCommits PROVE Spec => BatchesMoveForward
<1> DEFINE Statuses(r) == {rows[j].status : j \in JobsOf(r)}
<1>1. ASSUME RecordInv, [Next]_vars, NEW r \in Requests, JobsOf(r) # {} PROVE BatchForward(r)
  <2>1. /\ rows \in [Jobs -> Row] /\ rows' \in [Jobs -> Row]
        /\ \A j \in JobsOf(r) : j \in Jobs /\ rows[j].status # "absent"
    BY <1>1, TypeNext DEF RecordInv, LifeInv, PlaceInv, RowInv, TypeOK, JobsOf
  <2>2. JobsOf(r)' = JobsOf(r)
    BY <1>1, BatchIsFixed DEF RecordInv
  <2>3. \A j \in JobsOf(r) : JobForward(j)
    BY <1>1, <2>1, StepForward
  <2>4. \A j \in JobsOf(r) : /\ rows'[j].status = "pending" => rows[j].status = "pending"
                             /\ rows[j].status \notin Active => rows'[j] = rows[j]
    <3> SUFFICES ASSUME NEW j \in JobsOf(r)
                 PROVE  /\ rows'[j].status = "pending" => rows[j].status = "pending"
                        /\ rows[j].status \notin Active => rows'[j] = rows[j]
      OBVIOUS
    <3>1. rows[j] \in Row /\ rows'[j] \in Row /\ rows[j].status # "absent" /\ JobForward(j)
      BY <2>1, <2>3
    <3> QED
      BY <3>1 DEF JobForward, StatusRank, Row, Active, Terminal, Completed
  <2>5. BatchStatus(r) = "running" => BatchStatus(r)' # "pending"
    <3>1. BatchStatus(r)' = "pending" <=> \A j \in JobsOf(r)' : rows'[j].status = "pending"
      BY DEF BatchStatus
    <3>2. BatchStatus(r) = "pending" <=> \A j \in JobsOf(r) : rows[j].status = "pending"
      BY DEF BatchStatus
    <3> QED
      BY <2>2, <2>4, <3>1, <3>2
  <2>6. ASSUME BatchStatus(r) \notin {"pending", "running"} PROVE BatchStatus(r)' = BatchStatus(r)
    <3>1. Statuses(r) \cap Active = {}
      BY <2>6 DEF BatchStatus
    <3>2. \A j \in JobsOf(r) : rows'[j] = rows[j]
      BY <2>4, <3>1
    <3>3. Statuses(r)' = Statuses(r)
      BY <2>2, <3>2
    <3> QED
      BY <3>3 DEF BatchStatus
  <2> QED
    BY <2>5, <2>6 DEF BatchForward
<1>2. RecordInv /\ [Next]_vars => [\A r \in Requests : JobsOf(r) # {} => BatchForward(r)]_vars
  BY <1>1
<1> QED
  BY <1>2, RecordInvAlways, PTL DEF Spec, BatchesMoveForward

\* A job that failed stays failed, also when commits are applied and raise.
THEOREM FailuresAreFinal == ASSUME ~LateRaises PROVE Spec => FailedIsFinal
<1>1. ASSUME RecordInv, [Next]_vars, NEW j \in Jobs, rows[j].status = "failed"
      PROVE  rows'[j].status = "failed"
  <2>1. Changes(j) /\ rows[j] \in Row
    BY <1>1, RowChanges DEF RecordInv, LifeInv, PlaceInv, RowInv, TypeOK
  <2>2. CASE rows'[j] = rows[j]
    BY <1>1, <2>2
  <2>3. CASE rows'[j] = FailedRow(rows[j])
    BY <2>1, <2>3 DEF FailedRow, Row
  <2> QED
    BY <1>1, <2>1, <2>2, <2>3 DEF Changes, Stored
<1>2. RecordInv /\ [Next]_vars =>
         [\A j \in Jobs : rows[j].status = "failed" => rows'[j].status = "failed"]_vars
  BY <1>1
<1> QED
  BY <1>2, RecordInvAlways, PTL DEF Spec, FailedIsFinal

------------------------------------------------------------------------------
(* The inventory and its total, whatever submit does.                        *)

Counted(j) ==
    /\ IsFiniteSet(inventory[j])
    /\ rows[j].matches = Cardinality(inventory[j])
    /\ ~Stored(j) => inventory[j] = {}

CountInv == \A j \in Jobs : Counted(j)

\* A step that leaves the inventory and the totals alone.
LEMMA CountKept ==
    ASSUME NEW j \in Jobs, Counted(j), inventory'[j] = inventory[j],
           rows'[j].matches = rows[j].matches, Stored(j) => Stored(j)'
    PROVE  Counted(j)'
BY DEF Counted

\* Only a persisted result changes the total.
LEMMA TotalsKept ==
    ASSUME NEW row \in Row
    PROVE  /\ StartedRow(row).matches = row.matches /\ StartedRow(row).status # "absent"
           /\ FailedRow(row).matches = row.matches /\ FailedRow(row).status # "absent"
           /\ \A partial, warnings \in BOOLEAN :
                 /\ FinishedRow(row, partial, warnings).matches = row.matches
                 /\ FinishedRow(row, partial, warnings).status # "absent"
BY DEF StartedRow, FailedRow, FinishedRow, Row

LEMMA CountWork ==
    ASSUME RowInv, CountInv, NEW w \in Workers, Work(w), NEW j \in Jobs
    PROVE  Counted(j)'
<1> USE DEF Fault, Fails, Leaves, ForgetScan, tables
<1>0. /\ rows \in [Jobs -> Row] /\ inventory \in [Jobs -> SUBSET Identities] /\ Counted(j)
      /\ rows[j] \in Row
      /\ (wpc[w] # "idle" => wjob[w] \in Jobs /\ rows[wjob[w]] \in Row /\ Stored(wjob[w]))
  BY DEF CountInv, RowInv, TypeOK, Held, Running, RunBy
<1>1. CASE \/ Dequeue(w) \/ LookupTarget(w) \/ LookupMisses(w) \/ StartRefused(w) \/ StartLost(w)
           \/ \E u \in Units : PersistRefused(w, u)
           \/ ScanRaises(w) \/ FailJobLost(w) \/ Cleanup(w)
  <2>1. UNCHANGED <<rows, inventory>>
    BY <1>1 DEF Dequeue, LookupTarget, LookupMisses, StartRefused, StartLost, PersistRefused,
                ScanRaises, FailJobLost, Cleanup
  <2> QED
    BY <1>0, <2>1, CountKept DEF Stored
<1>2. CASE \/ StartJob(w) \/ FailJob(w)
           \/ \E partial, exposed \in BOOLEAN :
                 FinishJob(w, partial, exposed) \/ FinishUnknown(w, partial, exposed)
  <2>1. /\ inventory' = inventory /\ wpc[w] # "idle"
        /\ \/ rows' = [rows EXCEPT ![wjob[w]] = StartedRow(@)]
           \/ rows' = [rows EXCEPT ![wjob[w]] = FailedRow(@)]
           \/ \E partial, warnings \in BOOLEAN :
                 rows' = [rows EXCEPT ![wjob[w]] = FinishedRow(@, partial, warnings)]
    <3>1. ASSUME NEW partial \in BOOLEAN, NEW exposed \in BOOLEAN PROVE (partial \/ exposed) \in BOOLEAN
      OBVIOUS
    <3> QED
      BY <1>2, <3>1 DEF StartJob, FailJob, FinishJob, FinishUnknown
  <2>2. rows'[j] \in {rows[j], StartedRow(rows[j]), FailedRow(rows[j])}
           \/ \E partial, warnings \in BOOLEAN : rows'[j] = FinishedRow(rows[j], partial, warnings)
    BY <1>0, <2>1
  <2>3. rows'[j].matches = rows[j].matches /\ (Stored(j) => Stored(j)')
    BY <1>0, <2>2, TotalsKept DEF Stored
  <2> QED
    BY <1>0, <2>1, <2>3, CountKept
<1>3. ASSUME NEW u \in Units, NEW pii \in BOOLEAN, NEW warning \in BOOLEAN,
             PersistResult(w, u, pii, warning)
      PROVE  Counted(j)'
  <2>1. /\ wpc[w] = "scanning"
        /\ rows' = [rows EXCEPT ![wjob[w]] = PersistedRow(@, pii)]
        /\ inventory' = [inventory EXCEPT ![wjob[w]] =
              IF pii THEN @ \cup {Identity(wjob[w], u)} ELSE @]
        /\ pii => Identity(wjob[w], u) \notin inventory[wjob[w]]
    BY <1>3 DEF PersistResult
  <2>2. CASE j # wjob[w]
    <3>1. rows'[j] = rows[j] /\ inventory'[j] = inventory[j]
      BY <1>0, <2>1, <2>2
    <3> QED
      BY <1>0, <3>1, CountKept DEF Stored
  <2>3. CASE j = wjob[w]
    <3>1. rows'[j] = PersistedRow(rows[j], pii) /\ Stored(j)
      BY <1>0, <2>1, <2>3
    <3>2. /\ rows'[j].matches = IF pii THEN rows[j].matches + 1 ELSE rows[j].matches
          /\ rows'[j].status = rows[j].status
      BY <1>0, <3>1 DEF PersistedRow, Row
    <3>3. CASE ~pii
      <4>1. inventory'[j] = inventory[j]
        BY <1>0, <2>1, <2>3, <3>3
      <4> QED
        BY <1>0, <3>2, <3>3, <4>1, CountKept DEF Stored
    <3>4. CASE pii
      <4>1. inventory'[j] = inventory[j] \cup {Identity(j, u)} /\ Identity(j, u) \notin inventory[j]
        BY <1>0, <2>1, <2>3, <3>4
      <4>2. IsFiniteSet(inventory'[j]) /\ Cardinality(inventory'[j]) = Cardinality(inventory[j]) + 1
        <5>1. IsFiniteSet(inventory[j])
          BY <1>0 DEF Counted
        <5> QED
          BY <4>1, <5>1, FS_AddElement
      <4> QED
        BY <1>0, <3>1, <3>2, <3>4, <4>2 DEF Counted, Stored
    <3> QED
      BY <3>3, <3>4
  <2> QED
    BY <2>2, <2>3
<1> QED
  BY <1>1, <1>2, <1>3 DEF Work

LEMMA CountNext == RowInv /\ CountInv /\ [Next]_vars => CountInv'
<1> SUFFICES ASSUME RowInv, CountInv, [Next]_vars, NEW j \in Jobs PROVE Counted(j)'
  BY DEF CountInv
<1>0. /\ rows \in [Jobs -> Row] /\ Counted(j) /\ rows[j] \in Row /\ j[1] \in Requests
      /\ pc[j[1]] = "new" => ~Stored(j)
  BY DEF CountInv, RowInv, TypeOK, Jobs
<1>1. CASE UNCHANGED vars
  <2>1. UNCHANGED <<rows, inventory>>
    BY <1>1 DEF vars, tables
  <2> QED
    BY <1>0, <2>1, CountKept DEF Stored
<1>2. ASSUME NEW r \in Requests, Handle(r) PROVE Counted(j)'
  <2>1. /\ inventory' = inventory
        /\ rows' = rows \/ \E i \in 1..MaxBatch : rows' = [rows EXCEPT ![<<r, i>>] = FailedRow(@)]
    BY <1>2 DEF Handle, Respond, RespondLost, SubmitFailureLost, RegisterTarget, ExecutorSubmit,
       SubmitRaises, SubmitRaisesLate, Unregister, RecordSubmitFailure, SubmitFailureUnknown, tables
  <2>2. rows'[j] \in {rows[j], FailedRow(rows[j])}
    BY <1>0, <2>1
  <2>3. rows'[j].matches = rows[j].matches /\ (Stored(j) => Stored(j)')
    BY <1>0, <2>2, TotalsKept DEF Stored
  <2> QED
    BY <1>0, <2>1, <2>3, CountKept
<1>3. ASSUME NEW r \in Requests, Post(r) PROVE Counted(j)'
  <2>1. ASSUME NEW b \in Batches, NEW ok \in SUBSET DOMAIN b,
               PostAdmitted(r, b, ok) \/ PostUnknown(r, b, ok)
        PROVE  Counted(j)'
    <3>1. /\ pc[r] = "new" /\ inventory' = inventory
          /\ rows'[j] = IF j[1] = r /\ j[2] \in DOMAIN b THEN NewRow(j[2] \in ok) ELSE rows[j]
      BY <2>1 DEF PostAdmitted, PostUnknown, Insert
    <3>2. CASE rows'[j] = rows[j]
      BY <1>0, <3>1, <3>2, CountKept DEF Stored
    <3>3. CASE ~Stored(j) /\ rows'[j] = NewRow(j[2] \in ok)
      <4>1. rows'[j].matches = 0 /\ Stored(j)'
        BY <3>3 DEF NewRow, NoRow, Stored
      <4>2. inventory'[j] = {} /\ inventory[j] = {}
        BY <1>0, <3>1, <3>3 DEF Counted
      <4> QED
        BY <4>1, <4>2, FS_EmptySet DEF Counted
    <3> QED
      BY <1>0, <3>1, <3>2, <3>3
  <2>2. CASE PostRejected(r) \/ PostLost(r) \/ \E b \in Batches : \E ok \in SUBSET DOMAIN b : PostConflicts(r, b, ok)
    <3>1. UNCHANGED <<rows, inventory>>
      BY <2>2 DEF PostRejected, PostLost, PostConflicts, tables
    <3> QED
      BY <1>0, <3>1, CountKept DEF Stored
  <2> QED
    BY <1>3, <2>1, <2>2 DEF Post
<1>4. CASE Crash \/ FailOrphanedJobs
  <2>1. inventory' = inventory /\ (rows'[j] = rows[j] \/ rows'[j] = FailedRow(rows[j]))
    BY <1>0, <1>4 DEF Crash, FailOrphanedJobs, tables
  <2>2. rows'[j].matches = rows[j].matches /\ (Stored(j) => Stored(j)')
    BY <1>0, <2>1, TotalsKept DEF Stored
  <2> QED
    BY <1>0, <2>1, <2>2, CountKept
<1> QED
  BY <1>1, <1>2, <1>3, <1>4, CountWork DEF Next

\* The total of a job is the size of its stored inventory, whatever fails, crashes
\* or is lost between two commits.
THEOREM TotalsMatch == Spec => []InventoryMatchesTotals
<1>1. Init => CountInv
  BY FS_EmptySet DEF Init, CountInv, Counted, NoRow
<1>2. CountInv => InventoryMatchesTotals
  BY DEF CountInv, Counted, InventoryMatchesTotals
<1> QED
  BY <1>1, <1>2, CountNext, RowInvInit, RowInvNext, PTL DEF Spec
==============================================================================
