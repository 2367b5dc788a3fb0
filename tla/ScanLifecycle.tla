--------------------------- MODULE ScanLifecycle ---------------------------
(***************************************************************************)
(* The life of a scan job: the request handler that admits a batch and     *)
(* submits its jobs (api/routes/scans.py), the two-thread executor with    *)
(* its FIFO queue and the credential registry (jobs/coordinator.py), the   *)
(* scan_jobs and scan_inventory_items tables with their constraints        *)
(* (db/models.py), and the crash of the process and its recovery on the    *)
(* next start (main.py).                                                   *)
(*                                                                         *)
(* A job is a pair <<request, position in the batch>>.  A commit of the    *)
(* metadata database is one step; what a thread does between two commits   *)
(* is interleaved with every other thread.                                 *)
(***************************************************************************)
EXTENDS Naturals, Sequences, FiniteSets

CONSTANTS
    Requests,           \* the POST requests clients may send
    Targets,            \* canonical targets (fingerprints)
    DbTargets,          \* those that are databases: their jobs carry credentials
    Workers,            \* threads of _EXECUTOR
    MaxBatch,           \* bound: targets of one batch (20 in the schema)
    Units,              \* files or columns a scan may report on
    LocatorOf,          \* the inventory identity of a database column
    StartProgress,      \* 5 in the code
    ProgressCap,        \* 95 in the code
    FullProgress,       \* 100 in the code
    MaxCrashes,         \* bound: crashes of the process
    MaxFaults,          \* bound: commits of the metadata database that fail
    UnknownCommits,     \* may a commit be applied and still raise?
    LateRaises          \* may _EXECUTOR.submit raise after it has queued?

ASSUME TargetsAssumption == DbTargets \subseteq Targets

ASSUME BoundsAssumption ==
    /\ MaxBatch \in Nat \ {0}
    /\ MaxCrashes \in Nat
    /\ MaxFaults \in Nat
    /\ UnknownCommits \in BOOLEAN
    /\ LateRaises \in BOOLEAN

ASSUME ProgressAssumption ==
    /\ StartProgress \in Nat
    /\ ProgressCap \in Nat
    /\ FullProgress \in Nat
    /\ StartProgress <= ProgressCap
    /\ ProgressCap < FullProgress

VARIABLES
    rows,       \* the scan_jobs table
    inventory,  \* the identities stored in scan_inventory_items, per job
    batch,      \* the targets of each admitted batch
    pc,         \* where the handler of each request is
    todo,       \* positions of the batch its submit loop has still to do
    response,   \* the HTTP status it answered with
    registry,   \* keys of _DATABASE_TARGETS
    queue,      \* work queue of the executor
    wpc,        \* where each worker thread is
    wjob,       \* the job it runs
    warned,     \* warning_count > 0 in _run_directory_job
    seen,       \* units the scan of that job has reported on
    up,         \* the process serves requests
    crashes,    \* crashes so far
    faults,     \* failed commits so far
    abandoned   \* history: jobs whose failure could not be recorded

tables   == <<rows, inventory>>
handlers == <<batch, pc, todo, response>>
pool     == <<queue, wpc, wjob, warned, seen>>
world    == <<up, crashes, faults>>
vars     == <<tables, handlers, registry, pool, world, abandoned>>

Jobs == Requests \X (1..MaxBatch)

Active    == {"pending", "running"}     \* nothing in the code writes "validating"
Completed == {"completed", "completed_with_warnings"}
Terminal  == Completed \cup {"failed"}  \* nor "cancelled"

Row == [status   : {"absent"} \cup Active \cup Terminal,
        finished : BOOLEAN,             \* finished_at IS NOT NULL
        progress : Nat,
        coverage : {"pending", "complete", "partial", "failed"},
        error    : BOOLEAN,             \* error_code, error_message IS NOT NULL
        matches  : Nat]

TargetOf(j)  == batch[j[1]][j[2]]
IsDb(j)      == TargetOf(j) \in DbTargets
ActiveJob(j) == rows[j].status \in Active
JobsOf(r)    == {j \in Jobs : j[1] = r /\ rows[j].status # "absent"}

Batches == UNION {[1..n -> Targets] : n \in 1..MaxBatch}

------------------------------------------------------------------------------
(* What each write makes of a row, and the constraints it meets.            *)

NoRow == [status |-> "absent", finished |-> FALSE, progress |-> 0,
          coverage |-> "pending", error |-> FALSE, matches |-> 0]

\* A job row as inserted: pending, or born failed when its preflight failed.
NewRow(ok) ==
    IF ok THEN [NoRow EXCEPT !.status = "pending"]
          ELSE [NoRow EXCEPT !.status = "failed", !.finished = TRUE,
                             !.coverage = "failed", !.error = TRUE]

StartedRow(row) ==
    [row EXCEPT !.status = "running", !.progress = StartProgress]

MutNextProgress(p) == p + 1

NextProgress(p) == IF p + 1 <= ProgressCap THEN p + 1 ELSE ProgressCap

PersistedRow(row, pii) ==
    [row EXCEPT !.progress = NextProgress(row.progress),
                !.matches  = IF pii THEN row.matches + 1 ELSE row.matches]

MutFinishedRowUnassessed(row, partial, warnings) ==
    [row EXCEPT
        !.status   = IF warnings THEN "completed_with_warnings" ELSE "completed",
        !.progress = FullProgress,
        !.coverage = IF partial THEN "unassessed" ELSE "complete",
        !.error    = warnings,
        !.finished = TRUE]

FinishedRow(row, partial, warnings) ==
    [row EXCEPT
        !.status   = IF warnings THEN "completed_with_warnings" ELSE "completed",
        !.progress = FullProgress,
        !.coverage = IF partial THEN "partial" ELSE "complete",
        !.error    = warnings,
        !.finished = TRUE]

MutFailedRowRestartsProgress(row) ==
    [row EXCEPT !.status = "failed", !.coverage = "failed", !.error = TRUE,
                !.finished = TRUE, !.progress = 0]

FailedRow(row) ==
    [row EXCEPT !.status = "failed", !.coverage = "failed", !.error = TRUE,
                !.finished = TRUE]

\* The CHECK constraints of scan_jobs that a status change can trip.
RowOK(row) ==
    /\ row.progress <= FullProgress
    /\ (row.status \in Terminal) <=> row.finished
    /\ row.status \in Completed => row.progress = FullProgress
    /\ row.error => row.status \in {"failed", "completed_with_warnings"}

\* uq_inventory_item_identity: a file is its path; a column is whatever
\* "schema.table" and the column's name spell.
Identity(j, u) == IF IsDb(j) THEN LocatorOf[u] ELSE u
Identities     == Units \cup {LocatorOf[u] : u \in Units}

MutClashesAcrossBatches(b, ok) ==
    \E i \in ok : \E j \in Jobs : ActiveJob(j) /\ TargetOf(j) = b[i]

MutClashesWithinBatch(b, ok) ==
    \E i \in ok, k \in ok : i # k /\ b[i] = b[k]

\* uq_scan_jobs_active_target refuses the insert of batch b.
Clashes(b, ok) ==
    \/ \E i \in ok, k \in ok : i # k /\ b[i] = b[k]
    \/ \E i \in ok : \E j \in Jobs : ActiveJob(j) /\ TargetOf(j) = b[i]

------------------------------------------------------------------------------
Init ==
    /\ rows      = [j \in Jobs |-> NoRow]
    /\ inventory = [j \in Jobs |-> {}]
    /\ batch     = [r \in Requests |-> <<>>]
    /\ pc        = [r \in Requests |-> "new"]
    /\ todo      = [r \in Requests |-> {}]
    /\ response  = [r \in Requests |-> "none"]
    /\ registry  = {}
    /\ queue     = <<>>
    /\ wpc       = [w \in Workers |-> "idle"]
    /\ wjob      = [w \in Workers |-> <<>>]
    /\ warned    = [w \in Workers |-> FALSE]
    /\ seen      = [w \in Workers |-> {}]
    /\ up        = TRUE
    /\ crashes   = 0
    /\ faults    = 0
    /\ abandoned = {}

------------------------------------------------------------------------------
(* _create_batch: prepare every target, then one transaction.               *)

Answer(r, code) ==
    /\ pc' = [pc EXCEPT ![r] = "done"]
    /\ response' = [response EXCEPT ![r] = code]

Fault ==
    /\ faults < MaxFaults
    /\ faults' = faults + 1
    /\ UNCHANGED <<up, crashes>>

Insert(r, b, ok) ==
    /\ batch' = [batch EXCEPT ![r] = b]
    /\ rows'  = [j \in Jobs |-> IF j[1] = r /\ j[2] \in DOMAIN b
                                THEN NewRow(j[2] \in ok) ELSE rows[j]]
    /\ UNCHANGED inventory

\* A single-target route whose preflight failed: 422 and nothing is stored.
PostRejected(r) ==
    /\ up /\ pc[r] = "new"
    /\ Answer(r, "422")
    /\ UNCHANGED <<tables, batch, todo, registry, pool, world, abandoned>>

\* The commit succeeds: one row per target; the submit loop starts.
PostAdmitted(r, b, ok) ==
    /\ up /\ pc[r] = "new"
    /\ ~Clashes(b, ok)
    /\ Insert(r, b, ok)
    /\ pc' = [pc EXCEPT ![r] = "submitting"]
    /\ todo' = [todo EXCEPT ![r] = ok]
    /\ UNCHANGED <<response, registry, pool, world, abandoned>>

\* IntegrityError: rolled back, the whole batch is refused.
PostConflicts(r, b, ok) ==
    /\ up /\ pc[r] = "new"
    /\ Clashes(b, ok)
    /\ Answer(r, "409")
    /\ UNCHANGED <<tables, batch, todo, registry, pool, world, abandoned>>

\* The commit is lost with the connection: 500 and nothing is stored.
PostLost(r) ==
    /\ up /\ pc[r] = "new"
    /\ Fault
    /\ Answer(r, "500")
    /\ UNCHANGED <<tables, batch, todo, registry, pool, abandoned>>

\* The commit is applied but raises: 500, stored and never submitted.
PostUnknown(r, b, ok) ==
    /\ up /\ pc[r] = "new"
    /\ UnknownCommits
    /\ ~Clashes(b, ok)
    /\ Fault
    /\ Insert(r, b, ok)
    /\ Answer(r, "500")
    /\ abandoned' = abandoned \cup {<<r, i>> : i \in ok}
    /\ UNCHANGED <<todo, registry, pool>>

------------------------------------------------------------------------------
(* The submit loop of _create_batch and _submit_database_job.               *)

\* The loop goes through the batch in order and skips preflight failures.
IsNext(r, i) == i \in todo[r] /\ \A k \in todo[r] : i <= k

RegisterTarget(r, i) ==
    /\ pc[r] = "submitting" /\ IsNext(r, i) /\ IsDb(<<r, i>>)
    /\ registry' = registry \cup {<<r, i>>}
    /\ pc' = [pc EXCEPT ![r] = "registered"]
    /\ UNCHANGED <<tables, batch, todo, response, pool, world, abandoned>>

\* Control is at _EXECUTOR.submit.
AtSubmit(r, i) ==
    /\ IsNext(r, i)
    /\ pc[r] = IF IsDb(<<r, i>>) THEN "registered" ELSE "submitting"

ExecutorSubmit(r, i) ==
    /\ AtSubmit(r, i)
    /\ queue' = Append(queue, <<r, i>>)
    /\ todo' = [todo EXCEPT ![r] = @ \ {i}]
    /\ pc' = [pc EXCEPT ![r] = "submitting"]
    /\ UNCHANGED <<tables, batch, response, registry, wpc, wjob, warned, seen,
                   world, abandoned>>

\* The except clause the exception reaches: _submit_database_job's or the loop's.
Raised(r, i) == IF IsDb(<<r, i>>) THEN "unregistering" ELSE "raised"

MutSubmitRaisesQueued(r, i) ==
    /\ AtSubmit(r, i)
    /\ queue' = Append(queue, <<r, i>>)
    /\ pc' = [pc EXCEPT ![r] = Raised(r, i)]
    /\ UNCHANGED <<tables, batch, todo, response, registry, wpc, wjob, warned,
                   seen, world, abandoned>>

\* submit refuses (the interpreter shuts down): nothing was queued.
SubmitRaises(r, i) ==
    /\ AtSubmit(r, i)
    /\ pc' = [pc EXCEPT ![r] = Raised(r, i)]
    /\ UNCHANGED <<tables, batch, todo, response, registry, pool, world, abandoned>>

\* submit queues the item, then fails to start a thread for it.
SubmitRaisesLate(r, i) ==
    /\ LateRaises
    /\ AtSubmit(r, i)
    /\ queue' = Append(queue, <<r, i>>)
    /\ pc' = [pc EXCEPT ![r] = Raised(r, i)]
    /\ UNCHANGED <<tables, batch, todo, response, registry, wpc, wjob, warned,
                   seen, world, abandoned>>

MutUnregisterForgets(r, i) ==
    /\ pc[r] = "unregistering" /\ IsNext(r, i)
    /\ pc' = [pc EXCEPT ![r] = "raised"]
    /\ UNCHANGED <<tables, batch, todo, response, registry, pool, world, abandoned>>

Unregister(r, i) ==
    /\ pc[r] = "unregistering" /\ IsNext(r, i)
    /\ registry' = registry \ {<<r, i>>}
    /\ pc' = [pc EXCEPT ![r] = "raised"]
    /\ UNCHANGED <<tables, batch, todo, response, pool, world, abandoned>>

MutSubmitFailureIgnored(r, i) ==
    /\ pc[r] = "raised" /\ IsNext(r, i)
    /\ todo' = [todo EXCEPT ![r] = @ \ {i}]
    /\ pc' = [pc EXCEPT ![r] = "submitting"]
    /\ UNCHANGED <<tables, batch, response, registry, pool, world, abandoned>>

\* job_submit_failed is committed and the loop goes on with the siblings.
RecordSubmitFailure(r, i) ==
    /\ pc[r] = "raised" /\ IsNext(r, i)
    /\ rows' = [rows EXCEPT ![<<r, i>>] = FailedRow(@)]
    /\ todo' = [todo EXCEPT ![r] = @ \ {i}]
    /\ pc' = [pc EXCEPT ![r] = "submitting"]
    /\ UNCHANGED <<inventory, batch, response, registry, pool, world, abandoned>>

\* That commit fails too: 500, and the siblings are never submitted.
SubmitFailureLost(r) ==
    /\ pc[r] = "raised"
    /\ Fault
    /\ Answer(r, "500")
    /\ abandoned' = abandoned \cup {<<r, i>> : i \in todo[r]}
    /\ todo' = [todo EXCEPT ![r] = {}]
    /\ UNCHANGED <<tables, batch, registry, pool>>

\* That commit is applied but raises: the row says failed, 500, and the siblings
\* are never submitted.
SubmitFailureUnknown(r, i) ==
    /\ pc[r] = "raised" /\ IsNext(r, i)
    /\ UnknownCommits
    /\ Fault
    /\ rows' = [rows EXCEPT ![<<r, i>>] = FailedRow(@)]
    /\ Answer(r, "500")
    /\ abandoned' = abandoned \cup {<<r, k>> : k \in todo[r] \ {i}}
    /\ todo' = [todo EXCEPT ![r] = {}]
    /\ UNCHANGED <<inventory, batch, registry, pool>>

\* The rows are read back for the response.
Respond(r) ==
    /\ pc[r] = "submitting" /\ todo[r] = {}
    /\ Answer(r, "202")
    /\ UNCHANGED <<tables, batch, todo, registry, pool, world, abandoned>>

RespondLost(r) ==
    /\ pc[r] = "submitting" /\ todo[r] = {}
    /\ Fault
    /\ Answer(r, "500")
    /\ UNCHANGED <<tables, batch, todo, registry, pool, abandoned>>

------------------------------------------------------------------------------
(* A worker thread: _run_directory_job and _run_database_job.               *)

\* An idle thread takes the oldest job; a database job looks its target up next.
Dequeue(w) ==
    /\ wpc[w] = "idle" /\ queue # <<>>
    /\ queue' = Tail(queue)
    /\ wjob' = [wjob EXCEPT ![w] = Head(queue)]
    /\ wpc' = [wpc EXCEPT ![w] = IF IsDb(Head(queue)) THEN "lookup" ELSE "starting"]
    /\ UNCHANGED <<tables, handlers, registry, warned, seen, world, abandoned>>

LookupTarget(w) ==
    /\ wpc[w] = "lookup" /\ wjob[w] \in registry
    /\ wpc' = [wpc EXCEPT ![w] = "starting"]
    /\ UNCHANGED <<tables, handlers, registry, queue, wjob, warned, seen, world,
                   abandoned>>

\* target is None: the job returns without touching its row.
LookupMisses(w) ==
    /\ wpc[w] = "lookup" /\ wjob[w] \notin registry
    /\ wpc' = [wpc EXCEPT ![w] = "idle"]
    /\ wjob' = [wjob EXCEPT ![w] = <<>>]
    /\ UNCHANGED <<tables, handlers, registry, queue, warned, seen, world, abandoned>>

StartJob(w) ==
    /\ wpc[w] = "starting"
    /\ RowOK(StartedRow(rows[wjob[w]]))
    /\ rows' = [rows EXCEPT ![wjob[w]] = StartedRow(@)]
    /\ wpc' = [wpc EXCEPT ![w] = "scanning"]
    /\ UNCHANGED <<inventory, handlers, registry, queue, wjob, warned, seen, world,
                   abandoned>>

\* Control leaves the try block, and the locals of the scan with it.
ForgetScan(w) ==
    /\ warned' = [warned EXCEPT ![w] = FALSE]
    /\ seen' = [seen EXCEPT ![w] = {}]

\* The except clause that calls _fail_job.
Fails(w) ==
    /\ wpc' = [wpc EXCEPT ![w] = "failing"]
    /\ ForgetScan(w)

\* The row was already terminal: a CHECK constraint refuses the update.
StartRefused(w) ==
    /\ wpc[w] = "starting"
    /\ ~RowOK(StartedRow(rows[wjob[w]]))
    /\ Fails(w)
    /\ UNCHANGED <<tables, handlers, registry, queue, wjob, world, abandoned>>

StartLost(w) ==
    /\ wpc[w] = "starting"
    /\ Fault
    /\ Fails(w)
    /\ UNCHANGED <<tables, handlers, registry, queue, wjob, abandoned>>

MutPersistIgnoresDuplicates(w, u, pii, warning) ==
    LET j == wjob[w] IN
    /\ wpc[w] = "scanning" /\ u \notin seen[w]
    /\ IsDb(j) => ~warning
    /\ rows' = [rows EXCEPT ![j] = PersistedRow(@, pii)]
    /\ inventory' = [inventory EXCEPT ![j] = IF pii THEN @ \cup {Identity(j, u)} ELSE @]
    /\ warned' = [warned EXCEPT ![w] = @ \/ warning]
    /\ seen' = [seen EXCEPT ![w] = @ \cup {u}]
    /\ UNCHANGED <<handlers, registry, queue, wpc, wjob, world, abandoned>>

\* One unit's counters and inventory items, one commit.
PersistResult(w, u, pii, warning) ==
    LET j == wjob[w] IN
    /\ wpc[w] = "scanning" /\ u \notin seen[w]
    /\ IsDb(j) => ~warning
    /\ pii => Identity(j, u) \notin inventory[j]
    /\ rows' = [rows EXCEPT ![j] = PersistedRow(@, pii)]
    /\ inventory' = [inventory EXCEPT ![j] = IF pii THEN @ \cup {Identity(j, u)} ELSE @]
    /\ warned' = [warned EXCEPT ![w] = @ \/ warning]
    /\ seen' = [seen EXCEPT ![w] = @ \cup {u}]
    /\ UNCHANGED <<handlers, registry, queue, wpc, wjob, world, abandoned>>

\* Two columns spell the same identity: the unique index refuses the second.
PersistRefused(w, u) ==
    /\ wpc[w] = "scanning" /\ u \notin seen[w]
    /\ Identity(wjob[w], u) \in inventory[wjob[w]]
    /\ Fails(w)
    /\ UNCHANGED <<tables, handlers, registry, queue, wjob, world, abandoned>>

\* The scanner raises, or a commit of the scan is lost.
ScanRaises(w) ==
    /\ wpc[w] = "scanning"
    /\ Fails(w)
    /\ UNCHANGED <<tables, handlers, registry, queue, wjob, world, abandoned>>

\* A database job still owes its finally clause; a directory job is over.
Leaves(w) ==
    /\ wpc'  = [wpc EXCEPT ![w] = IF IsDb(wjob[w]) THEN "cleanup" ELSE "idle"]
    /\ wjob' = [wjob EXCEPT ![w] = IF IsDb(wjob[w]) THEN @ ELSE <<>>]
    /\ ForgetScan(w)

\* partial: warnings of a directory, unsupported columns of a database.
\* exposed: weak TLS, or a permission that is not verified_limited.
Outcome(w, partial, exposed) ==
    IF IsDb(wjob[w]) THEN TRUE ELSE partial = warned[w] /\ ~exposed

FinishJob(w, partial, exposed) ==
    /\ wpc[w] = "scanning" /\ Outcome(w, partial, exposed)
    /\ rows' = [rows EXCEPT ![wjob[w]] = FinishedRow(@, partial, partial \/ exposed)]
    /\ Leaves(w)
    /\ UNCHANGED <<inventory, handlers, registry, queue, world, abandoned>>

\* The terminal commit is applied but raises.
FinishUnknown(w, partial, exposed) ==
    /\ wpc[w] = "scanning" /\ Outcome(w, partial, exposed)
    /\ UnknownCommits
    /\ Fault
    /\ rows' = [rows EXCEPT ![wjob[w]] = FinishedRow(@, partial, partial \/ exposed)]
    /\ Fails(w)
    /\ UNCHANGED <<inventory, handlers, registry, queue, wjob, abandoned>>

\* _fail_job, in a session of its own; it overwrites whatever the row says.
FailJob(w) ==
    /\ wpc[w] = "failing"
    /\ rows' = [rows EXCEPT ![wjob[w]] = FailedRow(@)]
    /\ Leaves(w)
    /\ UNCHANGED <<inventory, handlers, registry, queue, world, abandoned>>

\* _fail_job raises; the executor swallows it.
FailJobLost(w) ==
    /\ wpc[w] = "failing"
    /\ Fault
    /\ Leaves(w)
    /\ abandoned' = abandoned \cup {wjob[w]}
    /\ UNCHANGED <<tables, handlers, registry, queue>>

MutCleanupForgets(w) ==
    /\ wpc[w] = "cleanup"
    /\ wpc' = [wpc EXCEPT ![w] = "idle"]
    /\ wjob' = [wjob EXCEPT ![w] = <<>>]
    /\ UNCHANGED <<tables, handlers, registry, queue, warned, seen, world, abandoned>>

\* finally: the credentials are dropped.
Cleanup(w) ==
    /\ wpc[w] = "cleanup"
    /\ registry' = registry \ {wjob[w]}
    /\ wpc' = [wpc EXCEPT ![w] = "idle"]
    /\ wjob' = [wjob EXCEPT ![w] = <<>>]
    /\ UNCHANGED <<tables, handlers, queue, warned, seen, world, abandoned>>

------------------------------------------------------------------------------
(* The process dies at any point; memory is lost, the tables are not.       *)

Crash ==
    /\ up /\ crashes < MaxCrashes
    /\ up' = FALSE
    /\ crashes' = crashes + 1
    /\ registry' = {}
    /\ queue' = <<>>
    /\ wpc' = [w \in Workers |-> "idle"]
    /\ wjob' = [w \in Workers |-> <<>>]
    /\ warned' = [w \in Workers |-> FALSE]
    /\ seen' = [w \in Workers |-> {}]
    /\ pc' = [r \in Requests |-> IF pc[r] = "new" THEN "new" ELSE "done"]
    /\ todo' = [r \in Requests |-> {}]
    /\ UNCHANGED <<tables, batch, response, faults, abandoned>>

MutFailOrphanedRunningOnly ==
    /\ ~up
    /\ rows' = [j \in Jobs |-> IF rows[j].status = "running" THEN FailedRow(rows[j])
                                                             ELSE rows[j]]
    /\ up' = TRUE
    /\ abandoned' = {}
    /\ UNCHANGED <<inventory, handlers, registry, pool, crashes, faults>>

\* lifespan: before the next process serves anything.
FailOrphanedJobs ==
    /\ ~up
    /\ rows' = [j \in Jobs |-> IF ActiveJob(j) THEN FailedRow(rows[j]) ELSE rows[j]]
    /\ up' = TRUE
    /\ abandoned' = {}
    /\ UNCHANGED <<inventory, handlers, registry, pool, crashes, faults>>

------------------------------------------------------------------------------
(* What a client reads: get_batch_status derives it from one SELECT.         *)

MutBatchStatus(r) ==
    LET statuses == {rows[j].status : j \in JobsOf(r)} IN
    IF statuses \subseteq {"pending"}          THEN "pending"
    ELSE IF statuses = {"failed"}              THEN "failed"
    ELSE IF "failed" \in statuses              THEN "completed_with_failures"
    ELSE IF statuses \cap Active # {}          THEN "running"
    ELSE "completed"

BatchStatus(r) ==
    LET statuses == {rows[j].status : j \in JobsOf(r)} IN
    IF statuses \subseteq {"pending"}          THEN "pending"
    ELSE IF statuses \cap Active # {}          THEN "running"
    ELSE IF statuses = {"failed"}              THEN "failed"
    ELSE IF "failed" \in statuses              THEN "completed_with_failures"
    ELSE "completed"

------------------------------------------------------------------------------
Post(r) ==
    \/ PostRejected(r)
    \/ PostLost(r)
    \/ \E b \in Batches : \E ok \in SUBSET DOMAIN b :
          \/ PostAdmitted(r, b, ok)
          \/ PostConflicts(r, b, ok)
          \/ PostUnknown(r, b, ok)

Handle(r) ==
    \/ Respond(r)
    \/ RespondLost(r)
    \/ SubmitFailureLost(r)
    \/ \E i \in 1..MaxBatch :
          \/ RegisterTarget(r, i)
          \/ ExecutorSubmit(r, i)
          \/ SubmitRaises(r, i)
          \/ SubmitRaisesLate(r, i)
          \/ Unregister(r, i)
          \/ RecordSubmitFailure(r, i)
          \/ SubmitFailureUnknown(r, i)

Work(w) ==
    \/ Dequeue(w) \/ LookupTarget(w) \/ LookupMisses(w)
    \/ StartJob(w) \/ StartRefused(w) \/ StartLost(w)
    \/ \E u \in Units : \/ \E pii, warning \in BOOLEAN : PersistResult(w, u, pii, warning)
                        \/ PersistRefused(w, u)
    \/ ScanRaises(w)
    \/ \E partial, exposed \in BOOLEAN : \/ FinishJob(w, partial, exposed)
                                         \/ FinishUnknown(w, partial, exposed)
    \/ FailJob(w) \/ FailJobLost(w)
    \/ Cleanup(w)

Next ==
    \/ \E r \in Requests : Post(r) \/ Handle(r)
    \/ \E w \in Workers : Work(w)
    \/ Crash
    \/ FailOrphanedJobs

Spec == Init /\ [][Next]_vars

\* Threads are scheduled, scans end (a deadline or a finite tree), and a dead
\* process is started again.  Clients, crashes and faults owe nothing.
Fairness ==
    /\ \A r \in Requests : WF_vars(Handle(r))
    /\ \A w \in Workers : WF_vars(Work(w))
    /\ WF_vars(FailOrphanedJobs)

FairSpec == Spec /\ Fairness
==============================================================================
