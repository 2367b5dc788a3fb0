------------------------- MODULE ScanRequirements --------------------------
(***************************************************************************)
(* What the scan lifecycle must guarantee, over ScanLifecycle's variables. *)
(***************************************************************************)
EXTENDS ScanLifecycle

PcValues     == {"new", "submitting", "registered", "unregistering", "raised", "done"}
WpcValues    == {"idle", "lookup", "starting", "scanning", "failing", "cleanup"}
HandlerBusy  == {"submitting", "registered", "unregistering", "raised"}

\* Every variable stays in its type, and a thread at work has a job.
TypeOK ==
    /\ rows \in [Jobs -> Row]
    /\ inventory \in [Jobs -> SUBSET Identities]
    /\ batch \in [Requests -> Batches \cup {<<>>}]
    /\ pc \in [Requests -> PcValues]
    /\ todo \in [Requests -> SUBSET (1..MaxBatch)]
    /\ response \in [Requests -> {"none", "202", "409", "422", "500"}]
    /\ registry \subseteq Jobs
    /\ queue \in Seq(Jobs)
    /\ wpc \in [Workers -> WpcValues]
    /\ wjob \in [Workers -> Jobs \cup {<<>>}]
    /\ \A w \in Workers : wpc[w] # "idle" => wjob[w] \in Jobs
    /\ warned \in [Workers -> BOOLEAN]
    /\ seen \in [Workers -> SUBSET Units]
    /\ up \in BOOLEAN
    /\ crashes \in Nat
    /\ faults \in Nat
    /\ abandoned \subseteq Jobs

------------------------------------------------------------------------------
\* Where a job may be held by the running process.
Submitting(j) == pc[j[1]] \in HandlerBusy /\ j[2] \in todo[j[1]]
Queued(j)     == \E k \in 1..Len(queue) : queue[k] = j
RunBy(w, j)   == wpc[w] # "idle" /\ wjob[w] = j
Running(j)    == \E w \in Workers : RunBy(w, j)

\* Two threads never scan the same target at the same time: the unique index
\* speaks of rows, this of what the threads do between their commits.
ExclusiveScan ==
    \A v, w \in Workers :
        v # w /\ wpc[v] = "scanning" /\ wpc[w] = "scanning"
            => TargetOf(wjob[v]) # TargetOf(wjob[w])

\* A row that says pending or running is in the hands of a handler, the queue
\* or a thread, unless the write of its failure was itself lost: nothing else
\* leaves a target locked until the next restart.
NoStrandedJob ==
    up => \A j \in Jobs :
        ActiveJob(j) => \/ Submitting(j)
                        \/ Queued(j)
                        \/ \E w \in Workers : RunBy(w, j) /\ wpc[w] # "cleanup"
                        \/ j \in abandoned

\* Credentials are held only for a database job that the handler is about to
\* queue, that is queued, or that a thread is running.
SecretsConfined ==
    \A j \in registry :
        /\ IsDb(j)
        /\ Submitting(j) \/ Queued(j) \/ Running(j)

\* Every stored row satisfies the CHECK constraints, and no thread is about to
\* attempt an update they would refuse.
WritesRespectChecks ==
    /\ \A j \in Jobs : rows[j].status # "absent" => RowOK(rows[j])
    /\ \A w \in Workers : wpc[w] = "starting" => RowOK(StartedRow(rows[wjob[w]]))

\* matches_found is the sum of the stored inventory, whatever failed between.
InventoryMatchesTotals ==
    \A j \in Jobs : rows[j].matches = Cardinality(inventory[j])

\* A client that was answered 202 has a row for every target it sent, each one
\* finished or already out of the handler's hands; one that was refused has none.
AnswerIsTrue ==
    \A r \in Requests :
        /\ response[r] = "202" /\ up =>
              \A i \in DOMAIN batch[r] : LET j == <<r, i>> IN
                  \/ rows[j].status \in Terminal
                  \/ Queued(j) \/ Running(j) \/ j \in abandoned
        /\ response[r] \in {"409", "422"} => JobsOf(r) = {}

\* One active row per target (uq_scan_jobs_active_target).
OneActivePerTarget ==
    \A j, k \in Jobs :
        j # k /\ ActiveJob(j) /\ ActiveJob(k) => TargetOf(j) # TargetOf(k)

------------------------------------------------------------------------------
StatusRank == [s \in {"absent"} \cup Active \cup Terminal |->
                 CASE s = "absent"  -> 0 [] s = "pending" -> 1
                   [] s = "running" -> 2 [] OTHER -> 3]

\* A job never moves back, neither in status nor in progress, and nothing
\* touches the row of a finished job.
JobForward(j) ==
    /\ StatusRank[rows[j].status] <= StatusRank[rows'[j].status]
    /\ rows[j].progress <= rows'[j].progress
    /\ rows[j].status \in Terminal => rows'[j] = rows[j]

JobsMoveForward == [][\A j \in Jobs : JobForward(j)]_vars

\* A job reported failed is never reported otherwise later, even when commits
\* are applied and raise.
FailedIsFinal ==
    [][\A j \in Jobs : rows[j].status = "failed" => rows'[j].status = "failed"]_vars

\* What GET /batches/{id}/status derives never moves back either.
BatchForward(r) ==
    /\ BatchStatus(r) = "running" => BatchStatus(r)' # "pending"
    /\ BatchStatus(r) \notin {"pending", "running"} => BatchStatus(r)' = BatchStatus(r)

BatchesMoveForward == [][\A r \in Requests : JobsOf(r) # {} => BatchForward(r)]_vars

------------------------------------------------------------------------------
\* Every job that was stored ends, or its failure could not be recorded.
JobsEnd == \A j \in Jobs : ActiveJob(j) ~> (~ActiveJob(j) \/ j \in abandoned)

\* Credentials do not stay in memory.
SecretsGo == \A j \in Jobs : j \in registry ~> j \notin registry

\* The handler, the queue, the threads, the tables and the restart implement
\* JobContract: what a client sees of a job is the status of its row.
Contract == INSTANCE JobContract WITH status <- [j \in Jobs |-> rows[j].status],
                                     lost   <- abandoned

ImplementsContract == Contract!Spec
==============================================================================
