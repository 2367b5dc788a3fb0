# DPMAP: models, checks and proofs

DPMAP scans directories and databases for personal data. Clients post batches of
targets over HTTP; each target becomes a job; two threads inside the server run the
jobs and store only counts. This directory holds TLA+ modules of the parts where the
order of steps matters, the TLC configurations that check them, and proofs.

Paths below are relative to `src/backend/src/dpmap/`.

## 1. Inventory

| Component | Source | State it keeps | Operations | What makes it correct |
|---|---|---|---|---|
| Batch admission | `api/routes/scans.py` 57-377 | one transaction, the list `prepared`, how far the submit loop is | prepare, insert and commit, submit each job, record a refused submission, answer | one active job per target; a refused batch leaves nothing; every stored job is submitted or failed |
| Job coordinator | `jobs/coordinator.py` | executor queue, two threads, `_DATABASE_TARGETS` | register, submit, look up, start, persist, finish, fail, forget, recover | no job left behind, credentials only with work in progress, terminal means terminal |
| Job tables | `db/models.py` | `scan_jobs`, `scan_inventory_items` | constraints and two unique indexes | no write of the code is refused by a constraint it does not handle |
| Status queries | `api/routes/scans.py` 240-273, 495-531 | none | derive the status of a batch | a poller never sees it go back |
| Windowed detection | `engine/detectors/pipeline.py` 217-304 | buffer, offsets, segments, counts | next chunk, slide the window, finish | every match counted, once, wherever windows and chunks end |
| Directory scanner | `engine/scanners/directory.py` | stack of directories | list, skip, scan a file | every entry reported once; a file that changed is reported as unstable |
| Database scanners | `engine/scanners/postgres.py`, `mysql.py` | connection, read-only transaction, deadline | connect, verify, discover, scan a column | whole columns only, bounded time, always rolled back |
| Authentication | `services/auth.py`, `api/dependencies.py`, `api/errors.py`, `core/security.py`, `cli.py` | users, sessions, tokens | login, logout, check, create the first administrator | a revoked session starts nothing; one first administrator |
| Sessions and threads | `db/session.py` and FastAPI's thread pool | 15 connections, 40 threads | acquire, hold, release | every request ends |
| Process lifecycle | `main.py` | up or down | start with recovery, serve, die | orphaned jobs are failed before anything is served |
| Schemas, migrations, assessment rules, frontend | `api/schemas.py`, `migrations/`, `engine/assessment/`, `frontend/` | none | - | not modelled: stateless, run once, or read by no code |

How they interact. A request handler (a thread of FastAPI's pool) calls the admission
code, which writes the tables, the registry and the executor's queue. A worker thread
reads the queue and the registry, calls a scanner, and writes the tables through a
session of its own. Handlers and workers share these and the pool of connections, and no
lock covers more than one dictionary operation: every pair of steps of two threads may
interleave. Before any handler runs, `get_current_user` reads the session and the user
named by the token, on the connection the handler goes on with; `dpmap create-admin` runs
in a process of its own and meets the requests in the table lock of `users`.
Clients see only rows. The process may die at any point; rows survive, the registry and
the queue do not, and `lifespan` repairs the rows on the next start.

Hard to test here: the order of registry, queue and rows between handler and worker;
a crash between any two commits; commits that fail, or are applied and still raise; an
executor that raises after it has queued; concurrent batches in the unique index; text
that meets the edges of two windows; a tree that changes while it is walked; a target
database that is slow, ends the session, or fails while the scan is being given up;
sessions that end between two queries of a request; requests that wait for threads,
connections and a table lock in turn; two clocks that differ. `PROJECT.json` lists each
hazard with its line.

## 2. Modules

### ScanLifecycle, ScanRequirements, MCScanLifecycle

`ScanLifecycle` is the core. A job is `<<request, position in its batch>>`.

| Variable | Code |
|---|---|
| `rows`, `inventory` | `scan_jobs` (status, finished_at, progress, coverage, error, matches_found) and the identities in `scan_inventory_items` |
| `batch`, `pc`, `todo`, `response` | the frame of `_create_batch`: the targets, where control is, which positions the loop still has to submit, the answer |
| `registry` | the keys of `_DATABASE_TARGETS` |
| `queue`, `wpc`, `wjob`, `warned`, `seen` | the executor's queue; per thread: where it is, its job, `warning_count > 0`, the units the scanner has reported |
| `up`, `crashes`, `faults` | the process, and how much bad luck has been spent |
| `abandoned` | history: jobs whose failure the code could not write down |

A commit is one step, and so is every operation on the registry and the queue. Actions
follow the code: `PostAdmitted` / `PostConflicts` / `PostRejected` / `PostLost` /
`PostUnknown` are the ways a POST can go (202 path, 409, 422, 500 before and 500 after
the commit took effect); `RegisterTarget`, `ExecutorSubmit`, `SubmitRaises`,
`SubmitRaisesLate`, `Unregister`, `RecordSubmitFailure`, `SubmitFailureLost`,
`SubmitFailureUnknown` are the submit loop; `Dequeue` to `Cleanup` are a worker; `Crash` and `FailOrphanedJobs` are the
process. Things to know when comparing with the code:

- `if job is None: return` (80-82, 139-140, 286-287) is not an action: nothing deletes
  rows, and `RowInv` (proved) implies that a job in the queue or with a thread has a row.
- "validating" and "cancelled" are allowed by the constraints and written by no code.
- `SubmitRaises` is the refusal of an executor that is shutting down. `SubmitRaisesLate`
  is the other way `submit` fails: the work item is queued first and the thread that
  should serve it cannot be started. It is behind the constant `LateRaises`.
- A commit that is applied and raises is a step of its own where its effect differs from
  its parts (`PostUnknown`, `SubmitFailureUnknown`, `FinishUnknown`). For the commits of a start or a result it
  is the same as that step followed by `ScanRaises`; for `_fail_job` the executor
  swallows the exception, so it is `FailJob`.
- Locals of a scan are reset when control leaves the `try` block.
- Progress is 1, 2, 3 for 5, 95, 100: one unit reaches the cap, and without the cap three
  would go past the full value that the constraint on the progress of a row allows.

`ScanRequirements` states the properties; `MCScanLifecycle` gives the constants values.

### JobContract

What a client may rely on: a batch is stored as a whole, one active job per target,
pending to running to a terminal status and no further, a restart fails the active ones,
and every active job ends, unless its failure could not be written (`lost`, mapped to
`abandoned`); that one waits for the restart. `ScanRequirements` maps the rows' status.

### BatchCommit, Admission, MCBatchCommit

`ScanLifecycle` takes the commit of a batch as one step. `BatchCommit` justifies it: rows
go into the unique index one at a time, an entry of another open transaction makes the
insert wait, a cycle of waits has a victim. It implements `Admission`, where a batch is
stored or refused in one step. The waiting and the deadlock detector are PostgreSQL's
and are marked external. `Victim` is not an action of `ScanLifecycle`, where it would be
`PostLost`: 500 and nothing stored.

### WindowedDetector, PatternDetector

`WindowedDetector` is `aggregate_chunks` with its window of 4096 and overlap of 320 as
constants. The detector is a parameter too, `Detect(_)`: the spans of one type that
`_detect` reports in a window. Nothing is assumed of it but that spans lie in the window
and are not empty, so that a span may depend on what was matched before it (`finditer`)
or on the whole window (the names of spaCy). The history variables `text`, `origin`,
`found` and `searched` exist for the properties.

`PatternDetector` gives that parameter a pattern built like `AADHAAR_RE`: groups of
digits, each with an optional separator before it, with no digit before or after; matches
from left to right, each search going on where the last match ended; and a checksum that
is computed on what was matched, so that what fails it has been used up all the same.
The checksum is the parity of the digits: like Verhoeff's, it is changed by one digit.

What can go wrong is in this pattern. With two groups of one digit, a window of 6 and an
overlap of 3, the text `0000 0 0` has one match, its last three characters. Its second
window begins at the fourth character, the end of the run of four zeros, and takes it for
the start of a match: it finds characters 4 to 6, counts them, goes on after them, and
loses the match that is there. The same can happen to an Aadhaar number that follows a
longer run of digits after one separator. So it is not true that every match no
longer than the overlap is counted, and what is counted too much need not begin at a cut.
What is true: from every place of the text some window sees past the overlap, and what
the detector says there is counted (`EveryStretchSearched`); and the count differs from
the matches of the whole text only where nothing that ends a match, as two separators do,
lies between the beginning of a window and the match (`DiffersOnlyInCutRuns`).

### DirectoryScan, MCDirectoryScan

`scan_directory` and `_scan_file`. `directories`, `entries`, `children` are the loop's
variables; `before`, `encoding` and `handle` those of `_scan_file`; `results` what the
generator has yielded. A path is a sequence of names; what it leads to is one of ten
kinds: nothing, a directory, a symlink, a special file, or a file that reads as UTF-8,
in cp1252 only, not at all, over a limit of its format, over the size limit,
or damaged: then a reader raises something the handler of `_scan_file` does not name
(`ReadRaises`), and the walk stops where it is (`aborted`). A file
is read in `Chunks` steps, so it may change in between; a reader of a file that was
replaced goes on with the old one. Other programs (external) rewrite files in place and
create, remove or rename over files and directories; the device may fail. Assumed: every
change shows in size or modification time (the code can see no other), and nothing
becomes a symlink or a special file between listing and opening. The two openings of an
XLSX file are one.

### DatabaseScan

`scan_postgres` and `scan_mysql` with their `_scan_column`, one module with `engine` for
the differences. `clock` is the time since the scan began: a call takes any time its
limit allows, and `Late` is looked at where the code does (before a column, before a
row). `session` and `transaction` are what the target holds; `pending` is the value or
exception (also one raised while a row is looked at, `RowRaises`) on its way out through the `with` and `finally` clauses, `outcome` what the
coordinator gets. Drivers and target are external: the target keeps to its
statement_timeout or MAX_EXECUTION_TIME, PostgreSQL ends an idle transaction, psycopg
closes a server cursor with a statement, MySQL's rollback reads what is unread, and
mysql-connector-python refuses to close an unbuffered cursor with unread rows.

### ApiRequests, AccessContract, MCApiRequests

A request from its arrival to the return of its connection, one query a step.

| Variable | Code |
|---|---|
| `pool`, `held` | the sizes of FastAPI's threads (40) and of the engine's pool (`db/session.py` 13: 5 and 10 more), who holds a connection |
| `accounts`, `active` | rows of `users`, those with `is_active` |
| `sessions` | `auth_sessions`: user, `created_at`, `expires_at`, `revoked_at` set or not |
| `audit` | `audit_events`: which action of which request |
| `kind`, `token`, `pc`, `answer` | the route, the session its token names, where the request is, what the client gets |
| `seen`, `who`, `began` | what the queries found, the time of the login's transaction |
| `cpc` | each run of `create-admin` |
| `clock` | the program's clock; the database's is at most `Skew` ahead |
| `late`, `fit` | history: was the session good when the request was sent, and when its row was read |

`Start` takes a thread and looks at `exp` before any query (`decode_access_token`);
`Checkout` and `PoolTimeout` are the first query of a session and the first after a
commit, which reloads expired attributes (`refresh`, then `Reload`); in the submit loop
of a batch that timeout is caught (`SubmitTimeout`) and a failed job committed before the
answer (`RecordSubmitFailure`); `ReadSession` and
`ReadUser` are the two queries of `get_current_user`, `FindUser`, `InvalidCredentials`
and `Login` are the login, `Logout` and `LogoutRefused` the logout, `CreateBatch` and
`CreateBatchRefused` stand for a scan route (what it stores, and why it refuses, is the
business of `ScanLifecycle`), `Resume` for the
second hop of a request: dependency and handler run in the thread pool one after the
other, and the request may have to wait for a thread in between with its connection in
hand. `Close` ends the session. `AskLock` to `Invalid` are `bootstrap_admin`: the lock,
the count, the hash, the insert. Reading `users` keeps a lock until the commit, so that
`Lock` waits for readers and readers wait for `Lock`. External: the scheduling of
FastAPI's threads, SQLAlchemy's QueuePool and its timeout, the table locks of PostgreSQL,
time, and the administrator who switches an account off.

Left out: hashes and signatures (right or wrong is a choice), the renewal of an old hash
at login, a further hop that serialises the response (it waits for a thread as `Resume`
does, with its commit behind it), the coordinator's connections, the roles of an account.

`AccessContract` is what this implements: a session is good from its login until it is
over, for good; a request is let in in one step, while its session is good; only who was
let in writes, and at most once. The code has no such step: `fit` is the moment of the
first query, and the refinement shows that the second query never lets in somebody whose
session was not good then.

## 3. Runs

| Run | Bounds | Shows |
|---|---|---|
| `lifecycle` | 2 requests, batches of up to 2, 2 targets (one directory, one database), 1 thread, 1 unit, late exceptions | `AnswerIsTrue`, `SecretsConfined`, `OneActivePerTarget` |
| `faults` | 2 requests, batches of 1, 2 threads, 3 units with one identity, 1 crash, 2 faults, unknown commits | `TypeOK`, `NoStrandedJob`, `WritesRespectChecks`, `InventoryMatchesTotals`, `FailedIsFinal`, `ExclusiveScan` |
| `contract` | 1 request, batches of up to 2, 2 threads, 1 crash, 2 faults, fair | `ImplementsContract`, `JobsEnd`, `SecretsGo`, `JobsMoveForward`, `BatchesMoveForward` |
| `batch_commit` | 3 requests, 3 targets, batches of up to 2, fair | `ImplementsAdmission`, `SomeoneIsAdmitted`, `SingleIsNeverAborted`, `EveryRequestAnswered` |
| `detector` | window 6, overlap 3, a pattern of 2 digits with an optional separator between them, 2 digits and the separator as characters, 3 chunks of up to 4, texts of up to 9 | `BufferIsWindow`, `EveryStretchSearched`, `DiffersOnlyInCutRuns`, `UnitsAreExact`, `ChunksDoNotMatter` |
| `directory` | 4 paths in 3 directories, 9 kinds, files of 2 reads, 2 changes or errors, fair | `EachPathOnce`, `StableMeansOneVersion`, `NothingOverlooked`, `WalksByName`, `InOrder`, `OnlyDamageStopsTheWalk` |
| `database_scan` | both engines, 2 columns of up to 3 rows, batches of 2, 7 units of time, fair | `WholeColumns`, `SuccessIsComplete`, `StopsInTime`, `NothingLeftOpen`, `ScanEnds` |
| `api_requests` | 2 requests, 2 runs of `create-admin`, 1 thread and 1 connection, 2 and 1, or 2 and 2, lifetime 2, skew 1, clock up to 2, 1 late `create-admin`, fair | `OneAdministrator`, `LateRequestsDoNothing`, `AuditIsTrue`, `LogoutWorks`, `ImplementsAccess`, `EveryoneIsAnswered` |
| `late_exclusive`, `counted_once`, `conflict_code`, `timeout_code` | small | the four disagreements of section 5 |

Why these bounds are enough. Two requests and two threads are what a conflict needs; two
targets give one job with credentials and one without; batches of two give a sibling to
strand and a repeated target. No run has all of them at once: that is beyond TLC in
reasonable time, and each property runs where its own hazard is complete (exclusion of
threads with two threads and two requests, siblings with batches of two). One crash
suffices because recovery leaves no active row, so a second crash starts from a state of
the same kind. Two faults let a commit and the write of its failure both be lost. Two
units with one identity are the smallest clash; progress reaches its cap with one, and a
third would show that the cap is missing. Nine characters are two full windows of the
detector and a rest, with a match of the longest form in any place of them. Three transactions are the smallest cycle
of waits that is not a pair. Two directories side by side, with one entry each, show the
order of the walk; two changes let a file be replaced and changed again during one
reading, or a directory between its listing and its visit. Three rows are a full batch
and a rest. Time is scaled: one unit is the 5 seconds that limit a
connection, a statement (6 for a socket of MySQL) and an idle transaction, and a store
may take two; the deadline of 60 seconds is 7 units, enough for connecting and discovery
(`TimeAssumption`) with one column to spare. `StopsInTime` is exact: it fails when its bound is one unit less.

In `api_requests` two requests on one session, or a login and a logout, are every pair
that can meet; two runs of `create-admin` are what the table lock is for; with one thread
and one connection each request meets a full pool, with two of each two requests
interleave freely, and with two threads and one connection a request that has committed
finds its connection taken. A session expires at 2, so that it can expire before, between and
after the queries of a request; a skew of 1 makes the constraint on `revoked_at` bite.
`PoolAssumption` (no more connections than threads) is what the code has, 15 and 40. It
matters: with one thread and two connections TLC finds a run of `create-admin` that waits
for a reader of `users`, which waits for a thread, which is taken by a request that waits
for the lock, for ever; with the code's numbers the pool's timeout ends it.

Two properties say more than their names. `SomeoneIsAdmitted` allows that nobody is
admitted when a batch that repeats a target is told of a conflict: with batches of three,
<t1, t1>, <t1, t2> and <t2, t1, t1> can end with the second the victim of a deadlock with
the third, and the other two refused for their own repetitions. What it excludes is that
all are victims, or that a conflict is told which is not a repetition. `InOrder` compares any two results at the first name in which their paths
differ. It holds while the tree changes, where `WalksByName`, which says in full what is
reported, has to assume that nothing does.

Symmetry of requests and of threads is used in runs without liveness. Deadlock is not
checked: when every client has its answer and every job has ended, the system rests.

Fairness. Handlers and workers are threads the system schedules (weak fairness); scans
are assumed to end; a dead process is started again by its supervisor. Clients, crashes
and faults owe nothing, so no liveness property depends on a request being sent, or on a
step going wrong. In `BatchCommit` the database schedules transactions and its deadlock
detector. A scanner's thread is scheduled too (`WF` of the whole scan in `DirectoryScan` and
`DatabaseScan`); other programs owe nothing. In `ApiRequests` the handling of each request
and the database's side of each `create-admin` are fair; clients, time and
administrators owe nothing. What is not true without it: a directory
scan has no deadline of its own, so `JobsEnd` relies on a finite tree whose device
answers; and the time limits of a PostgreSQL statement are the target's alone.

## 4. Proofs

`ScanLifecycleProofs`, for all values of the constants (`TargetsAssumption`,
`BoundsAssumption`, `ProgressAssumption`):

- `TypeCorrect`: `Spec => []TypeOK`.
- `TargetsHaveOneActiveJob`: `Spec => []OneActivePerTarget`. The property alone is not
  inductive: a batch's targets must not change once stored, and a job that a thread
  starts must have been active. `RowInv` adds that a stored job belongs to a stored batch
  and that whatever the handler, the queue or a thread holds is stored; a start that
  would revive a terminal row is refused by `RowOK`, because `finished_at` is set.
- `ScansAreExclusive`: without `LateRaises`, `Spec => []ExclusiveScan`. The rows alone do
  not give it; `PlaceInv` adds `OnePlace` (a job is in one place only: still to submit,
  once in the queue, or with one thread), `StatusFits` (its row is pending until its
  thread starts it and running while it is scanned) and `DownHoldsNothing`. Two threads
  that scan then have different jobs, both active, and `OneActivePerTarget` does the rest.
  The run `late_exclusive` shows that the hypothesis is needed.

`ScanRecordsProofs` builds on these, from `~LateRaises` except where noted: a job that was
failed and still runs writes where nobody expects it. Under the constants of
`late_exclusive` TLC refutes each of the four properties that are proved from it.

- `ChecksAreRespected` (`WritesRespectChecks`), `FailuresAreFinal` (`FailedIsFinal`):
  `LifeInv` adds to `PlaceInv` that a thread about to write a failure has an active row,
  or a commit that raised was applied; `RowsGood` says what a row of each status looks like.
- `JobsOnlyMoveForward` (`JobsMoveForward`), also under `~UnknownCommits`: a completed job
  whose commit raised is overwritten as failed.
- `BatchesOnlyMoveForward` (`BatchesMoveForward`), with the same two provisos: the status
  of a batch is derived from the set of its jobs' statuses, each of which only moves
  forward, and a batch is stored whole.
- `TotalsMatch` (`InventoryMatchesTotals`), without any proviso: `CountInv`.

`ScanHoldingProofs` proves what late exceptions do not break, without that hypothesis:

- `JobsAreTakenOnce`: `OneHolder` is what is left of `OnePlace` when `submit` raises after
  it has queued: no job is with two threads, twice in the queue, or in the queue and with
  a thread, and the submit loop still has it to submit only while it handles that
  exception. Its row may by then be terminal; that it is stored is `RowInv`.
- `SecretsStayConfined` (`SecretsConfined`): `HandlersFit` says what place and answer of a
  handler tell of its rows; `SecretsFit` that the registry holds the databases in hand and
  the one that is being registered or taken back. A late exception takes the registration
  back, so that the thread of that job may find none: then its row is the loop's to fail,
  is failed, or could not be (`AnsweredFor`).
- `NoJobIsStranded` (`NoStrandedJob`): `NoneStranded` says that an active row is to
  submit, queued, or with a thread that is not yet cleaning up, or given up.
- `AnswersAreTrue` (`AnswerIsTrue`) follows from the same invariants.
- `ContractIsKept`: `Spec => Contract!SafeSpec`, under `~LateRaises` and
  `~UnknownCommits`. `GivenUp` adds that whoever could not record a failure has let go of
  the job.

`BatchCommitProofs` (`BatchAssumption`, `RequestsAssumption`): `EntriesInv` says that the entries of open
transactions differ from each other and from the stored ones. It gives `CommitsAreAtomic`
(`ImplementsAdmission`) and, with a transaction that has inserted nothing waited for by
nobody, `SinglesAreNeverAborted` (`SingleIsNeverAborted`). `ContentionAdmitsSomeone`
(`SomeoneIsAdmitted`) needs `Unadmitted`: as long as nobody is admitted, the index has no
committed entry, so that a conflict can only be a repetition, and somebody is still open
or was told of one, because a victim leaves behind the transaction it waited for.

`ApiRequestsProofs` (`NamesAssumption`, `PoolAssumption`, `ClockAssumption`): `Inv` joins
`TypeOK`, `AdminInv` (the lock excludes; who hashes has counted none), `PlaceInv` (what
each place of a request implies of audit and answer), `RowsInv` (revoked if and only if a
logout is on record) and `FitInv` (past the check, the session was good when it was read).
From it: `RequestTypes` (`TypeOK`), `OneAdministratorAlways` (`OneAdministrator`),
`LateRequestsNever` (`LateRequestsDoNothing`), `AuditStaysTrue` (`AuditIsTrue`),
`AccessIsGuarded` (`ImplementsAccess`); with `ClockInv`, which bounds the distance of the
two clocks, `LogoutWorksAlways` (`LogoutWorks`).

`DatabaseScanProofs` (`TimeAssumption`, `BoundAssumption`): `ReadInv` says how far a
column has been read at each place, `ResultInv` what the scan is going to say, `ClockInv`
how much time each place may find used up. From them `ColumnsAreWhole` (`WholeColumns`),
`SuccessMeansAll` (`SuccessIsComplete`), `OverrunIsBounded` (`StopsInTime`) and
`ConnectionsAreClosed` (`NothingLeftOpen`).

`WindowedDetectorProofs` (`WindowAssumption`, `DetectorAssumption`, `TextAssumption`), for
every detector:
`WindowInv` says where buffer and rest of the chunk lie in the text, that after a cut the
buffer never has less than the overlap, and that each of its characters has its segment:
`BufferStaysWindow` (`BufferIsWindow`).

- `StretchesAreSearched` (`EveryStretchSearched`): `SearchedInv` says that each place before
  the buffer has been seen by a window that goes on for the overlap and one character,
  because a window leaves to the next one what begins in its last part, as long as the
  overlap. `SpansInv` and `CountInv` add that no window counts what another has counted.
- `UnitsAreCounted` (`UnitsAreExact`): `OriginInv` says that the chunks of successive
  characters never go back and that a segment tells the chunk of each character in it;
  `UnitsInv` that `last_unit` is the greatest unit counted. A unit that differs from the
  one before is then a new one (lemma `Climbs`), so that comparing with the last suffices.
- `CountsAreOfTheText` (`ChunksDoNotMatter`): `WindowsInv` says that what has been found is
  what the windows at multiples of the cutoff hold, a function of the text alone.

`DirectoryScanProofs` (`PathsAssumption`, `ScanBounds`), for trees of any shape and depth
and any number of changes:

- `PathsAreReportedOnce` (`EachPathOnce`): the results alone do not give it. `Placed` adds
  that the paths still to come (on the stack, among the entries, among the children kept)
  are all apart, none below another, and that nothing reported is below one of them.
- `StableFilesHaveOneVersion` (`StableMeansOneVersion`): `FileVersions` says that all that
  was read, and the open file, lie between the version of the first stat and the one now
  at the path. Versions never go back, so that when the second stat finds the version of
  the first, every character is of that one.
- `NothingIsOverlooked` (`NothingOverlooked`): `ToldSoFar` says that whatever stayed as it
  was and is not ahead of the walk has been reported for what it is; `ListingHolds` and
  `ReadingHolds` say that what the walk has learnt of an undisturbed path still holds, and
  `Placed` that it is not told twice.
- `ReportsKeepOrder` (`InOrder`): `Queued` compares everything reported, listed, kept and
  stacked by one order, in which a path counts as an entry or, when it is still to be
  opened, as what is inside it: results follow it, everything still to come is after
  them, the entries and children rise, and the stack rises to its top, which is where the
  reversal of the children is needed.
- `WalkIsByName` (`WalksByName`) joins the two. `Untroubled` adds that, as long as nothing
  has changed, whatever waits or is reported lies where the walk leads, so that the
  results have exactly the lines the recursive walk `Walk` has. That this function exists,
  and that its lines are those and rise in the same order (`Ordered`), is shown depth by
  depth; two sequences with the same members in one order are equal (`OneOrder`). The
  prover has no induction over data: the steps over depths and lengths rest on sets of
  naturals, of which every one that is not empty has a least member (`Least`,
  `AllNaturals`).

Every invariant and every action property of the passing runs but one is proved. Only
model-checked are the liveness properties `JobsEnd`, `SecretsGo`, `EveryRequestAnswered`,
`OnlyDamageStopsTheWalk`, `ScanEnds` and `EveryoneIsAnswered`, and of `ImplementsContract`
the fairness of `JobContract`: temporal reasoning under fairness is outside the prover.
`DiffersOnlyInCutRuns` is model-checked too: what `finditer` finds is defined by recursion
along the text, and the prover has no induction over that.

## 5. Where code and documents disagree

- `late_exclusive`: an executor that raises after it queued lets two threads scan one target.
- `counted_once`: a match across the cut of two windows is counted again from the middle,
  and the matches that follow it in the same run can be shifted or lost.
- `conflict_code`: cross-ordered batches deadlock in the index; one client gets 500, not 409.
- `timeout_code`: a MySQL scan that meets its deadline in the middle of a column closes
  its cursor with rows unread; the driver raises there, and the scan reports
  target_scan_failed in place of target_timeout. A test with a cursor that closes
  silently asserts the timeout. On PostgreSQL the same can happen when the target has
  ended the session meanwhile.
- A damaged file stops a walk: `Docs/build-plan.md:146` asks a scan to "continue through
  recoverable file errors", and the handler at `engine/scanners/directory.py` 345-352 does
  not name what some readers raise (KeyError for a workbook without its parts, ParseError,
  zlib.error, RuntimeError for an encrypted archive); the handler at 386 takes OSError only.
  The job fails and the rest of the tree is not looked at. In `directory` this is the one
  way a walk does not get to its end (`OnlyDamageStopsTheWalk`); it has no run of its own.

## 6. Done, and not modelled

Written in this order: `ScanLifecycle`, `JobContract`, `BatchCommit` and `Admission`,
`WindowedDetector`, `DirectoryScan`, `DatabaseScan`, `ApiRequests` and `AccessContract`,
and the proofs of each.

Not modelled, and why:

- What each detector recognises and with what confidence, and the choice between
  overlapping types (`_merge_candidates`): they are functions of one window. What windows
  do to them holds for every such function, and one pattern is checked in full.
- TLS and the allow-lists of targets: stateless preflight, one Boolean here.
- `api/schemas.py`, and the wording in `api/errors.py`: stateless validation; the limit
  that matters, the size of a batch, is a constant.
- The migration creates the tables once; constraints are modelled from `db/models.py`.
- Tables for evaluations, reports and remediation, and `engine/assessment/rules.v1.json`:
  no code reads or writes them yet.
- The frontend is a page without state that calls nothing.
- A second process beside the first: the code is documented as single-process
  (`jobs/coordinator.py` 29), and a start follows the death of the last process here.
- A target that vanishes without closing its connection: the time limit of a statement is
  the target's own, and the operating system's limit is not in the code.
