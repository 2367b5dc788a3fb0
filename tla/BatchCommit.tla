----------------------------- MODULE BatchCommit -----------------------------
(***************************************************************************)
(* The transaction of _create_batch row by row.  PostgreSQL inserts the    *)
(* rows of a batch in its order and enters each into the partial unique    *)
(* index uq_scan_jobs_active_target: a committed entry is a conflict at    *)
(* once, an entry of another open transaction makes the insert wait for    *)
(* that transaction, and a cycle of waits ends with one victim.            *)
(***************************************************************************)
EXTENDS Naturals, Sequences, FiniteSets

CONSTANTS
    Requests, Targets,
    MaxBatch        \* bound: targets of one batch

ASSUME BatchAssumption == MaxBatch \in Nat \ {0}
ASSUME RequestsAssumption == Requests # {}

VARIABLES
    plan,           \* the targets of each request's batch, in order
    answer,         \* what the client was told
    active,         \* committed index entries <<request, target>>
    inserted        \* rows an open transaction has inserted so far

vars == <<plan, answer, active, inserted>>

Batches == UNION {[1..n -> Targets] : n \in 1..MaxBatch}

Init ==
    /\ plan \in [Requests -> Batches]
    /\ answer = [r \in Requests |-> "none"]
    /\ active = {}
    /\ inserted = [r \in Requests |-> 0]

Open(r)    == answer[r] = "none"
Entries(r) == {plan[r][i] : i \in 1..inserted[r]}
Inserts(r) == Open(r) /\ inserted[r] < Len(plan[r])
NextRow(r) == plan[r][inserted[r] + 1]

\* r waits for q to end.
WaitsFor(r, q) == r # q /\ Inserts(r) /\ Open(q) /\ NextRow(r) \in Entries(q)

\* The index holds the target already: for a committed active row, or for an
\* earlier row of the same batch.
Occupied(r) ==
    \/ NextRow(r) \in Entries(r)
    \/ \E q \in Requests : <<q, NextRow(r)>> \in active

End(r, code) ==
    /\ answer' = [answer EXCEPT ![r] = code]
    /\ inserted' = [inserted EXCEPT ![r] = 0]
    /\ UNCHANGED plan

MutInsertRowNoWait(r) ==
    /\ Inserts(r) /\ ~Occupied(r)
    /\ inserted' = [inserted EXCEPT ![r] = @ + 1]
    /\ UNCHANGED <<plan, answer, active>>

InsertRow(r) ==
    /\ Inserts(r) /\ ~Occupied(r)
    /\ \A q \in Requests : ~WaitsFor(r, q)
    /\ inserted' = [inserted EXCEPT ![r] = @ + 1]
    /\ UNCHANGED <<plan, answer, active>>

MutConflictKeepsRows(r) ==
    /\ Inserts(r) /\ Occupied(r)
    /\ active' = active \cup ({r} \X Entries(r))
    /\ End(r, "409")

\* IntegrityError: rollback and 409.
Conflict(r) ==
    /\ Inserts(r) /\ Occupied(r)
    /\ End(r, "409")
    /\ UNCHANGED active

Commit(r) ==
    /\ Open(r) /\ inserted[r] = Len(plan[r])
    /\ active' = active \cup ({r} \X Entries(r))
    /\ End(r, "202")

MutCycleOfTwo(S) ==
    /\ Cardinality(S) = 2
    /\ \A r \in S : \E q \in S : WaitsFor(r, q)

\* Every member of S waits for a member of S and is waited for by one.
Cycle(S) ==
    /\ \A r \in S : \E q \in S : WaitsFor(r, q)
    /\ \A r \in S : \E q \in S : WaitsFor(q, r)

MutVictim(r) ==
    /\ \E q \in Requests : WaitsFor(r, q) \/ WaitsFor(q, r)
    /\ End(r, "500")
    /\ UNCHANGED active

\* deadlock detected: an OperationalError, which no handler turns into a 409.
Victim(r) ==
    /\ \E S \in SUBSET Requests : r \in S /\ Cycle(S)
    /\ End(r, "500")
    /\ UNCHANGED active

\* A worker's terminal commit takes a job's row out of the partial index.
JobEnds(r, t) ==
    /\ <<r, t>> \in active
    /\ active' = active \ {<<r, t>>}
    /\ UNCHANGED <<plan, answer, inserted>>

Transact(r) == InsertRow(r) \/ Conflict(r) \/ Commit(r) \/ Victim(r)

Next == \E r \in Requests : \/ Transact(r)
                            \/ \E t \in Targets : JobEnds(r, t)

Spec == Init /\ [][Next]_vars

\* The database schedules every transaction and its deadlock detector.
FairSpec == Spec /\ \A r \in Requests : WF_vars(Transact(r))

------------------------------------------------------------------------------
\* Concurrent batches behave as if each were stored or refused in one step:
\* ScanLifecycle may take the commit of _create_batch as one action.
Atomic == INSTANCE Admission
ImplementsAdmission == Atomic!Spec

\* Contention cannot refuse everyone: once all have their answer, somebody was
\* admitted, unless those told of a conflict have only themselves to blame (each
\* repeats a target) and they are not all victims of deadlocks.
SomeoneIsAdmitted ==
    (\A r \in Requests : ~Open(r)) =>
        \/ \E r \in Requests : answer[r] = "202"
        \/ /\ \E r \in Requests : answer[r] = "409"
           /\ \A r \in Requests : answer[r] = "409" => Atomic!Repeats(plan[r])

\* A request for a single target is never the victim of a deadlock: the routes
\* under /scans answer 202 or 409.
SingleIsNeverAborted ==
    \A r \in Requests : Len(plan[r]) = 1 => answer[r] # "500"

\* Every request is answered: waits end.
EveryRequestAnswered == \A r \in Requests : <>(~Open(r))

\* Docs/build-plan.md:456: a duplicate active fingerprint returns a stable
\* conflict code.
ConflictCodeIsStable == \A r \in Requests : answer[r] \in {"none", "202", "409"}
==============================================================================
