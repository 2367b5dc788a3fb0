-------------------------- MODULE BatchCommitProofs --------------------------
(***************************************************************************)
(* Proofs about BatchCommit, for every number of requests and targets and  *)
(* every size of batch: it implements Admission, a request for one target  *)
(* is never the victim of a deadlock, and contention does not refuse       *)
(* everyone.                                                               *)
(***************************************************************************)
EXTENDS BatchCommit, TLAPS

TypeInv ==
    /\ plan \in [Requests -> Batches]
    /\ answer \in [Requests -> {"none", "202", "409", "500"}]
    /\ active \subseteq Requests \X Targets
    /\ inserted \in [Requests -> Nat]
    /\ \A r \in Requests : inserted[r] <= Len(plan[r])

\* The entries an open transaction has made are its own: different from each
\* other, from those of every other transaction and from the committed ones.
EntriesInv ==
    /\ \A r \in Requests : ~Open(r) => inserted[r] = 0
    /\ \A r \in Requests : \A i, k \in 1..inserted[r] : i # k => plan[r][i] # plan[r][k]
    /\ \A r, q \in Requests : r # q => Entries(r) \cap Entries(q) = {}
    /\ \A r, q \in Requests : \A t \in Entries(r) : <<q, t>> \notin active

Inv == TypeInv /\ EntriesInv

\* A batch is a sequence of targets, one at least.
LEMMA BatchIsSequence ==
    ASSUME NEW b \in Batches
    PROVE  /\ b \in Seq(Targets)
           /\ Len(b) \in Nat /\ Len(b) > 0
           /\ DOMAIN b = 1..Len(b)
           /\ \A i \in 1..Len(b) : b[i] \in Targets
<1>1. PICK n \in 1..MaxBatch : b \in [1..n -> Targets]
  BY DEF Batches
<1>2. n \in Nat /\ n > 0
  BY BatchAssumption
<1>3. b \in Seq(Targets)
  BY <1>1, <1>2
<1>4. Len(b) = n
  BY <1>1, <1>2, <1>3
<1> QED
  BY <1>1, <1>2, <1>3, <1>4

\* The first transactions are open and have inserted nothing.
LEMMA InitInv == Init => Inv
<1> SUFFICES ASSUME Init PROVE Inv
  OBVIOUS
<1>1. TypeInv
  BY BatchIsSequence DEF Init, TypeInv
<1>2. EntriesInv
  BY DEF Init, EntriesInv, Entries, Open
<1> QED
  BY <1>1, <1>2 DEF Inv

\* What a transaction that ends leaves behind: no entry of its own.
LEMMA EndInv ==
    ASSUME Inv, NEW r \in Requests, NEW code \in {"202", "409", "500"}, End(r, code),
           active' \subseteq active \cup ({r} \X Entries(r))
    PROVE  Inv'
<1>1. /\ plan' = plan
      /\ inserted' = [inserted EXCEPT ![r] = 0]
      /\ answer' = [answer EXCEPT ![r] = code]
  BY DEF End
<1>2. \A q \in Requests : Entries(q)' = IF q = r THEN {} ELSE Entries(q)
  <2> TAKE q \in Requests
  <2>1. CASE q = r
    <3>1. inserted'[q] = 0
      BY <1>1, <2>1 DEF Inv, TypeInv
    <3>2. 1..0 = {}
      OBVIOUS
    <3> QED
      BY <1>1, <2>1, <3>1, <3>2 DEF Entries
  <2>2. CASE q # r
    BY <1>1, <2>2 DEF Entries, Inv, TypeInv
  <2> QED
    BY <2>1, <2>2
<1>3. \A t \in Entries(r) : t \in Targets
  BY BatchIsSequence DEF Entries, Inv, TypeInv
<1>4. TypeInv'
  BY <1>1, <1>3, BatchIsSequence DEF Inv, TypeInv
<1>5. \A q \in Requests : \A i, k \in 1..inserted'[q] : i # k => plan'[q][i] # plan'[q][k]
  BY <1>1 DEF Inv, TypeInv, EntriesInv
<1>6. \A q \in Requests : ~Open(q)' => inserted'[q] = 0
  BY <1>1 DEF Inv, TypeInv, EntriesInv, Open
<1>7. \A p, q \in Requests : p # q => Entries(p)' \cap Entries(q)' = {}
  BY <1>2 DEF Inv, EntriesInv
<1>8. \A p, q \in Requests : \A t \in Entries(p)' : <<q, t>> \notin active'
  <2> SUFFICES ASSUME NEW p \in Requests, NEW q \in Requests, NEW t \in Entries(p)',
                      <<q, t>> \in active'
               PROVE  FALSE
    OBVIOUS
  <2>1. p # r /\ t \in Entries(p)
    BY <1>2
  <2>2. t \notin Entries(r)
    BY <2>1 DEF Inv, EntriesInv
  <2>3. <<q, t>> \in active
    BY <2>2
  <2> QED
    BY <2>1, <2>3 DEF Inv, EntriesInv
<1> QED
  BY <1>4, <1>5, <1>6, <1>7, <1>8 DEF Inv, EntriesInv

\* A row goes in only when no other transaction, no committed row and no earlier
\* row of the batch has its target.
LEMMA InsertRowInv ==
    ASSUME Inv, NEW r \in Requests, InsertRow(r)
    PROVE  Inv'
<1>1. /\ plan' = plan /\ answer' = answer /\ active' = active
      /\ inserted' = [inserted EXCEPT ![r] = inserted[r] + 1]
      /\ inserted[r] < Len(plan[r])
  BY DEF InsertRow, Inserts
<1> DEFINE t == plan[r][inserted[r] + 1]
<1>2. t = NextRow(r)
  BY DEF NextRow
<1>3. t \notin Entries(r) /\ \A q \in Requests : <<q, t>> \notin active
  BY <1>2 DEF InsertRow, Occupied
<1>4. \A q \in Requests : q # r => t \notin Entries(q)
  <2> SUFFICES ASSUME NEW q \in Requests, q # r, t \in Entries(q) PROVE FALSE
    OBVIOUS
  <2>1. ~WaitsFor(r, q)
    BY DEF InsertRow
  <2>2. ~Open(q)
    BY <2>1, <1>2 DEF WaitsFor, InsertRow
  <2>3. inserted[q] = 0
    BY <2>2 DEF Inv, EntriesInv
  <2> QED
    BY <2>3 DEF Entries
<1>5. inserted[r] \in Nat /\ inserted'[r] = inserted[r] + 1
  BY <1>1 DEF Inv, TypeInv
<1>6. \A q \in Requests : q # r => inserted'[q] = inserted[q]
  BY <1>1 DEF Inv, TypeInv
<1>7. Entries(r)' = Entries(r) \cup {t}
  <2>1. 1..inserted'[r] = (1..inserted[r]) \cup {inserted[r] + 1}
    BY <1>5
  <2> QED
    BY <1>1, <2>1 DEF Entries
<1>8. \A q \in Requests : q # r => Entries(q)' = Entries(q)
  BY <1>1, <1>6 DEF Entries
<1>9. TypeInv'
  BY <1>1, <1>5, <1>6, BatchIsSequence DEF Inv, TypeInv
<1>10. \A q \in Requests : ~Open(q)' => inserted'[q] = 0
  BY <1>1, <1>6 DEF Inv, EntriesInv, Open, InsertRow, Inserts
<1>11. \A q \in Requests : \A i, k \in 1..inserted'[q] : i # k => plan'[q][i] # plan'[q][k]
  <2> SUFFICES ASSUME NEW q \in Requests, NEW i \in 1..inserted'[q], NEW k \in 1..inserted'[q],
                      i # k, plan[q][i] = plan[q][k]
               PROVE  FALSE
    BY <1>1
  <2>1. q = r
    BY <1>6 DEF Inv, EntriesInv
  <2>2. i = inserted[r] + 1 \/ k = inserted[r] + 1
    BY <1>5, <2>1 DEF Inv, EntriesInv
  <2>3. t \in Entries(r)
    BY <1>5, <2>1, <2>2 DEF Entries
  <2> QED
    BY <1>3, <2>3
<1>12. \A p, q \in Requests : p # q => Entries(p)' \cap Entries(q)' = {}
  BY <1>4, <1>7, <1>8 DEF Inv, EntriesInv
<1>13. \A p, q \in Requests : \A u \in Entries(p)' : <<q, u>> \notin active'
  BY <1>1, <1>3, <1>7, <1>8 DEF Inv, EntriesInv
<1> QED
  BY <1>9, <1>10, <1>11, <1>12, <1>13 DEF Inv, EntriesInv

\* A job that ends only takes an entry away.
LEMMA JobEndsInv ==
    ASSUME Inv, NEW r \in Requests, NEW t \in Targets, JobEnds(r, t)
    PROVE  Inv'
<1>1. /\ plan' = plan /\ answer' = answer /\ inserted' = inserted
      /\ active' \subseteq active
  BY DEF JobEnds
<1>2. \A q \in Requests : Entries(q)' = Entries(q)
  BY <1>1 DEF Entries
<1>3. TypeInv'
  BY <1>1 DEF Inv, TypeInv
<1>4. EntriesInv'
  BY <1>1, <1>2 DEF Inv, EntriesInv, Open
<1> QED
  BY <1>3, <1>4 DEF Inv

\* Every step keeps the entries apart.
LEMMA NextInv == Inv /\ [Next]_vars => Inv'
<1> SUFFICES ASSUME Inv, [Next]_vars PROVE Inv'
  OBVIOUS
<1>1. ASSUME NEW r \in Requests, InsertRow(r) PROVE Inv'
  BY <1>1, InsertRowInv
<1>2. ASSUME NEW r \in Requests, Conflict(r) PROVE Inv'
  BY <1>2, EndInv DEF Conflict
<1>3. ASSUME NEW r \in Requests, Commit(r) PROVE Inv'
  BY <1>3, EndInv DEF Commit
<1>4. ASSUME NEW r \in Requests, Victim(r) PROVE Inv'
  BY <1>4, EndInv DEF Victim
<1>5. ASSUME NEW r \in Requests, NEW t \in Targets, JobEnds(r, t) PROVE Inv'
  BY <1>5, JobEndsInv
<1>6. CASE UNCHANGED vars
  <2>1. \A q \in Requests : Entries(q)' = Entries(q)
    BY <1>6 DEF vars, Entries
  <2>2. TypeInv'
    BY <1>6 DEF vars, Inv, TypeInv
  <2>3. EntriesInv'
    BY <1>6, <2>1 DEF vars, Inv, EntriesInv, Open
  <2> QED
    BY <2>2, <2>3 DEF Inv
<1> QED
  BY <1>1, <1>2, <1>3, <1>4, <1>5, <1>6 DEF Next, Transact

\* Entries stay apart in every behaviour.
THEOREM EntriesStayApart == Spec => []Inv
BY InitInv, NextInv, PTL DEF Spec

------------------------------------------------------------------------------
(* Step by step, the transaction is an admission, a refusal or an abort.     *)

\* What has been inserted when the batch is complete is what was asked for.
LEMMA CompleteBatch ==
    ASSUME Inv, NEW r \in Requests, inserted[r] = Len(plan[r])
    PROVE  /\ Entries(r) = Atomic!Asked(plan[r])
           /\ ~Atomic!Repeats(plan[r])
           /\ \A t \in Atomic!Asked(plan[r]) : ~Atomic!ActiveTarget(t)
<1>1. DOMAIN plan[r] = 1..inserted[r]
  BY BatchIsSequence DEF Inv, TypeInv
<1>2. Entries(r) = Atomic!Asked(plan[r])
  BY <1>1 DEF Entries, Atomic!Asked
<1>3. ~Atomic!Repeats(plan[r])
  BY <1>1 DEF Inv, EntriesInv, Atomic!Repeats
<1>4. \A t \in Entries(r) : ~Atomic!ActiveTarget(t)
  BY DEF Inv, EntriesInv, Atomic!ActiveTarget
<1> QED
  BY <1>2, <1>3, <1>4

\* A conflict is one in the batch or with an active job.
LEMMA ConflictIsReal ==
    ASSUME Inv, NEW r \in Requests, Inserts(r), Occupied(r)
    PROVE  Atomic!Repeats(plan[r]) \/ \E t \in Atomic!Asked(plan[r]) : Atomic!ActiveTarget(t)
<1> DEFINE n == inserted[r] + 1
<1>1. DOMAIN plan[r] = 1..Len(plan[r]) /\ Len(plan[r]) \in Nat /\ inserted[r] \in Nat
  BY BatchIsSequence DEF Inv, TypeInv
<1>2. n \in DOMAIN plan[r] /\ NextRow(r) = plan[r][n]
  BY <1>1 DEF Inserts, NextRow
<1>3. CASE NextRow(r) \in Entries(r)
  <2>1. PICK k \in 1..inserted[r] : plan[r][k] = plan[r][n]
    BY <1>2, <1>3 DEF Entries
  <2>2. k \in DOMAIN plan[r] /\ k # n
    BY <1>1, <1>2, <2>1
  <2> QED
    BY <1>2, <2>1, <2>2 DEF Atomic!Repeats
<1>4. CASE \E q \in Requests : <<q, NextRow(r)>> \in active
  BY <1>2, <1>4 DEF Atomic!Asked, Atomic!ActiveTarget
<1> QED
  BY <1>3, <1>4 DEF Occupied

\* Every step of the transactions is a step of Admission, or nothing to it.
LEMMA StepRefines == Inv /\ [Next]_vars => [Atomic!Next]_(Atomic!admissionVars)
<1> SUFFICES ASSUME Inv, [Next]_vars
             PROVE  Atomic!Next \/ UNCHANGED Atomic!admissionVars
  OBVIOUS
<1> USE DEF Atomic!Next
<1>1. ASSUME NEW r \in Requests, InsertRow(r) PROVE UNCHANGED Atomic!admissionVars
  BY <1>1 DEF InsertRow, Atomic!admissionVars
<1>2. ASSUME NEW r \in Requests, Conflict(r) PROVE Atomic!Refuse(r)
  BY <1>2, ConflictIsReal DEF Conflict, End, Inserts, Open, Atomic!Refuse
<1>3. ASSUME NEW r \in Requests, Commit(r) PROVE Atomic!Admit(r)
  BY <1>3, CompleteBatch DEF Commit, End, Open, Atomic!Admit
<1>4. ASSUME NEW r \in Requests, Victim(r) PROVE Atomic!Abort(r)
  <2>1. answer[r] = "none"
    BY <1>4 DEF Victim, Cycle, WaitsFor, Inserts, Open
  <2> QED
    BY <1>4, <2>1 DEF Victim, End, Atomic!Abort
<1>5. ASSUME NEW r \in Requests, NEW t \in Targets, JobEnds(r, t) PROVE Atomic!End(r, t)
  BY <1>5 DEF JobEnds, Atomic!End
<1>6. CASE UNCHANGED vars
  BY <1>6 DEF vars, Atomic!admissionVars
<1> QED
  BY <1>1, <1>2, <1>3, <1>4, <1>5, <1>6 DEF Next, Transact

\* Concurrent row-by-row transactions implement admission in one step.
THEOREM CommitsAreAtomic == Spec => ImplementsAdmission
<1>1. Init => Atomic!Init
  BY DEF Init, Atomic!Init
<1> QED
  BY <1>1, EntriesStayApart, StepRefines, PTL DEF Spec, ImplementsAdmission, Atomic!Spec

------------------------------------------------------------------------------
\* A transaction that has inserted nothing is waited for by nobody, so a request
\* for one target is in no cycle, whatever the others ask for.
THEOREM SinglesAreNeverAborted == Spec => []SingleIsNeverAborted
<1>1. Init => SingleIsNeverAborted
  BY DEF Init, SingleIsNeverAborted
<1>2. Inv /\ SingleIsNeverAborted /\ [Next]_vars => SingleIsNeverAborted'
  <2> SUFFICES ASSUME Inv, SingleIsNeverAborted, [Next]_vars,
                      NEW q \in Requests, Len(plan'[q]) = 1, answer'[q] = "500"
               PROVE  FALSE
    BY DEF SingleIsNeverAborted
  <2>1. plan' = plan
    BY DEF Next, vars, Transact, InsertRow, Conflict, Commit, Victim, JobEnds, End
  <2>2. answer[q] # "500"
    BY <2>1 DEF SingleIsNeverAborted
  <2>3. answer \in [Requests -> {"none", "202", "409", "500"}]
    BY DEF Inv, TypeInv
  <2>4. Victim(q)
    BY <2>2, <2>3 DEF Next, vars, Transact, InsertRow, Conflict, Commit, Victim, JobEnds, End
  <2>5. PICK S \in SUBSET Requests : q \in S /\ Cycle(S)
    BY <2>4 DEF Victim
  <2>6. PICK p \in S : WaitsFor(q, p)
    BY <2>5 DEF Cycle
  <2>7. inserted[q] = 0
    <3>1. inserted[q] < Len(plan[q])
      BY <2>6 DEF WaitsFor, Inserts
    <3>2. inserted[q] \in Nat
      BY DEF Inv, TypeInv
    <3>3. Len(plan[q]) = 1
      BY <2>1
    <3> QED
      BY <3>1, <3>2, <3>3
  <2>8. PICK w \in S : WaitsFor(w, q)
    BY <2>5 DEF Cycle
  <2> QED
    BY <2>7, <2>8 DEF WaitsFor, Entries
<1> QED
  BY <1>1, <1>2, EntriesStayApart, PTL DEF Spec
------------------------------------------------------------------------------
(* Contention does not refuse everyone.  As long as nobody is admitted the   *)
(* index has no committed entry, so a conflict can only be one of the batch  *)
(* with itself; and a victim leaves behind the transaction it waited for.    *)

\* Until somebody is admitted: nothing is committed, a conflict is a repetition,
\* and somebody is still open or was told of such a conflict.
Unadmitted ==
    (\A r \in Requests : answer[r] # "202") =>
        /\ active = {}
        /\ \A r \in Requests : answer[r] = "409" => Atomic!Repeats(plan[r])
        /\ \E r \in Requests : Open(r) \/ answer[r] = "409"

\* A victim of a deadlock waited for another transaction, which is open.
LEMMA VictimLeavesAnother ==
    ASSUME NEW r \in Requests, Victim(r)
    PROVE  Open(r) /\ \E q \in Requests : q # r /\ Open(q)
<1>1. PICK S \in SUBSET Requests : r \in S /\ Cycle(S)
  BY DEF Victim
<1>2. PICK q \in S : WaitsFor(r, q)
  BY <1>1 DEF Cycle
<1> QED
  BY <1>1, <1>2 DEF WaitsFor, Inserts

\* Every step keeps it.
LEMMA NextUnadmitted == Inv /\ Unadmitted /\ [Next]_vars => Unadmitted'
<1> SUFFICES ASSUME Inv, Unadmitted, [Next]_vars, \A r \in Requests : answer'[r] # "202"
             PROVE  /\ active' = {}
                    /\ \A r \in Requests : answer'[r] = "409" => Atomic!Repeats(plan'[r])
                    /\ \E r \in Requests : Open(r)' \/ answer'[r] = "409"
  BY DEF Unadmitted
<1>1. answer \in [Requests -> {"none", "202", "409", "500"}] /\ inserted \in [Requests -> Nat]
  BY DEF Inv, TypeInv
<1> DEFINE Calm == \A r \in Requests : answer[r] # "202"
<1>2. Calm => /\ active = {}
              /\ \A r \in Requests : answer[r] = "409" => Atomic!Repeats(plan[r])
              /\ \E r \in Requests : Open(r) \/ answer[r] = "409"
  BY DEF Unadmitted
<1> HIDE DEF Calm
<1>3. ASSUME NEW r \in Requests, InsertRow(r) PROVE plan' = plan /\ answer' = answer /\ active' = active
  BY <1>3 DEF InsertRow
<1>4. ASSUME NEW r \in Requests, NEW code \in {"409", "500"}, End(r, code), Open(r), UNCHANGED active,
             code = "409" /\ Calm => Atomic!Repeats(plan[r]),
             code = "500" => \E q \in Requests : q # r /\ Open(q)
      PROVE  /\ active' = {}
             /\ \A q \in Requests : answer'[q] = "409" => Atomic!Repeats(plan'[q])
             /\ \E q \in Requests : Open(q)' \/ answer'[q] = "409"
  <2>1. plan' = plan /\ answer' = [answer EXCEPT ![r] = code]
    BY <1>4 DEF End
  <2>2. \A q \in Requests : answer'[q] = IF q = r THEN code ELSE answer[q]
    BY <1>1, <2>1
  <2>3. Calm
    BY <1>4, <2>2 DEF Calm, Open
  <2>4. \A q \in Requests : answer'[q] = "409" => Atomic!Repeats(plan'[q])
    BY <1>2, <1>4, <2>1, <2>2, <2>3
  <2>5. \E q \in Requests : Open(q)' \/ answer'[q] = "409"
    <3>1. CASE code = "409"
      BY <2>2, <3>1
    <3>2. CASE code = "500"
      BY <1>4, <2>2, <3>2 DEF Open
    <3> QED
      BY <3>1, <3>2
  <2> QED
    BY <1>2, <1>4, <2>3, <2>4, <2>5
<1>5. ASSUME NEW r \in Requests, Conflict(r)
      PROVE  Open(r) /\ (Calm => Atomic!Repeats(plan[r]))
  <2>1. Open(r) /\ Inserts(r) /\ Occupied(r)
    BY <1>5 DEF Conflict, Inserts
  <2>2. Calm => ~ \E t \in Atomic!Asked(plan[r]) : Atomic!ActiveTarget(t)
    BY <1>2 DEF Atomic!ActiveTarget
  <2> QED
    BY <2>1, <2>2, ConflictIsReal
<1>6. ASSUME NEW r \in Requests, Commit(r) PROVE FALSE
  BY <1>1, <1>6 DEF Commit, End
<1>7. ASSUME answer' = answer, plan' = plan, active' \subseteq active
      PROVE  /\ active' = {}
             /\ \A q \in Requests : answer'[q] = "409" => Atomic!Repeats(plan'[q])
             /\ \E q \in Requests : Open(q)' \/ answer'[q] = "409"
  <2>1. Calm
    BY <1>7 DEF Calm
  <2> QED
    BY <1>2, <1>7, <2>1 DEF Open
<1>8. CASE \E r \in Requests : InsertRow(r)
  BY <1>3, <1>7, <1>8
<1>9. CASE \E r \in Requests : Conflict(r)
  BY <1>4, <1>5, <1>9 DEF Conflict
<1>10. CASE \E r \in Requests : Victim(r)
  BY <1>4, <1>10, VictimLeavesAnother DEF Victim
<1>11. CASE \E r \in Requests, t \in Targets : JobEnds(r, t)
  BY <1>7, <1>11 DEF JobEnds
<1>12. CASE UNCHANGED vars
  BY <1>7, <1>12 DEF vars
<1> QED
  BY <1>6, <1>8, <1>9, <1>10, <1>11, <1>12 DEF Next, Transact

\* When every request has its answer, one was admitted, or all those who were
\* told of a conflict repeat a target and at least one was told so: deadlocks and
\* conflicts between batches never leave a target to nobody.
THEOREM ContentionAdmitsSomeone == Spec => []SomeoneIsAdmitted
<1>1. Init => Unadmitted
  <2> SUFFICES ASSUME Init
               PROVE  /\ active = {}
                      /\ \A r \in Requests : answer[r] # "409"
                      /\ \E r \in Requests : Open(r)
    BY DEF Unadmitted
  <2> QED
    BY RequestsAssumption DEF Init, Open
<1>2. Unadmitted => SomeoneIsAdmitted
  BY DEF Unadmitted, SomeoneIsAdmitted
<1> QED
  BY <1>1, <1>2, EntriesStayApart, NextUnadmitted, PTL DEF Spec
==============================================================================
