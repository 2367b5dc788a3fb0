------------------------------ MODULE Admission ------------------------------
(***************************************************************************)
(* What create_batch promises about concurrent requests: each batch is     *)
(* stored in one step and only while all its targets are free, or refused  *)
(* in one step because one of them is not.                                 *)
(***************************************************************************)
CONSTANTS Requests, Targets, Batches

VARIABLES
    plan,       \* the targets each request asks for, in order
    answer,     \* "none", "202", "409" or "500"
    active      \* <<request, target>> of every active job

admissionVars == <<plan, answer, active>>

Asked(b)       == {b[i] : i \in DOMAIN b}
Repeats(b)     == \E i, k \in DOMAIN b : i # k /\ b[i] = b[k]
ActiveTarget(t) == \E r \in Requests : <<r, t>> \in active

Init ==
    /\ plan \in [Requests -> Batches]
    /\ answer = [r \in Requests |-> "none"]
    /\ active = {}

Admit(r) ==
    /\ answer[r] = "none"
    /\ ~Repeats(plan[r]) /\ \A t \in Asked(plan[r]) : ~ActiveTarget(t)
    /\ active' = active \cup ({r} \X Asked(plan[r]))
    /\ answer' = [answer EXCEPT ![r] = "202"]
    /\ UNCHANGED plan

Refuse(r) ==
    /\ answer[r] = "none"
    /\ Repeats(plan[r]) \/ \E t \in Asked(plan[r]) : ActiveTarget(t)
    /\ answer' = [answer EXCEPT ![r] = "409"]
    /\ UNCHANGED <<plan, active>>

\* The database gave up on the transaction; nothing was stored.
Abort(r) ==
    /\ answer[r] = "none"
    /\ answer' = [answer EXCEPT ![r] = "500"]
    /\ UNCHANGED <<plan, active>>

\* A job reaches a terminal status and frees its target.
End(r, t) ==
    /\ <<r, t>> \in active
    /\ active' = active \ {<<r, t>>}
    /\ UNCHANGED <<plan, answer>>

Next == \E r \in Requests : \/ Admit(r) \/ Refuse(r) \/ Abort(r)
                            \/ \E t \in Targets : End(r, t)

Spec == Init /\ [][Next]_admissionVars
==============================================================================
