---------------------------- MODULE JobContract ----------------------------
(***************************************************************************)
(* What a client may rely on, with no handler, queue, thread or process in *)
(* sight: a batch is stored as a whole or not at all, a target has one     *)
(* active job at most, a job goes from pending over running to a terminal  *)
(* status and stays there, a restart fails whatever was active in one      *)
(* step, and every active job ends unless a failing database kept its end  *)
(* from being written; that one waits for the restart.                     *)
(***************************************************************************)
EXTENDS Naturals

CONSTANTS Requests, Targets, MaxBatch

VARIABLES
    status,     \* of every job, "absent" before it is stored
    batch,      \* the targets of every stored batch
    lost        \* active jobs whose failure could not be written

jobVars == <<status, batch, lost>>

Jobs      == Requests \X (1..MaxBatch)
Active    == {"pending", "running"}
Completed == {"completed", "completed_with_warnings"}
Batches   == UNION {[1..n -> Targets] : n \in 1..MaxBatch}
Busy(t)   == \E j \in Jobs : status[j] \in Active /\ batch[j[1]][j[2]] = t

Init ==
    /\ status = [j \in Jobs |-> "absent"]
    /\ batch  = [r \in Requests |-> <<>>]
    /\ lost   = {}

\* A batch is stored; the jobs outside ok failed their preflight.
Store(r, b, ok) ==
    /\ batch[r] = <<>>
    /\ \A i \in ok : ~Busy(b[i])
    /\ \A i, k \in ok : i # k => b[i] # b[k]
    /\ batch'  = [batch EXCEPT ![r] = b]
    /\ status' = [j \in Jobs |->
                    IF j[1] = r /\ j[2] \in DOMAIN b
                    THEN IF j[2] \in ok THEN "pending" ELSE "failed"
                    ELSE status[j]]
    /\ UNCHANGED lost

Start(j) ==
    /\ status[j] = "pending" /\ j \notin lost
    /\ status' = [status EXCEPT ![j] = "running"]
    /\ UNCHANGED <<batch, lost>>

Complete(j) ==
    /\ status[j] = "running" /\ j \notin lost
    /\ \E s \in Completed : status' = [status EXCEPT ![j] = s]
    /\ UNCHANGED <<batch, lost>>

Fail(j) ==
    /\ status[j] \in Active /\ j \notin lost
    /\ status' = [status EXCEPT ![j] = "failed"]
    /\ UNCHANGED <<batch, lost>>

\* The error handling of some active jobs fails as well.
Lose(S) ==
    /\ S # {} /\ \A j \in S : status[j] \in Active /\ j \notin lost
    /\ lost' = lost \cup S
    /\ UNCHANGED <<status, batch>>

Restart ==
    /\ status' = [j \in Jobs |-> IF status[j] \in Active THEN "failed" ELSE status[j]]
    /\ lost' = {}
    /\ UNCHANGED batch

End(j) == Complete(j) \/ Fail(j)

Next ==
    \/ \E r \in Requests, b \in Batches : \E ok \in SUBSET DOMAIN b : Store(r, b, ok)
    \/ \E j \in Jobs : Start(j) \/ End(j)
    \/ \E S \in SUBSET Jobs : Lose(S)
    \/ Restart

SafeSpec == Init /\ [][Next]_jobVars
Spec     == SafeSpec /\ \A j \in Jobs : WF_jobVars(End(j))
==============================================================================
