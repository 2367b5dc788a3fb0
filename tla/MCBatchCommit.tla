---------------------------- MODULE MCBatchCommit ----------------------------
(* Three clients and two or three targets.                                 *)
EXTENDS BatchCommit

CONSTANTS r1, r2, r3, t1, t2, t3

MCRequests == {r1, r2, r3}
MCTargets  == {t1, t2, t3}
MCTwoRequests == {r1, r2}
MCTwoTargets  == {t1, t2}
==============================================================================
