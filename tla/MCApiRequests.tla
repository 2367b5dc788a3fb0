---------------------------- MODULE MCApiRequests ----------------------------
(***************************************************************************)
(* Two requests and two runs of create-admin, with one thread and one      *)
(* connection, which one request can use up, two of each, with which two   *)
(* requests interleave freely, or two threads that share one connection.   *)
(***************************************************************************)
EXTENDS ApiRequests

CONSTANTS r1, r2, c1, c2

MCRequests == {r1, r2}
MCConsoles == {c1, c2}
MCPools    == {[threads |-> 1, connections |-> 1], [threads |-> 2, connections |-> 1],
               [threads |-> 2, connections |-> 2]}
==============================================================================
