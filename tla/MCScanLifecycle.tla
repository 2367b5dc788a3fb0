-------------------------- MODULE MCScanLifecycle --------------------------
(***************************************************************************)
(* Small instances of ScanLifecycle for TLC: one directory and one or two  *)
(* databases, two threads as in the code, and a progress scale short       *)
(* enough for the cap to be reached.                                       *)
(***************************************************************************)
EXTENDS ScanRequirements, TLC

CONSTANTS r1, r2, w1, w2, dir, db, u1, u2, u3

MCRequests    == {r1, r2}
MCOneRequest  == {r1}
MCWorkers     == {w1, w2}
MCOneWorker   == {w1}
MCTargets     == {dir, db}
MCDbTargets   == {db}
MCOneUnit     == {u1}
MCThreeUnits  == {u1, u2, u3}

\* Tables "a.b"."c" and "a"."b.c" are both stored as "a.b.c".
MCSameIdentity == [u \in MCThreeUnits |-> IF u = u3 THEN u3 ELSE u1]
MCOwnIdentity  == [u \in MCThreeUnits |-> u]

MCRequestSymmetry == Permutations({r1, r2})
MCSymmetry        == MCRequestSymmetry \cup Permutations({w1, w2})
==============================================================================
