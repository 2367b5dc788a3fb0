---------------------------- MODULE AccessContract ----------------------------
(***************************************************************************)
(* What a session promises, with no thread, connection, query or clock in  *)
(* sight: it is good from a login on until it is over, for good; a request *)
(* is admitted in one step, at a moment when its session is good; only an  *)
(* admitted request writes, once, and its logout ends the session.         *)
(***************************************************************************)
CONSTANTS Requests, Sessions

VARIABLES
    standing,   \* of every session: "none", "good" or "over"
    token,      \* the session a request names
    admitted,   \* requests that were let in
    wrote       \* requests that have written

accessVars == <<standing, token, admitted, wrote>>

Init ==
    /\ standing \in [Sessions -> {"none", "good"}]
    /\ token \in [Requests -> Sessions]
    /\ admitted = {}
    /\ wrote = {}

\* A login is stored; its account may have been switched off meanwhile.
Issue(s) ==
    /\ standing[s] = "none"
    /\ \E as \in {"good", "over"} : standing' = [standing EXCEPT ![s] = as]
    /\ UNCHANGED <<token, admitted, wrote>>

\* Sessions expire, or their account is switched off.
Lapse(S) ==
    /\ S # {} /\ \A s \in S : standing[s] = "good"
    /\ standing' = [s \in Sessions |-> IF s \in S THEN "over" ELSE standing[s]]
    /\ UNCHANGED <<token, admitted, wrote>>

Name(r, s) ==
    /\ r \notin admitted
    /\ token' = [token EXCEPT ![r] = s]
    /\ UNCHANGED <<standing, admitted, wrote>>

Admit(r) ==
    /\ r \notin admitted /\ standing[token[r]] = "good"
    /\ admitted' = admitted \cup {r}
    /\ UNCHANGED <<standing, token, wrote>>

Write(r) ==
    /\ r \in admitted \ wrote
    /\ wrote' = wrote \cup {r}
    /\ UNCHANGED <<standing, token, admitted>>

LogOut(r) ==
    /\ r \in admitted \ wrote
    /\ wrote' = wrote \cup {r}
    /\ standing' = [standing EXCEPT ![token[r]] = "over"]
    /\ UNCHANGED <<token, admitted>>

Next ==
    \/ \E s \in Sessions : Issue(s)
    \/ \E S \in SUBSET Sessions : Lapse(S)
    \/ \E r \in Requests : \/ \E s \in Sessions : Name(r, s)
                           \/ Admit(r) \/ Write(r) \/ LogOut(r)

Spec == Init /\ [][Next]_accessVars
==============================================================================
