-------------------------- MODULE ApiRequestsProofs --------------------------
(***************************************************************************)
(* Proofs about ApiRequests, for every number of requests, threads,        *)
(* connections and runs of create-admin, every TTL and every skew of the   *)
(* clocks that is shorter.                                                 *)
(***************************************************************************)
EXTENDS ApiRequests, FiniteSetTheorems, TLAPS

Authed(r) == kind[r] \in {"logout", "scan"}

\* Places before the commit of a request, and before its session row is read.
BeforeCommit == {"new", "queued", "checkout", "credentials", "session", "user",
                 "verified", "checked", "endpoint"}
BeforeRead   == {"new", "queued", "checkout", "credentials", "session", "verified"}

\* The table lock excludes, and whoever hashes a password has found no user.
AdminInv ==
    /\ \A c, d \in Consoles :
          cpc[c] \in {"locked", "hashing"} /\ cpc[d] \in {"locked", "hashing"} => c = d
    /\ \A c \in Consoles : cpc[c] = "hashing" => accounts = {}
    /\ accounts = {} \/ \E a \in Accounts : accounts = {a}

\* Something on record of what a request did.
Recorded(r) == \E e \in audit : e[2] = r

\* Where a request is, what it is about and what it has done.
Place(r) ==
    /\ pc[r] = "new" <=> kind[r] = "none"
    /\ pc[r] \in {"credentials", "verified"} => kind[r] = "login"
    /\ pc[r] \in {"session", "user", "checked", "endpoint"} => Authed(r)
    /\ Authed(r) => Stored(token[r])
    /\ pc[r] \notin {"closing", "done"} => answer[r] = "none"
    /\ pc[r] \in BeforeCommit => ~Recorded(r)
    /\ pc[r] \in Committed => Recorded(r)
    /\ answer[r] \in {"401", "409", "422"} => ~Recorded(r)
    /\ answer[r] = "ok" => Recorded(r)

PlaceInv == \A r \in Requests : Place(r)

\* The rows, and the audit trail of how they came to be.
RowsInv ==
    /\ \A s \in Sessions :
        /\ Stored(s) => sessions[s].user \in accounts
        /\ ~Stored(s) => ~sessions[s].revoked
        /\ sessions[s].revoked <=>
              \E r \in Requests : token[r] = s /\ <<"auth.logout", r>> \in audit
    /\ \A r \in Requests :
        /\ pc[r] = "verified" => who[r] \in accounts
        /\ Stored(r) <=> <<"auth.login", r>> \in audit

\* A token that was good when the session row was read is what lets a request
\* in, and one that was not good when the request was sent never is again.
Fit(r) ==
    /\ late[r] => Authed(r) /\ ~Good(token[r]) /\ ~fit[r]
    /\ pc[r] \in BeforeRead => ~fit[r]
    /\ pc[r] = "user" /\ Passes(r) => fit[r]
    /\ pc[r] \in {"checked", "endpoint"} => fit[r]
    /\ Wrote(r) => fit[r]
    /\ pc[r] \in Committed => kind[r] = "login" \/ fit[r]
    /\ answer[r] = "ok" => kind[r] = "login" \/ fit[r]

FitInv == \A r \in Requests : Fit(r)

Inv == TypeOK /\ AdminInv /\ PlaceInv /\ RowsInv /\ FitInv

------------------------------------------------------------------------------
\* The state a server starts in satisfies the invariant.
LEMMA InitInv == Init => Inv
<1> SUFFICES ASSUME Init PROVE Inv
  OBVIOUS
<1> USE NamesAssumption, ClockAssumption DEF Init, Accounts, Sessions, NoSession
<1>1. TypeOK
  BY DEF TypeOK, Session, PcValues, CpcValues
<1>2. AdminInv
  BY DEF AdminInv
<1>3. PlaceInv
  BY DEF PlaceInv, Place, Authed, Recorded, Committed
<1>4. RowsInv
  BY DEF RowsInv, Stored
<1>5. FitInv
  BY DEF FitInv, Fit, Authed, Wrote, Committed
<1> QED
  BY <1>1, <1>2, <1>3, <1>4, <1>5 DEF Inv

\* Steps of a request that leave rows, clock and history as they are.
Quiet(r) ==
    \/ Start(r) \/ Checkout(r) \/ PoolTimeout(r) \/ InvalidCredentials(r)
    \/ ReadUser(r) \/ Resume(r) \/ LogoutRefused(r) \/ Reload(r) \/ Close(r)
    \/ SubmitTimeout(r) \/ CreateBatchRefused(r) \/ RecordSubmitFailure(r)

\* Types are kept.
LEMMA TypeStep == TypeOK /\ [Next]_vars => TypeOK'
<1> SUFFICES ASSUME TypeOK, [Next]_vars PROVE TypeOK'
  OBVIOUS
<1> USE ClockAssumption DEF TypeOK, PcValues, CpcValues, OnThread, Committed, Session, tables, frame, history, Goes, Answers, Moves
<1>1. ASSUME NEW r \in Requests, Start(r) PROVE TypeOK'
  BY <1>1 DEF Start
<1>2. ASSUME NEW r \in Requests, Checkout(r) PROVE TypeOK'
  BY <1>2 DEF Checkout, Query
<1>3. ASSUME NEW r \in Requests, PoolTimeout(r) PROVE TypeOK'
  BY <1>3 DEF PoolTimeout
<1>4. ASSUME NEW r \in Requests, InvalidCredentials(r) PROVE TypeOK'
  BY <1>4 DEF InvalidCredentials
<1>5. ASSUME NEW r \in Requests, ReadUser(r) PROVE TypeOK'
  BY <1>5 DEF ReadUser
<1>6. ASSUME NEW r \in Requests, Resume(r) PROVE TypeOK'
  BY <1>6 DEF Resume
<1>7. ASSUME NEW r \in Requests, LogoutRefused(r) PROVE TypeOK'
  BY <1>7 DEF LogoutRefused
<1>8. ASSUME NEW r \in Requests, Reload(r) PROVE TypeOK'
  BY <1>8 DEF Reload
<1>9. ASSUME NEW r \in Requests, Close(r) PROVE TypeOK'
  BY <1>9 DEF Close, Accounts
<1>10. ASSUME NEW r \in Requests, NEW a \in Accounts, FindUser(r, a) PROVE TypeOK'
  BY <1>10 DEF FindUser
<1>11. ASSUME NEW r \in Requests, Login(r) PROVE TypeOK'
  BY <1>11 DEF Login, Commits, Sessions
<1>12. ASSUME NEW r \in Requests, ReadSession(r) PROVE TypeOK'
  BY <1>12 DEF ReadSession, Good, Stored, Expired
<1>13. ASSUME NEW r \in Requests, CreateBatch(r) PROVE TypeOK'
  BY <1>13 DEF CreateBatch, Commits
<1>14. ASSUME NEW r \in Requests, Logout(r) PROVE TypeOK'
  <2>1. PICK s \in Sessions : s = token[r]
    OBVIOUS
  <2>2. [sessions[s] EXCEPT !.revoked = TRUE] \in Session
    <3>1. sessions[s] \in [user : Accounts, created : Nat, expires : Nat, revoked : BOOLEAN]
      OBVIOUS
    <3> QED
      BY <3>1
  <2>3. sessions' \in [Sessions -> Session]
    BY <1>14, <2>1, <2>2 DEF Logout
  <2> QED
    BY <1>14, <2>3 DEF Logout, Commits
<1>15. ASSUME NEW r \in Requests, NEW k \in {"login", "logout", "scan"}, NEW s \in Sessions,
              Send(r, k, s)
       PROVE  TypeOK'
  BY <1>15 DEF Send, Good, Stored, Expired
<1>16. ASSUME NEW c \in Consoles, AskLock(c) \/ Lock(c) \/ CountUsers(c) \/ Invalid(c)
       PROVE  TypeOK'
  BY <1>16 DEF AskLock, Lock, CountUsers, Invalid
<1>17. ASSUME NEW c \in Consoles, CreateAdmin(c) PROVE TypeOK'
  BY <1>17 DEF CreateAdmin, Accounts
<1>18. CASE Tick
  BY <1>18 DEF Tick
<1>19. ASSUME NEW a \in Accounts, Deactivate(a) PROVE TypeOK'
  BY <1>19 DEF Deactivate
<1>20. CASE UNCHANGED vars
  BY <1>20 DEF vars
<1>21. ASSUME NEW r \in Requests, SubmitTimeout(r) PROVE TypeOK'
  BY <1>21 DEF SubmitTimeout
<1>22. ASSUME NEW r \in Requests, CreateBatchRefused(r) PROVE TypeOK'
  BY <1>22 DEF CreateBatchRefused
<1>23. ASSUME NEW r \in Requests, RecordSubmitFailure(r) PROVE TypeOK'
  BY <1>23 DEF RecordSubmitFailure
<1> QED
  BY <1>1, <1>2, <1>3, <1>4, <1>5, <1>6, <1>7, <1>8, <1>9, <1>10, <1>11, <1>12, <1>13,
     <1>14, <1>15, <1>16, <1>17, <1>18, <1>19, <1>20, <1>21, <1>22, <1>23 DEF Next, Handle, Bootstrap

\* The lock keeps two runs of create-admin apart.
LEMMA AdminStep == TypeOK /\ AdminInv /\ [Next]_vars => AdminInv'
<1> SUFFICES ASSUME TypeOK, AdminInv, [Next]_vars PROVE AdminInv'
  OBVIOUS
<1>1. ASSUME NEW c \in Consoles, Lock(c) PROVE AdminInv'
  BY <1>1 DEF Lock, Moves, AdminInv, TypeOK, tables
<1>2. ASSUME NEW c \in Consoles, AskLock(c) \/ CountUsers(c) \/ Invalid(c) PROVE AdminInv'
  BY <1>2 DEF AskLock, CountUsers, Invalid, Moves, AdminInv, TypeOK, tables
<1>3. ASSUME NEW c \in Consoles, CreateAdmin(c) PROVE AdminInv'
  <2>1. accounts = {} /\ accounts' = {c} /\ c \in Accounts
    BY <1>3 DEF CreateAdmin, AdminInv, Accounts
  <2>2. \A d \in Consoles : cpc'[d] = IF d = c THEN "created" ELSE cpc[d]
    BY <1>3 DEF CreateAdmin, Moves, TypeOK
  <2>3. ASSUME NEW d \in Consoles, d # c PROVE cpc[d] \notin {"locked", "hashing"}
    BY <1>3, <2>3 DEF CreateAdmin, AdminInv
  <2>4. \A d \in Consoles : cpc'[d] \notin {"locked", "hashing"}
    BY <2>2, <2>3
  <2> QED
    BY <2>1, <2>4 DEF AdminInv
<1>4. CASE UNCHANGED <<accounts, cpc>>
  BY <1>4 DEF AdminInv
<1>5. ASSUME NEW r \in Requests, \/ Handle(r)
                                 \/ \E k \in {"login", "logout", "scan"}, s \in Sessions : Send(r, k, s)
      PROVE  UNCHANGED <<accounts, cpc>>
  BY <1>5 DEF Handle, Start, Checkout, Query, PoolTimeout, SubmitTimeout,
              CreateBatchRefused, RecordSubmitFailure, InvalidCredentials, FindUser, Login,
              ReadSession, ReadUser, Resume, CreateBatch, Logout, LogoutRefused, Reload,
              Close, Send, tables
<1>6. ASSUME Tick \/ \E a \in Accounts : Deactivate(a) PROVE UNCHANGED <<accounts, cpc>>
  BY <1>6 DEF Tick, Deactivate, tables
<1> QED
  BY <1>1, <1>2, <1>3, <1>4, <1>5, <1>6 DEF Next, Bootstrap, vars, tables

\* What is over stays over: a stored session keeps its user and its expiry, is
\* never reinstated, its user never switched on, and time does not go back.
Onward ==
    /\ clock' >= clock
    /\ \A s \in Sessions : Stored(s) =>
          /\ Stored(s)'
          /\ sessions'[s].user = sessions[s].user
          /\ sessions'[s].expires = sessions[s].expires
          /\ sessions[s].revoked => sessions'[s].revoked
          /\ sessions[s].user \in active' => sessions[s].user \in active

LEMMA NextOnward == Inv /\ [Next]_vars => Onward
<1> SUFFICES ASSUME Inv, [Next]_vars PROVE Onward
  OBVIOUS
<1>0. clock \in Nat /\ sessions \in [Sessions -> Session]
  BY DEF Inv, TypeOK
<1>1. CASE UNCHANGED <<sessions, active>> /\ clock' >= clock
  BY <1>1 DEF Onward, Stored
<1>2. ASSUME NEW r \in Requests, Login(r) PROVE Onward
  <2>1. ~Stored(r)
    BY <1>2 DEF Login, Inv, PlaceInv, Place, RowsInv, BeforeCommit, Recorded
  <2> QED
    BY <1>0, <1>2, <2>1 DEF Login, Onward, Stored
<1>3. ASSUME NEW r \in Requests, Logout(r) PROVE Onward
  BY <1>0, <1>3 DEF Logout, Onward, Stored, Session, Inv, TypeOK
<1>4. ASSUME NEW c \in Consoles, CreateAdmin(c) PROVE Onward
  <2>1. \A s \in Sessions : ~Stored(s)
    BY <1>4 DEF CreateAdmin, Inv, AdminInv, RowsInv
  <2> QED
    BY <1>0, <1>4, <2>1 DEF CreateAdmin, Onward
<1>5. ASSUME NEW a \in Accounts, Deactivate(a) PROVE Onward
  BY <1>0, <1>5 DEF Deactivate, Onward, Stored
<1>6. ASSUME Tick PROVE UNCHANGED <<sessions, active>> /\ clock' >= clock
  BY <1>0, <1>6 DEF Tick, tables
<1>7. ASSUME NEW r \in Requests, \/ Quiet(r) \/ ReadSession(r) \/ CreateBatch(r)
                                 \/ \E a \in Accounts : FindUser(r, a)
                                 \/ \E k \in {"login", "logout", "scan"}, s \in Sessions : Send(r, k, s)
      PROVE  UNCHANGED <<sessions, active, clock>>
  BY <1>7 DEF Quiet, Start, Checkout, Query, PoolTimeout, SubmitTimeout,
              CreateBatchRefused, RecordSubmitFailure, InvalidCredentials, FindUser, ReadSession,
              ReadUser, Resume, CreateBatch, LogoutRefused, Reload, Close, Send, tables
<1>8. ASSUME NEW c \in Consoles, AskLock(c) \/ Lock(c) \/ CountUsers(c) \/ Invalid(c)
      PROVE  UNCHANGED <<sessions, active, clock>>
  BY <1>8 DEF AskLock, Lock, CountUsers, Invalid, tables
<1> QED
  BY <1>0, <1>1, <1>2, <1>3, <1>4, <1>5, <1>6, <1>7, <1>8 DEF Next, Handle, Quiet, Bootstrap, vars, tables

------------------------------------------------------------------------------
\* What a step of another request leaves alone.
LEMMA PlaceKept ==
    ASSUME Inv, Onward, NEW q \in Requests,
           pc'[q] = pc[q], kind'[q] = kind[q], token'[q] = token[q], answer'[q] = answer[q],
           Recorded(q)' <=> Recorded(q)
    PROVE  Place(q)'
<1>1. token[q] \in Sessions
  BY DEF Inv, TypeOK
<1> QED
  BY <1>1 DEF Inv, PlaceInv, Place, Authed, Onward

\* A commit puts its own request on record.
LEMMA CommitsRecord ==
    ASSUME NEW r \in Requests, NEW action, Commits(r, action)
    PROVE  \A q \in Requests : Recorded(q)' <=> Recorded(q) \/ q = r
<1>1. audit' = audit \cup {<<action, r>>}
  BY DEF Commits
<1>2. \A q \in Requests : (\E e \in audit' : e[2] = q) <=> (\E e \in audit : e[2] = q) \/ q = r
  <2>1. <<action, r>>[2] = r
    OBVIOUS
  <2> QED
    BY <1>1, <2>1
<1> QED
  BY <1>2 DEF Recorded

\* Places, answers and records stay in step.
LEMMA PlaceStep == Inv /\ Onward /\ [Next]_vars => PlaceInv'
<1> SUFFICES ASSUME Inv, Onward, [Next]_vars, NEW q \in Requests PROVE Place(q)'
  BY DEF PlaceInv
<1>0. /\ Place(q) /\ token[q] \in Sessions
      /\ pc \in [Requests -> PcValues] /\ kind \in [Requests -> {"none", "login", "logout", "scan"}]
      /\ token \in [Requests -> Sessions]
      /\ answer \in [Requests -> {"none", "ok", "401", "409", "422", "500"}]
  BY DEF Inv, PlaceInv, TypeOK
<1>1. CASE UNCHANGED <<pc, kind, token, answer, audit>>
  <2>1. Recorded(q)' <=> Recorded(q)
    BY <1>1 DEF Recorded
  <2> QED
    BY <1>1, <2>1, PlaceKept
<1>2. ASSUME NEW r \in Requests,
             \/ Quiet(r) \/ ReadSession(r) \/ \E a \in Accounts : FindUser(r, a)
             \/ \E k \in {"login", "logout", "scan"}, s \in Sessions : Send(r, k, s)
      PROVE  Place(q)'
  <2>1. audit' = audit
    BY <1>2 DEF Quiet, Start, Checkout, Query, PoolTimeout, SubmitTimeout,
              CreateBatchRefused, RecordSubmitFailure, InvalidCredentials, FindUser, ReadSession,
                ReadUser, Resume, LogoutRefused, Reload, Close, Send, tables
  <2>2. Recorded(q)' <=> Recorded(q)
    BY <2>1 DEF Recorded
  <2>3. CASE q # r
    <3>1. pc'[q] = pc[q] /\ kind'[q] = kind[q] /\ token'[q] = token[q] /\ answer'[q] = answer[q]
      BY <1>0, <1>2, <2>3 DEF Quiet, Start, Checkout, Query, PoolTimeout, SubmitTimeout,
              CreateBatchRefused, RecordSubmitFailure, InvalidCredentials, FindUser,
            ReadSession, ReadUser, Resume, LogoutRefused, Reload, Close, Send, frame, Goes, Answers
    <3> QED
      BY <3>1, <2>2, PlaceKept
  <2>4. CASE q = r
    <3> USE <1>0, <2>2, <2>4 DEF Place, Authed, BeforeCommit, Committed, Goes, Answers, frame, tables
    <3>1. CASE Quiet(r)
      <4>1. kind'[q] = kind[q] /\ token'[q] = token[q] /\ (Stored(token[q]) => Stored(token[q])')
        BY <3>1 DEF Onward, Quiet, Start, Checkout, Query, PoolTimeout, SubmitTimeout,
              CreateBatchRefused, RecordSubmitFailure, InvalidCredentials, ReadUser,
              Resume, LogoutRefused, Reload, Close
      <4>2. CASE Start(r) \/ Checkout(r) \/ PoolTimeout(r)
        BY <4>1, <4>2 DEF Start, Checkout, Query, Wanting, PoolTimeout
      <4>3. CASE InvalidCredentials(r) \/ ReadUser(r) \/ Resume(r)
        BY <4>1, <4>3 DEF InvalidCredentials, ReadUser, Resume
      <4>4. CASE LogoutRefused(r) \/ Reload(r) \/ Close(r)
        BY <4>1, <4>4 DEF LogoutRefused, Reload, Close
      <4>5. CASE SubmitTimeout(r) \/ CreateBatchRefused(r) \/ RecordSubmitFailure(r)
        BY <4>1, <4>5 DEF SubmitTimeout, CreateBatchRefused, RecordSubmitFailure
      <4> QED
        BY <3>1, <4>2, <4>3, <4>4, <4>5 DEF Quiet
    <3>2. CASE ReadSession(r)
      BY <3>2 DEF ReadSession, Onward
    <3>3. CASE \E a \in Accounts : FindUser(r, a)
      BY <3>3 DEF FindUser, Onward
    <3>4. ASSUME NEW k \in {"login", "logout", "scan"}, NEW s \in Sessions, Send(r, k, s)
          PROVE  Place(q)'
      <4>1. k # "login" => Stored(s)'
        BY <3>4 DEF Send, Issued, Stored
      <4> QED
        BY <3>4, <4>1 DEF Send
    <3> QED
      BY <1>2, <3>1, <3>2, <3>3, <3>4
  <2> QED
    BY <2>3, <2>4
<1>3. ASSUME NEW r \in Requests, Login(r) \/ CreateBatch(r) \/ Logout(r)
      PROVE  Place(q)'
  <2>1. Recorded(q)' <=> Recorded(q) \/ q = r
    BY <1>3, CommitsRecord DEF Login, CreateBatch, Logout
  <2>2. CASE q # r
    <3>1. pc'[q] = pc[q] /\ kind'[q] = kind[q] /\ token'[q] = token[q] /\ answer'[q] = answer[q]
      BY <1>0, <1>3, <2>2 DEF Login, CreateBatch, Logout, frame, Goes, Answers
    <3> QED
      BY <2>1, <2>2, <3>1, PlaceKept
  <2>3. CASE q = r
    BY <1>0, <1>3, <2>1, <2>3 DEF Login, CreateBatch, Logout, frame, Goes, Answers, Place,
        Authed, BeforeCommit, Committed, Onward
  <2> QED
    BY <2>2, <2>3
<1>4. ASSUME \/ \E c \in Consoles : AskLock(c) \/ Bootstrap(c)
             \/ Tick \/ \E a \in Accounts : Deactivate(a)
      PROVE  UNCHANGED <<pc, kind, token, answer, audit>>
  BY <1>4 DEF AskLock, Bootstrap, Lock, CountUsers, CreateAdmin, Invalid, Tick, Deactivate,
              tables, frame
<1> QED
  BY <1>1, <1>2, <1>3, <1>4 DEF Next, Handle, Quiet, vars, tables, frame

\* What a request would leave behind, it has not left while it is not on record.
LEMMA NotOnRecord ==
    ASSUME NEW r \in Requests, ~Recorded(r), NEW action
    PROVE  <<action, r>> \notin audit
<1>1. <<action, r>>[2] = r
  OBVIOUS
<1> QED
  BY <1>1 DEF Recorded

\* Each row is there because of the event that is on record, and no other is.
LEMMA RowsStep == Inv /\ [Next]_vars => RowsInv'
<1> SUFFICES ASSUME Inv, [Next]_vars PROVE RowsInv'
  OBVIOUS
<1>0. /\ RowsInv /\ sessions \in [Sessions -> Session] /\ token \in [Requests -> Sessions]
      /\ pc \in [Requests -> PcValues] /\ who \in [Requests -> Accounts]
      /\ active \subseteq accounts /\ clock \in Nat /\ TTL \in Nat /\ TTL # 0
      /\ Requests \subseteq Sessions
  BY ClockAssumption DEF Inv, TypeOK, Sessions
<1>1. CASE UNCHANGED <<sessions, token, audit, pc, who>> /\ accounts \subseteq accounts'
  BY <1>0, <1>1 DEF RowsInv, Stored
<1>2. ASSUME NEW r \in Requests, Quiet(r) \/ ReadSession(r) \/ \E a \in Accounts : FindUser(r, a)
      PROVE  RowsInv'
  <2>1. UNCHANGED <<sessions, token, audit, accounts>>
    BY <1>2 DEF Quiet, Start, Checkout, Query, PoolTimeout, SubmitTimeout,
              CreateBatchRefused, RecordSubmitFailure, InvalidCredentials, FindUser, ReadSession,
                ReadUser, Resume, LogoutRefused, Reload, Close, tables, frame
  <2>2. ASSUME NEW q \in Requests, pc'[q] = "verified" PROVE who'[q] \in accounts
    <3>1. CASE Quiet(r) \/ ReadSession(r)
      BY <1>0, <2>2, <3>1 DEF RowsInv, Quiet, Start, Checkout, Query, PoolTimeout, SubmitTimeout,
              CreateBatchRefused, RecordSubmitFailure, InvalidCredentials,
            ReadSession, ReadUser, Resume, LogoutRefused, Reload, Close, frame, Goes, Answers
    <3>2. ASSUME NEW a \in Accounts, FindUser(r, a) PROVE who'[q] \in accounts
      BY <1>0, <2>2, <3>2 DEF RowsInv, FindUser, Goes
    <3> QED
      BY <1>2, <3>1, <3>2
  <2> QED
    BY <1>0, <2>1, <2>2 DEF RowsInv, Stored
<1>3. ASSUME NEW r \in Requests, NEW k \in {"login", "logout", "scan"}, NEW s \in Sessions,
             Send(r, k, s)
      PROVE  RowsInv'
  <2>1. <<"auth.logout", r>> \notin audit
    <3>1. ~Recorded(r)
      BY <1>3 DEF Send, Inv, PlaceInv, Place, BeforeCommit
    <3> QED
      BY <3>1, NotOnRecord
  <2>2. /\ UNCHANGED <<sessions, audit, accounts, who>>
        /\ \A q \in Requests : q # r => token'[q] = token[q]
        /\ \A q \in Requests : pc'[q] = "verified" => pc[q] = "verified"
    BY <1>0, <1>3 DEF Send, Goes, tables
  <2> QED
    BY <1>0, <2>1, <2>2 DEF RowsInv, Stored
<1>4. ASSUME NEW r \in Requests, Login(r) PROVE RowsInv'
  <2>1. ~Stored(r) /\ who[r] \in accounts /\ r \in Sessions
    <3>1. ~Recorded(r) /\ pc[r] = "verified"
      BY <1>4 DEF Login, Inv, PlaceInv, Place, BeforeCommit
    <3>2. <<"auth.login", r>> \notin audit
      BY <3>1, NotOnRecord
    <3> QED
      BY <1>0, <3>1, <3>2 DEF RowsInv
  <2>2. \A q \in Requests : token[q] = r => <<"auth.logout", q>> \notin audit
    BY <1>0, <2>1 DEF RowsInv
  <2>3. /\ audit' = audit \cup {<<"auth.login", r>>} /\ UNCHANGED <<accounts, token, who>>
        /\ \A q \in Requests : pc'[q] = "verified" => pc[q] = "verified"
        /\ \A s \in Sessions : s # r => sessions'[s] = sessions[s]
        /\ sessions'[r].user = who[r] /\ ~sessions'[r].revoked /\ sessions'[r].expires # 0
    BY <1>0, <1>4, <2>1 DEF Login, Commits, Goes, frame
  <2> QED
    BY <1>0, <2>1, <2>2, <2>3 DEF RowsInv, Stored
<1>5. ASSUME NEW r \in Requests, CreateBatch(r) PROVE RowsInv'
  <2>1. /\ audit' = audit \cup {<<"batch.created", r>>}
        /\ UNCHANGED <<accounts, sessions, token, who>>
        /\ \A q \in Requests : pc'[q] = "verified" => pc[q] = "verified"
    BY <1>0, <1>5 DEF CreateBatch, Commits, Goes, frame
  <2> QED
    BY <1>0, <2>1 DEF RowsInv, Stored
<1>6. ASSUME NEW r \in Requests, Logout(r) PROVE RowsInv'
  <2>1. token[r] \in Sessions /\ Stored(token[r])
    BY <1>0, <1>6 DEF Logout, Inv, PlaceInv, Place, Authed
  <2>2. /\ audit' = audit \cup {<<"auth.logout", r>>} /\ UNCHANGED <<accounts, token, who>>
        /\ \A q \in Requests : pc'[q] = "verified" => pc[q] = "verified"
    BY <1>0, <1>6 DEF Logout, Commits, Answers, Goes, frame
  <2>3. /\ \A s \in Sessions : s # token[r] => sessions'[s] = sessions[s]
        /\ sessions'[token[r]].user = sessions[token[r]].user
        /\ sessions'[token[r]].expires = sessions[token[r]].expires
        /\ sessions'[token[r]].revoked
    BY <1>0, <1>6, <2>1 DEF Logout, Session
  <2> QED
    BY <1>0, <2>1, <2>2, <2>3 DEF RowsInv, Stored
<1>7. ASSUME \/ \E c \in Consoles : AskLock(c) \/ Bootstrap(c)
             \/ Tick \/ \E a \in Accounts : Deactivate(a)
      PROVE  UNCHANGED <<sessions, token, audit, pc, who>> /\ accounts \subseteq accounts'
  BY <1>7 DEF AskLock, Bootstrap, Lock, CountUsers, CreateAdmin, Invalid, Tick, Deactivate,
              tables, frame
<1> QED
  BY <1>1, <1>2, <1>3, <1>4, <1>5, <1>6, <1>7 DEF Next, Handle, Quiet, vars, tables, frame

\* A session that is good after a step, and was stored before, was good before.
LEMMA OnlyWorse ==
    ASSUME TypeOK, TypeOK', Onward, NEW s \in Sessions, Stored(s)
    PROVE  /\ Good(s)' => Good(s)
           /\ Expired(s) => Expired(s)'
<1>1. sessions[s].expires \in Nat /\ clock \in Nat /\ clock' \in Nat
  BY DEF TypeOK, Session
<1>2. Expired(s) => Expired(s)'
  BY <1>1 DEF Expired, Onward
<1> QED
  BY <1>1, <1>2 DEF Onward, Good, Session

\* A step of another request, of time or of an administrator takes no fitness away
\* and lends none.
LEMMA FitKept ==
    ASSUME Inv, TypeOK', Onward, NEW q \in Requests,
           pc'[q] = pc[q], kind'[q] = kind[q], token'[q] = token[q], answer'[q] = answer[q],
           seen'[q] = seen[q], late'[q] = late[q], fit'[q] = fit[q], Wrote(q)' <=> Wrote(q)
    PROVE  Fit(q)'
<1>1. /\ TypeOK /\ Fit(q) /\ token[q] \in Sessions
      /\ Authed(q) => Stored(token[q])
  BY DEF Inv, FitInv, PlaceInv, Place, TypeOK
<1>2. Authed(q) => (Good(token[q])' => Good(token[q])) /\ (Expired(token[q]) => Expired(token[q])')
  BY <1>1, OnlyWorse
<1>3. pc[q] = "user" /\ Passes(q)' => Passes(q)
  BY <1>1, <1>2 DEF Inv, PlaceInv, Place, Passes, Onward, Expired
<1>4. late[q] => Authed(q) /\ ~Good(token[q])'
  BY <1>1, <1>2 DEF Fit
<1> QED
  BY <1>1, <1>3, <1>4 DEF Fit, Authed, Good, Stored, Expired, BeforeRead, Committed

\* Only a request that was fit gets past its check and writes.
LEMMA FitStep == Inv /\ Onward /\ TypeOK' /\ [Next]_vars => FitInv'
<1> SUFFICES ASSUME Inv, Onward, TypeOK', [Next]_vars, NEW q \in Requests PROVE Fit(q)'
  BY DEF FitInv
<1>0. /\ TypeOK /\ Fit(q) /\ Place(q) /\ token[q] \in Sessions
      /\ pc \in [Requests -> PcValues] /\ kind \in [Requests -> {"none", "login", "logout", "scan"}]
      /\ token \in [Requests -> Sessions] /\ answer \in [Requests -> {"none", "ok", "401", "409", "422", "500"}]
      /\ seen \in [Requests -> BOOLEAN] /\ late \in [Requests -> BOOLEAN]
      /\ fit \in [Requests -> BOOLEAN]
  BY DEF Inv, PlaceInv, FitInv, TypeOK
<1>1. \A s \in Sessions : Stored(s) => (Good(s)' => Good(s))
  BY <1>0, OnlyWorse
<1>2. CASE UNCHANGED <<pc, kind, token, answer, seen, late, fit, audit>>
  BY <1>2, FitKept DEF Wrote
<1>3. ASSUME NEW r \in Requests, Quiet(r) PROVE Fit(q)'
  <2>1. UNCHANGED <<audit, sessions, active, clock, kind, token, late, fit>>
    BY <1>3 DEF Quiet, Start, Checkout, Query, PoolTimeout, SubmitTimeout,
              CreateBatchRefused, RecordSubmitFailure, InvalidCredentials, ReadUser, Resume,
          LogoutRefused, Reload, Close, tables, frame, history
  <2>2. Wrote(q)' <=> Wrote(q)
    BY <2>1 DEF Wrote
  <2>3. CASE q # r
    <3>1. pc'[q] = pc[q] /\ answer'[q] = answer[q] /\ seen'[q] = seen[q]
      BY <1>0, <1>3, <2>3 DEF Quiet, Start, Checkout, Query, PoolTimeout, SubmitTimeout,
              CreateBatchRefused, RecordSubmitFailure, InvalidCredentials, ReadUser,
            Resume, LogoutRefused, Reload, Close, frame, Goes, Answers
    <3> QED
      BY <2>1, <2>2, <3>1, FitKept
  <2>4. CASE q = r
    <3>1. (late[q] => Authed(q)' /\ ~Good(token[q])' /\ ~fit[q])
      BY <1>0, <2>1 DEF Fit, Authed, Good, Stored, Expired
    <3> USE <1>0, <2>1, <2>2, <2>4, <3>1 DEF Fit, Authed, BeforeRead, Committed, Goes, Answers, Place
    <3>2. CASE Start(r) \/ Checkout(r) \/ PoolTimeout(r) \/ InvalidCredentials(r)
      BY <3>2 DEF Start, Checkout, Query, Wanting, PoolTimeout, InvalidCredentials
    <3>3. CASE ReadUser(r)
      BY <3>3 DEF ReadUser
    <3>4. CASE Resume(r) \/ LogoutRefused(r) \/ Reload(r) \/ Close(r)
      BY <3>4 DEF Resume, LogoutRefused, Reload, Close
    <3>5. CASE SubmitTimeout(r) \/ CreateBatchRefused(r) \/ RecordSubmitFailure(r)
      BY <3>5 DEF SubmitTimeout, CreateBatchRefused, RecordSubmitFailure
    <3> QED
      BY <1>3, <3>2, <3>3, <3>4, <3>5 DEF Quiet
  <2> QED
    BY <2>3, <2>4
<1>4. ASSUME NEW r \in Requests, ReadSession(r) PROVE Fit(q)'
  <2>1. UNCHANGED <<audit, sessions, active, clock, kind, token, late, answer>>
    BY <1>4 DEF ReadSession, tables
  <2>2. Wrote(q)' <=> Wrote(q)
    BY <2>1 DEF Wrote
  <2>3. CASE q # r
    <3>1. pc'[q] = pc[q] /\ fit'[q] = fit[q] /\ seen'[q] = seen[q]
      BY <1>0, <1>4, <2>3 DEF ReadSession, Goes
    <3> QED
      BY <2>1, <2>2, <3>1, FitKept
  <2>4. CASE q = r
    <3>1. /\ pc[q] = "session" /\ pc'[q] = "user" /\ Authed(q) /\ fit'[q] = Good(token[q])
          /\ seen'[q] = ~sessions[token[q]].revoked
      BY <1>0, <1>4, <2>4 DEF ReadSession, Goes, Place
    <3>2. Passes(q)' => fit'[q]
      <4>1. Stored(token[q])
        BY <1>0, <3>1 DEF Place
      <4> QED
        BY <2>1, <3>1, <4>1 DEF Passes, Good, Expired
    <3>3. answer[q] = "none" /\ ~fit[q] /\ ~Wrote(q)
      BY <1>0, <3>1 DEF Place, Fit, BeforeRead
    <3>4. late[q] => Authed(q)' /\ ~Good(token[q])' /\ ~fit'[q]
      BY <1>0, <2>1, <3>1 DEF Fit, Authed, Good, Stored, Expired
    <3> QED
      BY <2>1, <2>2, <3>1, <3>2, <3>3, <3>4 DEF Fit, Authed, BeforeRead, Committed
  <2> QED
    BY <2>3, <2>4
<1>5. ASSUME NEW r \in Requests, NEW a \in Accounts, FindUser(r, a) PROVE Fit(q)'
  <2>1. UNCHANGED <<audit, sessions, active, clock, kind, token, late, fit, answer, seen>>
    BY <1>5 DEF FindUser, tables, history
  <2>2. Wrote(q)' <=> Wrote(q)
    BY <2>1 DEF Wrote
  <2>3. CASE q # r
    <3>1. pc'[q] = pc[q]
      BY <1>0, <1>5, <2>3 DEF FindUser, Goes
    <3> QED
      BY <2>1, <2>2, <3>1, FitKept
  <2>4. CASE q = r
    <3>1. pc[q] = "credentials" /\ pc'[q] = "verified"
      BY <1>0, <1>5, <2>4 DEF FindUser, Goes
    <3>2. late[q] => Authed(q)' /\ ~Good(token[q])' /\ ~fit[q]
      BY <1>0, <2>1 DEF Fit, Authed, Good, Stored, Expired
    <3> QED
      BY <1>0, <2>1, <2>2, <3>1, <3>2 DEF Fit, BeforeRead, Committed, Authed
  <2> QED
    BY <2>3, <2>4
<1>6. ASSUME NEW r \in Requests, NEW k \in {"login", "logout", "scan"}, NEW s \in Sessions,
             Send(r, k, s)
      PROVE  Fit(q)'
  <2>1. UNCHANGED <<audit, sessions, active, clock, fit, answer, seen>>
    BY <1>6 DEF Send, tables
  <2>2. Wrote(q)' <=> Wrote(q)
    BY <2>1 DEF Wrote
  <2>3. CASE q # r
    <3>1. pc'[q] = pc[q] /\ kind'[q] = kind[q] /\ token'[q] = token[q] /\ late'[q] = late[q]
      BY <1>0, <1>6, <2>3 DEF Send, Goes
    <3> QED
      BY <2>1, <2>2, <3>1, FitKept
  <2>4. CASE q = r
    <3>1. /\ pc[q] = "new" /\ pc'[q] = "queued" /\ kind'[q] = k /\ token'[q] = s
          /\ late'[q] = (k # "login" /\ ~Good(s))
      BY <1>0, <1>6, <2>4 DEF Send, Goes
    <3>2. ~fit[q] /\ answer[q] = "none" /\ ~Wrote(q)
      BY <1>0, <3>1 DEF Fit, Place, BeforeRead
    <3>3. late'[q] => Authed(q)' /\ ~Good(token[q])' /\ ~fit[q]
      BY <2>1, <3>1, <3>2 DEF Authed, Good, Stored, Expired
    <3> QED
      BY <2>1, <2>2, <3>1, <3>2, <3>3 DEF Fit, BeforeRead, Committed
  <2> QED
    BY <2>3, <2>4
<1>7. ASSUME NEW r \in Requests, Login(r) \/ CreateBatch(r) \/ Logout(r) PROVE Fit(q)'
  <2>1. UNCHANGED <<kind, token, late, fit, seen>>
    BY <1>7 DEF Login, CreateBatch, Logout, frame, history
  <2>2. CASE q # r
    <3>1. pc'[q] = pc[q] /\ answer'[q] = answer[q]
      BY <1>0, <1>7, <2>2 DEF Login, CreateBatch, Logout, Goes, Answers
    <3>2. \E action : audit' = audit \cup {<<action, r>>}
      BY <1>7 DEF Login, CreateBatch, Logout, Commits
    <3>3. Wrote(q)' <=> Wrote(q)
      BY <2>2, <3>2 DEF Wrote
    <3> QED
      BY <2>1, <3>1, <3>3, FitKept
  <2>3. CASE q = r
    <3>1. late[q] => Authed(q)' /\ ~Good(token[q])' /\ ~fit[q]
      <4> SUFFICES ASSUME late[q] PROVE Authed(q)' /\ ~Good(token[q])' /\ ~fit[q]
        OBVIOUS
      <4>1. Authed(q) /\ ~Good(token[q]) /\ ~fit[q] /\ Stored(token[q])
        BY <1>0 DEF Fit, Place
      <4>2. PICK s \in Sessions : s = token[q]
        BY <1>0
      <4>3. ~Good(s)'
        BY <1>1, <4>1, <4>2
      <4>4. ~Good(token[q])'
        BY <2>1, <4>2, <4>3 DEF Good, Stored, Expired
      <4> QED
        BY <2>1, <4>1, <4>4 DEF Authed
    <3>2. CASE Login(r)
      <4>1. /\ kind[q] = "login" /\ pc'[q] = "refresh" /\ answer'[q] = "none" 
            /\ audit' = audit \cup {<<"auth.login", q>>}
        BY <1>0, <2>3, <3>2 DEF Login, Place, Goes, Commits
      <4>2. Wrote(q)' <=> Wrote(q)
        BY <4>1 DEF Wrote
      <4> QED
        BY <1>0, <2>1, <3>1, <4>1, <4>2 DEF Fit, BeforeRead, Committed
    <3>3. CASE CreateBatch(r) \/ Logout(r)
      <4>1. fit[q] /\ pc'[q] \in {"refresh", "closing"}
        BY <1>0, <2>3, <3>3 DEF CreateBatch, Logout, Goes, Answers, Fit
      <4> QED
        BY <2>1, <3>1, <4>1 DEF Fit, BeforeRead, Committed
    <3> QED
      BY <1>7, <3>2, <3>3
  <2> QED
    BY <2>2, <2>3
<1>8. ASSUME \/ \E c \in Consoles : AskLock(c) \/ Bootstrap(c)
             \/ Tick \/ \E a \in Accounts : Deactivate(a)
      PROVE  UNCHANGED <<pc, kind, token, answer, seen, late, fit, audit>>
  BY <1>8 DEF AskLock, Bootstrap, Lock, CountUsers, CreateAdmin, Invalid, Tick, Deactivate,
              tables, frame, history
<1> QED
  BY <1>2, <1>3, <1>4, <1>5, <1>6, <1>7, <1>8 DEF Next, Handle, Quiet, vars, tables, frame, history

------------------------------------------------------------------------------
\* The invariant is inductive.
LEMMA InvStep == Inv /\ [Next]_vars => Inv'
<1> SUFFICES ASSUME Inv, [Next]_vars PROVE Inv'
  OBVIOUS
<1>1. TypeOK' /\ Onward
  BY TypeStep, NextOnward DEF Inv
<1>2. AdminInv' /\ PlaceInv' /\ RowsInv' /\ FitInv'
  BY <1>1, AdminStep, PlaceStep, RowsStep, FitStep DEF Inv
<1> QED
  BY <1>1, <1>2 DEF Inv

LEMMA InvAlways == Spec => []Inv
<1> QED
  BY InitInv, InvStep, PTL DEF Spec

------------------------------------------------------------------------------
\* Types are kept for ever.
THEOREM RequestTypes == Spec => []TypeOK
<1> QED
  BY InvAlways, PTL DEF Inv

\* However many administrators are created at once, at most one ever is: the table
\* lock of bootstrap_admin holds from the count to the insert.
THEOREM OneAdministratorAlways == Spec => []OneAdministrator
<1>1. Inv => OneAdministrator
  <2> SUFFICES ASSUME Inv PROVE OneAdministrator
    OBVIOUS
  <2>1. CASE accounts = {}
    BY <2>1, FS_EmptySet DEF OneAdministrator
  <2>2. ASSUME NEW a \in Accounts, accounts = {a} PROVE OneAdministrator
    BY <2>2, FS_Singleton DEF OneAdministrator
  <2> QED
    BY <2>1, <2>2 DEF Inv, AdminInv
<1> QED
  BY <1>1, InvAlways, PTL

\* A request that was sent after its session was revoked, expired or lost its
\* account writes nothing and is not served.
THEOREM LateRequestsNever == Spec => []LateRequestsDoNothing
<1>1. Inv => LateRequestsDoNothing
  BY DEF Inv, FitInv, Fit, LateRequestsDoNothing, Authed
<1> QED
  BY <1>1, InvAlways, PTL

\* The audit trail tells who was served and which sessions were revoked, no more
\* and no less.
THEOREM AuditStaysTrue == Spec => []AuditIsTrue
<1>1. Inv => AuditIsTrue
  BY DEF Inv, PlaceInv, Place, RowsInv, AuditIsTrue, Recorded
<1> QED
  BY <1>1, InvAlways, PTL

------------------------------------------------------------------------------
(* ApiRequests implements AccessContract.                                    *)

Standing(s) == IF Good(s) THEN "good" ELSE IF Stored(s) THEN "over" ELSE "none"
standing    == [s \in Sessions |-> Standing(s)]
admitted    == {r \in Requests : fit[r]}
wrote       == {r \in Requests : Wrote(r)}

\* A step that touches neither rows, clock, tokens, history nor records stutters.
LEMMA Stutters ==
    ASSUME UNCHANGED <<sessions, active, clock, token, fit>>, UNCHANGED wrote
    PROVE  UNCHANGED <<standing, token, admitted, wrote>>
<1>1. standing' = standing
  BY DEF standing, Standing, Good, Stored, Expired
<1>2. admitted' = admitted
  BY DEF admitted
<1> QED
  BY <1>1, <1>2

\* What commits of r do to the set of those that have written.
LEMMA Writes ==
    ASSUME NEW r \in Requests, NEW action, Commits(r, action)
    PROVE  /\ action = "auth.login" => wrote' = wrote
           /\ action \in {"batch.created", "auth.logout"} => wrote' = wrote \cup {r}
<1>1. audit' = audit \cup {<<action, r>>}
  BY DEF Commits
<1>2. action = "auth.login" => wrote' = wrote
  BY <1>1 DEF wrote, Wrote
<1>3. action \in {"batch.created", "auth.logout"} => wrote' = wrote \cup {r}
  BY <1>1 DEF wrote, Wrote
<1> QED
  BY <1>2, <1>3

\* Sessions only lapse when time passes or an account is switched off.
LEMMA Lapses ==
    ASSUME Inv, Inv', Onward, UNCHANGED <<sessions, token, fit, audit>>
    PROVE  \/ UNCHANGED <<standing, token, admitted, wrote>>
           \/ \E S \in SUBSET Sessions : Access!Lapse(S)
<1> DEFINE S == {s \in Sessions : Good(s) /\ ~Good(s)'}
<1>1. \A s \in Sessions : Stored(s) => (Good(s)' => Good(s))
  BY OnlyWorse DEF Inv
<1>2. UNCHANGED <<admitted, wrote, token>> /\ \A s \in Sessions : Stored(s)' <=> Stored(s)
  BY DEF admitted, wrote, Wrote, Stored
<1>3. \A s \in Sessions : Standing(s)' = IF s \in S THEN "over" ELSE Standing(s)
  <2> SUFFICES ASSUME NEW s \in Sessions PROVE Standing(s)' = IF s \in S THEN "over" ELSE Standing(s)
    OBVIOUS
  <2>1. (Good(s) => Stored(s)) /\ (Good(s)' => Stored(s)')
    BY DEF Good
  <2>2. CASE s \in S
    BY <1>2, <2>1, <2>2 DEF Standing
  <2>3. CASE s \notin S
    <3>1. Good(s)' <=> Good(s)
      BY <1>1, <1>2, <2>1, <2>3
    <3> QED
      BY <1>2, <2>3, <3>1 DEF Standing
  <2> QED
    BY <2>2, <2>3
<1>4. standing' = [s \in Sessions |-> IF s \in S THEN "over" ELSE standing[s]]
  BY <1>3 DEF standing
<1>5. CASE S = {}
  BY <1>2, <1>4, <1>5 DEF standing
<1>6. CASE S # {}
  <2>1. \A s \in S : standing[s] = "good"
    BY DEF standing, Standing
  <2> QED
    BY <1>2, <1>4, <1>6, <2>1 DEF Access!Lapse, standing, Standing, admitted, wrote
<1> QED
  BY <1>5, <1>6

\* Every step of a request, of a command or of the world is a step of the contract,
\* or nothing to it.
LEMMA StepRefines == Inv /\ Inv' /\ [Next]_vars => [Access!Next]_(Access!accessVars)
<1> SUFFICES ASSUME Inv, Inv', [Next]_vars
             PROVE  \/ UNCHANGED <<standing, token, admitted, wrote>>
                    \/ Access!Next
  BY DEF Access!accessVars, standing, Standing, admitted, wrote
<1> USE DEF standing, Standing, admitted, wrote
<1>0. /\ Onward /\ TypeOK /\ RowsInv
      /\ sessions \in [Sessions -> Session] /\ token \in [Requests -> Sessions]
      /\ fit \in [Requests -> BOOLEAN] /\ Requests \subseteq Sessions /\ clock \in Nat
  BY NextOnward DEF Inv, TypeOK, Sessions
<1>1. ASSUME NEW r \in Requests, Quiet(r) \/ \E a \in Accounts : FindUser(r, a)
      PROVE  UNCHANGED <<sessions, active, clock, token, fit, audit>>
  BY <1>1 DEF Quiet, Start, Checkout, Query, PoolTimeout, SubmitTimeout,
              CreateBatchRefused, RecordSubmitFailure, InvalidCredentials, FindUser, ReadUser, Resume,
              LogoutRefused, Reload, Close, tables, frame, history
<1>2. ASSUME NEW c \in Consoles, AskLock(c) \/ Lock(c) \/ CountUsers(c) \/ Invalid(c)
      PROVE  UNCHANGED <<sessions, active, clock, token, fit, audit>>
  BY <1>2 DEF AskLock, Lock, CountUsers, Invalid, tables, frame, history
<1>3. ASSUME UNCHANGED <<sessions, active, clock, token, fit, audit>>
      PROVE  UNCHANGED <<standing, token, admitted, wrote>>
  <2>1. wrote' = wrote
    BY <1>3 DEF Wrote
  <2> QED
    BY <1>3, <2>1, Stutters
<1>4. ASSUME NEW r \in Requests, NEW k \in {"login", "logout", "scan"}, NEW s \in Sessions,
             Send(r, k, s)
      PROVE  Access!Name(r, s)
  <2>1. ~fit[r]
    BY <1>4 DEF Send, Inv, FitInv, Fit, BeforeRead
  <2>2. /\ UNCHANGED <<sessions, active, clock, fit, audit>>
        /\ token' = [token EXCEPT ![r] = s]
    BY <1>4 DEF Send, tables
  <2>3. standing' = standing /\ admitted' = admitted /\ wrote' = wrote
    BY <2>2 DEF Good, Stored, Expired, Wrote
  <2> QED
    BY <2>1, <2>2, <2>3 DEF Access!Name
<1>5. ASSUME NEW r \in Requests, ReadSession(r)
      PROVE  UNCHANGED <<standing, token, admitted, wrote>> \/ Access!Admit(r)
  <2>1. /\ UNCHANGED <<sessions, active, clock, audit, token>>
        /\ fit' = [fit EXCEPT ![r] = Good(token[r])]
    BY <1>5 DEF ReadSession, tables
  <2>2. standing' = standing /\ wrote' = wrote
    BY <2>1 DEF Good, Stored, Expired, Wrote
  <2>3. ~fit[r]
    BY <1>5 DEF ReadSession, Inv, FitInv, Fit, BeforeRead
  <2>4. CASE Good(token[r])
    <3>1. admitted' = admitted \cup {r}
      BY <1>0, <2>1, <2>4
    <3> QED
      BY <1>0, <2>1, <2>2, <2>3, <2>4, <3>1 DEF Access!Admit
  <2>5. CASE ~Good(token[r])
    <3>1. admitted' = admitted
      BY <1>0, <2>1, <2>3, <2>5
    <3> QED
      BY <2>1, <2>2, <3>1
  <2> QED
    BY <2>4, <2>5
<1>6. ASSUME NEW r \in Requests, Login(r) PROVE Access!Issue(r)
  <2>1. r \in Sessions /\ ~Stored(r)
    <3>1. ~Recorded(r)
      BY <1>6 DEF Login, Inv, PlaceInv, Place, BeforeCommit
    <3>2. <<"auth.login", r>> \notin audit
      BY <3>1, NotOnRecord
    <3> QED
      BY <1>0, <3>2 DEF RowsInv
  <2>2. /\ UNCHANGED <<active, clock, token, fit>>
        /\ sessions' = [sessions EXCEPT ![r] =
              [user |-> who[r], created |-> began[r], expires |-> clock + TTL, revoked |-> FALSE]]
    BY <1>6 DEF Login, frame, history
  <2>3. wrote' = wrote
    BY <1>6, Writes DEF Login
  <2>4. Stored(r)'
    BY <2>1, <2>2, <1>0, ClockAssumption DEF Stored
  <2>5. \A s \in Sessions \ {r} : standing'[s] = standing[s]
    BY <1>0, <2>2 DEF Good, Stored, Expired
  <2>6. standing[r] = "none" /\ standing'[r] \in {"good", "over"}
    BY <2>1, <2>4 DEF Good
  <2>7. standing' = [standing EXCEPT ![r] = standing'[r]]
    BY <2>5
  <2> QED
    BY <2>2, <2>3, <2>6, <2>7 DEF Access!Issue
<1>7. ASSUME NEW r \in Requests, CreateBatch(r) PROVE Access!Write(r)
  <2>1. UNCHANGED <<sessions, active, clock, token, fit>>
    BY <1>7 DEF CreateBatch, frame, history
  <2>2. wrote' = wrote \cup {r}
    BY <1>7, Writes DEF CreateBatch
  <2>3. standing' = standing /\ admitted' = admitted
    BY <2>1 DEF Good, Stored, Expired
  <2>4. fit[r] /\ ~Wrote(r)
    <3>1. fit[r] /\ ~Recorded(r)
      BY <1>7 DEF CreateBatch, Inv, FitInv, Fit, PlaceInv, Place, BeforeCommit
    <3> QED
      BY <3>1, NotOnRecord DEF Wrote
  <2> QED
    BY <2>1, <2>2, <2>3, <2>4 DEF Access!Write
<1>8. ASSUME NEW r \in Requests, Logout(r) PROVE Access!LogOut(r)
  <2>1. /\ UNCHANGED <<active, clock, token, fit>>
        /\ sessions' = [sessions EXCEPT ![token[r]].revoked = TRUE]
    BY <1>8 DEF Logout, frame, history
  <2>2. wrote' = wrote \cup {r}
    BY <1>8, Writes DEF Logout
  <2>3. fit[r] /\ ~Wrote(r)
    <3>1. fit[r] /\ ~Recorded(r)
      BY <1>8 DEF Logout, Inv, FitInv, Fit, PlaceInv, Place, BeforeCommit
    <3> QED
      BY <3>1, NotOnRecord DEF Wrote
  <2>4. PICK s \in Sessions : s = token[r]
    BY <1>0
  <2>5. Stored(s)
    BY <1>8, <2>4 DEF Logout, Inv, PlaceInv, Place, Authed
  <2>6. sessions'[s].revoked /\ sessions'[s].expires = sessions[s].expires
    BY <1>0, <2>1, <2>4 DEF Session
  <2>7. standing'[s] = "over"
    BY <2>5, <2>6 DEF Good, Stored
  <2>8. \A t \in Sessions \ {s} : standing'[t] = standing[t]
    BY <1>0, <2>1, <2>4 DEF Good, Stored, Expired
  <2>9. standing' = [standing EXCEPT ![token[r]] = "over"]
    BY <2>4, <2>7, <2>8
  <2> QED
    BY <2>1, <2>2, <2>3, <2>9 DEF Access!LogOut
<1>9. ASSUME NEW c \in Consoles, CreateAdmin(c)
      PROVE  UNCHANGED <<standing, token, admitted, wrote>>
  <2>1. \A s \in Sessions : ~Stored(s)
    BY <1>9 DEF CreateAdmin, Inv, AdminInv, RowsInv
  <2>2. UNCHANGED <<sessions, token, fit, audit>>
    BY <1>9 DEF CreateAdmin, frame, history
  <2>3. \A s \in Sessions : ~Stored(s)'
    BY <2>1, <2>2 DEF Stored
  <2>4. standing' = standing
    BY <2>1, <2>3 DEF Good
  <2> QED
    BY <2>2, <2>4 DEF Wrote
<1>10. ASSUME Tick \/ \E a \in Accounts : Deactivate(a)
       PROVE  \/ UNCHANGED <<standing, token, admitted, wrote>>
              \/ \E S \in SUBSET Sessions : Access!Lapse(S)
  <2>1. UNCHANGED <<sessions, token, fit, audit>>
    BY <1>10 DEF Tick, Deactivate, tables, frame, history
  <2> QED
    BY <1>0, <2>1, Lapses
<1>11. CASE UNCHANGED vars
  BY <1>11, <1>3 DEF vars, tables, frame, history
<1>12. ASSUME NEW r \in Requests, Handle(r)
       PROVE  UNCHANGED <<standing, token, admitted, wrote>> \/ Access!Next
  <2>1. CASE Quiet(r) \/ \E a \in Accounts : FindUser(r, a)
    BY <2>1, <1>1, <1>3
  <2>2. CASE ReadSession(r)
    BY <2>2, <1>5 DEF Access!Next
  <2>3. CASE Login(r)
    BY <2>3, <1>0, <1>6 DEF Access!Next
  <2>4. CASE CreateBatch(r)
    BY <2>4, <1>7 DEF Access!Next
  <2>5. CASE Logout(r)
    BY <2>5, <1>8 DEF Access!Next
  <2> QED
    BY <1>12, <2>1, <2>2, <2>3, <2>4, <2>5 DEF Handle, Quiet
<1>13. ASSUME NEW c \in Consoles, AskLock(c) \/ Bootstrap(c)
       PROVE  UNCHANGED <<standing, token, admitted, wrote>>
  <2>1. CASE CreateAdmin(c)
    BY <2>1, <1>9
  <2>2. CASE AskLock(c) \/ Lock(c) \/ CountUsers(c) \/ Invalid(c)
    BY <2>2, <1>2, <1>3
  <2> QED
    BY <1>13, <2>1, <2>2 DEF Bootstrap
<1>14. ASSUME NEW r \in Requests, NEW k \in {"login", "logout", "scan"}, NEW s \in Sessions,
              Send(r, k, s)
       PROVE  Access!Next
  BY <1>14, <1>4 DEF Access!Next
<1>15. ASSUME Tick \/ \E a \in Accounts : Deactivate(a)
       PROVE  UNCHANGED <<standing, token, admitted, wrote>> \/ Access!Next
  BY <1>15, <1>10 DEF Access!Next
<1> HIDE DEF standing, Standing, admitted, wrote
<1> QED
  BY <1>11, <1>12, <1>13, <1>14, <1>15 DEF Next

\* Whatever a request writes, it was let in at a moment when its session was good,
\* and no session is ever good again once it is over.
THEOREM AccessIsGuarded == Spec => ImplementsAccess
<1>1. Init => Access!Init
  BY NamesAssumption, ClockAssumption DEF Init, Access!Init, Good, Stored, Expired, Wrote,
     Sessions, NoSession
<1> QED
  BY <1>1, InvAlways, StepRefines, PTL DEF Spec, ImplementsAccess, Access!Spec

------------------------------------------------------------------------------
\* The two clocks: a session is created, by the database's clock, at most Skew
\* after its login, which is TTL before it expires.
ClockInv ==
    /\ \A s \in Sessions : Stored(s) => sessions[s].created + TTL <= sessions[s].expires + Skew
    /\ \A r \in Requests : pc[r] = "verified" => began[r] <= clock + Skew

LEMMA ClockStep == Inv /\ ClockInv /\ [Next]_vars => ClockInv'
<1> SUFFICES ASSUME Inv, ClockInv, [Next]_vars PROVE ClockInv'
  OBVIOUS
<1>0. /\ sessions \in [Sessions -> Session] /\ token \in [Requests -> Sessions]
      /\ pc \in [Requests -> PcValues] /\ began \in [Requests -> Nat]
      /\ clock \in Nat /\ TTL \in Nat /\ Skew \in Nat
  BY ClockAssumption DEF Inv, TypeOK
<1>1. ASSUME UNCHANGED <<sessions, pc, began>>, clock' \in {clock, clock + 1} PROVE ClockInv'
  BY <1>0, <1>1 DEF ClockInv, Stored
<1>2. ASSUME NEW r \in Requests, \/ Quiet(r) \/ ReadSession(r) \/ CreateBatch(r)
                                 \/ \E k \in {"login", "logout", "scan"}, s \in Sessions : Send(r, k, s)
      PROVE  ClockInv'
  <2>1. UNCHANGED <<sessions, clock>>
    BY <1>2 DEF Quiet, Start, Checkout, Query, PoolTimeout, SubmitTimeout,
              CreateBatchRefused, RecordSubmitFailure, InvalidCredentials, ReadSession, ReadUser,
                Resume, CreateBatch, LogoutRefused, Reload, Close, Send, tables
  <2>2. \A q \in Requests : pc'[q] = "verified" => pc[q] = "verified" /\ began'[q] = began[q]
    BY <1>0, <1>2 DEF Quiet, Start, Checkout, Query, PoolTimeout, SubmitTimeout,
              CreateBatchRefused, RecordSubmitFailure, InvalidCredentials, ReadSession, ReadUser,
                Resume, CreateBatch, LogoutRefused, Reload, Close, Send, frame, Goes, Answers
  <2> QED
    BY <2>1, <2>2 DEF ClockInv, Stored
<1>3. ASSUME NEW r \in Requests, NEW a \in Accounts, FindUser(r, a) PROVE ClockInv'
  <2>1. /\ UNCHANGED <<sessions, clock>> /\ began'[r] = clock + Skew
        /\ \A q \in Requests \ {r} : pc'[q] = pc[q] /\ began'[q] = began[q]
    BY <1>0, <1>3 DEF FindUser, Goes, tables
  <2> QED
    BY <1>0, <2>1 DEF ClockInv, Stored
<1>4. ASSUME NEW r \in Requests, Login(r) PROVE ClockInv'
  <2>1. /\ r \in Sessions /\ sessions'[r].created = began[r] /\ sessions'[r].expires = clock + TTL
        /\ \A s \in Sessions \ {r} : sessions'[s] = sessions[s]
        /\ UNCHANGED <<clock, began>>
        /\ \A q \in Requests : pc'[q] = "verified" => pc[q] = "verified"
    BY <1>0, <1>4 DEF Login, Goes, frame, Sessions
  <2>2. began[r] <= clock + Skew /\ began[r] \in Nat
    BY <1>0, <1>4 DEF Login, ClockInv
  <2>3. sessions'[r].created + TTL <= sessions'[r].expires + Skew
    BY <1>0, <2>1, <2>2
  <2> QED
    BY <2>1, <2>3 DEF ClockInv, Stored
<1>5. ASSUME NEW r \in Requests, Logout(r) PROVE ClockInv'
  <2>1. /\ UNCHANGED <<clock, began>>
        /\ \A q \in Requests : pc'[q] = "verified" => pc[q] = "verified"
    BY <1>0, <1>5 DEF Logout, Answers, Goes, frame
  <2>2. \A s \in Sessions : /\ sessions'[s].created = sessions[s].created
                            /\ sessions'[s].expires = sessions[s].expires
    BY <1>0, <1>5 DEF Logout, Session
  <2> QED
    BY <2>1, <2>2 DEF ClockInv, Stored
<1>6. ASSUME \/ \E c \in Consoles : AskLock(c) \/ Lock(c) \/ CountUsers(c) \/ CreateAdmin(c) \/ Invalid(c)
             \/ Tick \/ \E a \in Accounts : Deactivate(a)
      PROVE  UNCHANGED <<sessions, pc, began>> /\ clock' \in {clock, clock + 1}
  BY <1>6 DEF AskLock, Lock, CountUsers, CreateAdmin, Invalid, Tick, Deactivate, tables, frame
<1> QED
  BY <1>1, <1>2, <1>3, <1>4, <1>5, <1>6 DEF Next, Handle, Quiet, Bootstrap, vars, tables, frame

\* Only a logout within Skew of its login can meet revocation_after_creation.
THEOREM LogoutWorksAlways == Spec => LogoutWorks
<1>1. Init => ClockInv
  BY NamesAssumption, ClockAssumption DEF Init, ClockInv, Stored, NoSession, Sessions
<1>2. ASSUME Inv, ClockInv, NEW r \in Requests, LogoutRefused(r)
      PROVE  clock < sessions[token[r]].expires - TTL + Skew
  <2>1. PICK s \in Sessions : s = token[r]
    BY <1>2 DEF Inv, TypeOK
  <2>2. Stored(s) /\ ~(sessions[s].created <= clock)
    BY <1>2, <2>1 DEF LogoutRefused, RevocationOK, Inv, PlaceInv, Place, Authed
  <2>3. /\ sessions[s].created \in Nat /\ sessions[s].expires \in Nat /\ clock \in Nat
        /\ TTL \in Nat /\ Skew \in Nat
    BY <1>2, ClockAssumption DEF Inv, TypeOK, Session
  <2>4. sessions[s].created + TTL <= sessions[s].expires + Skew
    BY <1>2, <2>2 DEF ClockInv
  <2> QED
    BY <2>1, <2>2, <2>3, <2>4
<1>3. Inv /\ ClockInv => [\A r \in Requests :
          LogoutRefused(r) => clock < sessions[token[r]].expires - TTL + Skew]_vars
  BY <1>2
<1> QED
  BY <1>1, <1>3, ClockStep, InvAlways, PTL DEF Spec, LogoutWorks
==============================================================================
