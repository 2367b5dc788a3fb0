----------------------------- MODULE ApiRequests -----------------------------
(***************************************************************************)
(* A request from its arrival to its end: the thread it waits for, the     *)
(* pooled connection it holds from its first query to its commit or its    *)
(* end (db/session.py), the check of its token (api/dependencies.py), and  *)
(* what login, logout and a scan route commit (services/auth.py).  Beside  *)
(* it the command that creates the first administrator under a table lock. *)
(*                                                                         *)
(* A login creates the session named after its request; Owner and Old are  *)
(* an account and a session from before.  A query is one step.             *)
(***************************************************************************)
EXTENDS Naturals, FiniteSets

CONSTANTS
    Requests,       \* requests clients may send
    Consoles,       \* runs of create-admin, each with an e-mail of its own
    Owner, Old,
    Pools,          \* sizes of FastAPI's threads and SQLAlchemy's connections: 40, 15
    TTL,            \* ACCESS_TOKEN_TTL
    Skew,           \* how far the database's clock is ahead of the program's
    MaxTime,        \* bound: the program's clock
    LateRuns        \* bound: runs of create-admin where there is an Owner

Accounts == Consoles \cup {Owner}
Sessions == Requests \cup {Old}

ASSUME NamesAssumption == Owner \notin Consoles /\ Old \notin Requests

\* A thread that waits for the table lock has a connection: with fewer threads
\* than connections all threads could wait for a request that waits for a thread.
ASSUME PoolAssumption ==
    \A p \in Pools : /\ p \in [threads : Nat \ {0}, connections : Nat \ {0}]
                     /\ p.connections <= p.threads

ASSUME ClockAssumption ==
    {TTL, Skew, MaxTime, LateRuns} \subseteq Nat /\ Skew < TTL

VARIABLES
    pool,           \* the sizes; they never change
    clock,
    accounts,       \* rows of users
    active,         \* those with is_active
    sessions,       \* rows of auth_sessions
    audit,          \* <<action, request>> for each of audit_events
    kind,           \* "login", "logout" or "scan"
    token,          \* the session a request is about
    pc,
    held,           \* requests that hold a connection
    seen,           \* the session row was read as not revoked
    who,            \* the account a login has found
    began,          \* created_at to be: now() of a login's transaction
    answer,
    cpc,            \* where each create-admin is
    late,           \* history: the token was no good when the request was sent
    fit             \* history: it was good when the session row was read

tables  == <<accounts, active, sessions, audit>>
frame   == <<kind, token, seen, who, began>>
history == <<late, fit>>
vars    == <<pool, clock, tables, frame, pc, held, answer, cpc, history>>

NoSession == [user |-> Owner, created |-> 0, expires |-> 0, revoked |-> FALSE]

Stored(s)  == sessions[s].expires # 0
Expired(s) == sessions[s].expires <= clock
Good(s)    == /\ Stored(s) /\ ~sessions[s].revoked /\ ~Expired(s)
              /\ sessions[s].user \in active

\* The sessions whose token a client has been given.
Issued == {s \in Sessions : Stored(s) /\ (s = Old \/ answer[s] = "ok")}

\* After the commit: the submit loop reads its job back; when that fails, the
\* failure is recorded and committed before the response is put together.
Committed == {"refresh", "record", "recommit", "respond", "reload"}
OnThread  == Committed \cup {"checkout", "credentials", "session", "user", "verified",
                             "endpoint"}
FreeThread == Cardinality({r \in Requests : pc[r] \in OnThread}) < pool.threads

FreeConnection == Cardinality(held) < pool.connections

Goes(r, place) == pc' = [pc EXCEPT ![r] = place]

\* The response goes out; the session is closed afterwards.
Answers(r, code) ==
    /\ Goes(r, "closing")
    /\ answer' = [answer EXCEPT ![r] = code]

Init ==
    /\ pool \in Pools
    /\ clock = 0
    /\ accounts \in {{}, {Owner}}
    /\ active = accounts
    /\ sessions = [s \in Sessions |->
          IF s = Old /\ accounts # {} THEN [NoSession EXCEPT !.expires = TTL] ELSE NoSession]
    /\ audit = {}
    /\ kind = [r \in Requests |-> "none"]
    /\ token = [r \in Requests |-> r]
    /\ pc = [r \in Requests |-> "new"]
    /\ held = {}
    /\ seen = [r \in Requests |-> FALSE]
    /\ who = [r \in Requests |-> Owner]
    /\ began = [r \in Requests |-> 0]
    /\ answer = [r \in Requests |-> "none"]
    /\ cpc = [c \in Consoles |-> "start"]
    /\ late = [r \in Requests |-> FALSE]
    /\ fit = [r \in Requests |-> FALSE]

------------------------------------------------------------------------------
(* Threads and connections.                                                  *)

Send(r, k, s) ==
    /\ pc[r] = "new"
    /\ IF k = "login" THEN s = r ELSE s \in Issued
    /\ kind' = [kind EXCEPT ![r] = k]
    /\ token' = [token EXCEPT ![r] = s]
    /\ late' = [late EXCEPT ![r] = k # "login" /\ ~Good(s)]
    /\ Goes(r, "queued")
    /\ UNCHANGED <<pool, clock, tables, seen, who, began, held, answer, cpc, fit>>

\* A thread takes the request; decode_access_token looks at exp first.
Start(r) ==
    /\ pc[r] = "queued" /\ FreeThread
    /\ IF kind[r] # "login" /\ Expired(token[r])
       THEN Answers(r, "401")
       ELSE Goes(r, "checkout") /\ UNCHANGED answer
    /\ UNCHANGED <<pool, clock, tables, frame, held, cpc, history>>

\* The first query of a session, and the first after a commit, take a connection.
Wanting == {"checkout", "refresh", "record", "respond"}

Query(r) ==
    CASE pc[r] = "checkout" -> IF kind[r] = "login" THEN "credentials" ELSE "session"
      [] pc[r] = "record"   -> "recommit"
      [] OTHER              -> "reload"

Checkout(r) ==
    /\ pc[r] \in Wanting /\ FreeConnection
    /\ held' = held \cup {r}
    /\ Goes(r, Query(r))
    /\ UNCHANGED <<pool, clock, tables, frame, answer, cpc, history>>

MutPoolTimeout(r) ==
    /\ pc[r] \in Wanting \ {"checkout"} /\ ~FreeConnection
    /\ Answers(r, "500")
    /\ UNCHANGED <<pool, clock, tables, frame, held, cpc, history>>

\* QueuePool's timeout: none came back in time.
PoolTimeout(r) ==
    /\ pc[r] \in Wanting /\ ~FreeConnection
    /\ Answers(r, "500")
    /\ UNCHANGED <<pool, clock, tables, frame, held, cpc, history>>

\* That timeout in the submit loop of _create_batch is taken for a submit failure.
SubmitTimeout(r) ==
    /\ pc[r] = "refresh" /\ kind[r] = "scan" /\ ~FreeConnection
    /\ Goes(r, "record")
    /\ UNCHANGED <<pool, clock, tables, frame, held, answer, cpc, history>>

\* The thread of the check went back to the pool; the endpoint needs another.
Resume(r) ==
    /\ pc[r] = "checked" /\ FreeThread
    /\ Goes(r, "endpoint")
    /\ UNCHANGED <<pool, clock, tables, frame, held, answer, cpc, history>>

\* The end of get_session: rollback, and the connection goes back.
Close(r) ==
    /\ pc[r] = "closing"
    /\ Goes(r, "done")
    /\ held' = held \ {r}
    /\ seen' = [seen EXCEPT ![r] = FALSE]
    /\ who' = [who EXCEPT ![r] = Owner]
    /\ began' = [began EXCEPT ![r] = 0]
    /\ UNCHANGED <<pool, clock, tables, kind, token, answer, cpc, history>>

------------------------------------------------------------------------------
(* The check and the commits.                                                *)

\* Transactions that have read users keep it from being locked.
Readers == {r \in held : /\ pc[r] \in {"verified", "checked", "endpoint", "closing"}
                         /\ kind[r] = "scan" => answer[r] # "ok"}

\* A lock that is held, or asked for, keeps others from reading users.
UsersFree == \A c \in Consoles : cpc[c] \notin {"waiting", "locked", "hashing"}

\* authenticate: an active account with the right password; now() is fixed here.
FindUser(r, a) ==
    /\ pc[r] = "credentials" /\ UsersFree /\ a \in active
    /\ who' = [who EXCEPT ![r] = a]
    /\ began' = [began EXCEPT ![r] = clock + Skew]
    /\ Goes(r, "verified")
    /\ UNCHANGED <<pool, clock, tables, kind, token, seen, held, answer, cpc, history>>

\* Unknown, inactive, or the wrong password.
InvalidCredentials(r) ==
    /\ pc[r] = "credentials" /\ UsersFree
    /\ Answers(r, "401")
    /\ UNCHANGED <<pool, clock, tables, frame, held, cpc, history>>

\* A commit gives the connection back.
Commits(r, action) ==
    /\ audit' = audit \cup {<<action, r>>}
    /\ held' = held \ {r}

Login(r) ==
    /\ pc[r] = "verified"
    /\ sessions' = [sessions EXCEPT ![r] =
          [user |-> who[r], created |-> began[r], expires |-> clock + TTL, revoked |-> FALSE]]
    /\ Commits(r, "auth.login")
    /\ Goes(r, "refresh")
    /\ UNCHANGED <<pool, clock, accounts, active, frame, answer, cpc, history>>

\* get_principal: the session row, then the user.
ReadSession(r) ==
    /\ pc[r] = "session"
    /\ seen' = [seen EXCEPT ![r] = ~sessions[token[r]].revoked]
    /\ fit' = [fit EXCEPT ![r] = Good(token[r])]
    /\ Goes(r, "user")
    /\ UNCHANGED <<pool, clock, tables, kind, token, who, began, held, answer, cpc, late>>

MutPassesRevoked(r) == ~Expired(token[r]) /\ sessions[token[r]].user \in active

MutPassesInactive(r) == seen[r] /\ ~Expired(token[r])

Passes(r) == seen[r] /\ ~Expired(token[r]) /\ sessions[token[r]].user \in active

ReadUser(r) ==
    /\ pc[r] = "user" /\ UsersFree
    /\ IF Passes(r) THEN Goes(r, "checked") /\ UNCHANGED answer ELSE Answers(r, "401")
    /\ UNCHANGED <<pool, clock, tables, frame, held, cpc, history>>

\* The commit of _create_batch stands for that of any route that writes.
CreateBatch(r) ==
    /\ pc[r] = "endpoint" /\ kind[r] = "scan"
    /\ Commits(r, "batch.created")
    /\ Goes(r, "refresh")
    /\ UNCHANGED <<pool, clock, accounts, active, sessions, frame, answer, cpc, history>>

\* The preflight failed; or the target is being scanned, and all is rolled back.
CreateBatchRefused(r) ==
    /\ pc[r] = "endpoint" /\ kind[r] = "scan"
    /\ \/ Answers(r, "422") /\ UNCHANGED held
       \/ Answers(r, "409") /\ held' = held \ {r}
    /\ UNCHANGED <<pool, clock, tables, frame, cpc, history>>

\* The second commit of _create_batch: job_submit_failed.
RecordSubmitFailure(r) ==
    /\ pc[r] = "recommit"
    /\ held' = held \ {r}
    /\ Goes(r, "respond")
    /\ UNCHANGED <<pool, clock, tables, frame, answer, cpc, history>>

MutRevocationOK(s) == sessions[s].created < clock

\* revocation_after_creation compares the clocks of two machines.
RevocationOK(s) == sessions[s].created <= clock

MutLogout(r) ==
    /\ pc[r] = "endpoint" /\ kind[r] = "logout" /\ RevocationOK(token[r])
    /\ sessions' = [s \in Sessions |->
          [sessions[s] EXCEPT !.revoked = @ \/ (Stored(s) /\ sessions[s].user = sessions[token[r]].user)]]
    /\ Commits(r, "auth.logout")
    /\ Answers(r, "ok")
    /\ UNCHANGED <<pool, clock, accounts, active, frame, cpc, history>>

Logout(r) ==
    /\ pc[r] = "endpoint" /\ kind[r] = "logout" /\ RevocationOK(token[r])
    /\ sessions' = [sessions EXCEPT ![token[r]].revoked = TRUE]
    /\ Commits(r, "auth.logout")
    /\ Answers(r, "ok")
    /\ UNCHANGED <<pool, clock, accounts, active, frame, cpc, history>>

LogoutRefused(r) ==
    /\ pc[r] = "endpoint" /\ kind[r] = "logout" /\ ~RevocationOK(token[r])
    /\ Answers(r, "500")
    /\ UNCHANGED <<pool, clock, tables, frame, held, cpc, history>>

\* What the commit expired is read again for the response.
Reload(r) ==
    /\ pc[r] = "reload" /\ (kind[r] = "login" => UsersFree)
    /\ Answers(r, "ok")
    /\ UNCHANGED <<pool, clock, tables, frame, held, cpc, history>>

------------------------------------------------------------------------------
(* bootstrap_admin, run from the command line.                               *)

Moves(c, place) == cpc' = [cpc EXCEPT ![c] = place]

AskLock(c) ==
    /\ cpc[c] = "start"
    /\ Owner \in accounts => Cardinality({d \in Consoles : cpc[d] # "start"}) < LateRuns
    /\ Moves(c, "waiting")
    /\ UNCHANGED <<pool, clock, tables, frame, pc, held, answer, history>>

MutLock(c) ==
    /\ cpc[c] = "waiting" /\ Readers = {}
    /\ Moves(c, "locked")
    /\ UNCHANGED <<pool, clock, tables, frame, pc, held, answer, history>>

\* LOCK TABLE users IN ACCESS EXCLUSIVE MODE.
Lock(c) ==
    /\ cpc[c] = "waiting" /\ Readers = {}
    /\ \A d \in Consoles : cpc[d] \notin {"locked", "hashing"}
    /\ Moves(c, "locked")
    /\ UNCHANGED <<pool, clock, tables, frame, pc, held, answer, history>>

CountUsers(c) ==
    /\ cpc[c] = "locked"
    /\ Moves(c, IF accounts = {} THEN "hashing" ELSE "refused")
    /\ UNCHANGED <<pool, clock, tables, frame, pc, held, answer, history>>

CreateAdmin(c) ==
    /\ cpc[c] = "hashing"
    /\ accounts' = accounts \cup {c}
    /\ active' = active \cup {c}
    /\ Moves(c, "created")
    /\ UNCHANGED <<pool, clock, sessions, audit, frame, pc, held, answer, history>>

\* The e-mail or the password is not acceptable.
Invalid(c) ==
    /\ cpc[c] = "hashing"
    /\ Moves(c, "refused")
    /\ UNCHANGED <<pool, clock, tables, frame, pc, held, answer, history>>

------------------------------------------------------------------------------
(* The world: time, and an account switched off in the database.             *)

Tick ==
    /\ clock < MaxTime
    /\ clock' = clock + 1
    /\ UNCHANGED <<pool, tables, frame, pc, held, answer, cpc, history>>

Deactivate(a) ==
    /\ a \in active /\ \A c \in Consoles : cpc[c] \notin {"locked", "hashing"}
    /\ active' = active \ {a}
    /\ UNCHANGED <<pool, clock, accounts, sessions, audit, frame, pc, held, answer, cpc, history>>

Handle(r) ==
    \/ Start(r) \/ Checkout(r) \/ PoolTimeout(r) \/ SubmitTimeout(r)
    \/ InvalidCredentials(r) \/ \E a \in Accounts : FindUser(r, a)
    \/ Login(r) \/ ReadSession(r) \/ ReadUser(r)
    \/ Resume(r) \/ CreateBatch(r) \/ CreateBatchRefused(r) \/ RecordSubmitFailure(r)
    \/ Logout(r) \/ LogoutRefused(r)
    \/ Reload(r) \/ Close(r)

Bootstrap(c) == Lock(c) \/ CountUsers(c) \/ CreateAdmin(c) \/ Invalid(c)

Next ==
    \/ \E r \in Requests : \/ \E k \in {"login", "logout", "scan"}, s \in Sessions : Send(r, k, s)
                           \/ Handle(r)
    \/ \E c \in Consoles : AskLock(c) \/ Bootstrap(c)
    \/ Tick
    \/ \E a \in Accounts : Deactivate(a)

Spec == Init /\ [][Next]_vars

\* Threads and the database's queue of locks are scheduled; clients, time and
\* administrators owe nothing.
FairSpec ==
    /\ Spec
    /\ \A r \in Requests : WF_vars(Handle(r))
    /\ \A c \in Consoles : WF_vars(Bootstrap(c))

------------------------------------------------------------------------------
PcValues  == OnThread \cup {"new", "queued", "checked", "closing", "done"}
CpcValues == {"start", "waiting", "locked", "hashing", "created", "refused"}
Session   == [user : Accounts, created : Nat, expires : Nat, revoked : BOOLEAN]

\* Every variable stays in its type.
TypeOK ==
    /\ pool \in Pools
    /\ clock \in Nat
    /\ accounts \subseteq Accounts /\ active \subseteq accounts
    /\ sessions \in [Sessions -> Session]
    /\ audit \subseteq {"auth.login", "auth.logout", "batch.created"} \X Requests
    /\ kind \in [Requests -> {"none", "login", "logout", "scan"}]
    /\ token \in [Requests -> Sessions]
    /\ pc \in [Requests -> PcValues]
    /\ held \subseteq Requests
    /\ seen \in [Requests -> BOOLEAN]
    /\ who \in [Requests -> Accounts]
    /\ began \in [Requests -> Nat]
    /\ answer \in [Requests -> {"none", "ok", "401", "409", "422", "500"}]
    /\ cpc \in [Consoles -> CpcValues]
    /\ late \in [Requests -> BOOLEAN]
    /\ fit \in [Requests -> BOOLEAN]

\* Initial Admin creation succeeds only when no user exists, also when two
\* commands and any number of requests run at the same time.
OneAdministrator == Cardinality(accounts) <= 1

Wrote(r) == <<"batch.created", r>> \in audit \/ <<"auth.logout", r>> \in audit

\* Logout, expiry and deactivation are effective at once: a request that was sent
\* after one of them writes nothing and is answered 401, or 500 under load.
LateRequestsDoNothing ==
    \A r \in Requests : late[r] => ~Wrote(r) /\ answer[r] # "ok"

\* The audit trail and the answers agree: who was refused left no trace, whoever
\* was served has left its event, and a session is revoked if and only if a
\* logout of it is on record.
AuditIsTrue ==
    /\ \A r \in Requests :
        /\ answer[r] \in {"401", "409", "422"} => \A e \in audit : e[2] # r
        /\ answer[r] = "ok" => \E e \in audit : e[2] = r
        /\ Stored(r) <=> <<"auth.login", r>> \in audit
    /\ \A s \in Sessions :
        sessions[s].revoked <=> \E r \in Requests : token[r] = s /\ <<"auth.logout", r>> \in audit

\* The constraint on revoked_at refuses nobody who logs out Skew or more after
\* the login, by the program's clock.
LogoutWorks ==
    [][\A r \in Requests :
          LogoutRefused(r) => clock < sessions[token[r]].expires - TTL + Skew]_vars

\* Whatever a request writes, its token was good at one moment of its own, though
\* the session and the user are read by two statements.
Access == INSTANCE AccessContract WITH
    standing <- [s \in Sessions |-> IF Good(s) THEN "good" ELSE IF Stored(s) THEN "over" ELSE "none"],
    admitted <- {r \in Requests : fit[r]},
    wrote    <- {r \in Requests : Wrote(r)}
ImplementsAccess == Access!Spec

\* Every request is answered and gives its connection back, and every run of
\* create-admin ends.
EveryoneIsAnswered ==
    /\ \A r \in Requests : pc[r] = "queued" ~> pc[r] = "done"
    /\ \A c \in Consoles : cpc[c] = "waiting" ~> cpc[c] \in {"created", "refused"}
==============================================================================
