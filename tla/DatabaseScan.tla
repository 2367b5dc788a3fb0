----------------------------- MODULE DatabaseScan -----------------------------
(***************************************************************************)
(* One scan of a target database against the clock: scan_postgres and      *)
(* scan_mysql with their _scan_column loops (engine/scanners).  Every call *)
(* that may block takes some of the time its limit allows; the deadline is *)
(* looked at only where the code looks at it.                              *)
(***************************************************************************)
EXTENDS Naturals, Sequences

CONSTANTS
    Engines,        \* "postgresql", "mysql"
    MaxColumns,     \* bound: supported columns of the target
    MaxRows,        \* bound: rows of a table
    ROW_BATCH_SIZE,
    CONNECT_TIMEOUT, STATEMENT_TIMEOUT, IDLE_TIMEOUT, TOTAL_TIMEOUT,
    RowTime,        \* bound: time to detect what one row holds
    StoreTime       \* bound: time to store the result of one column

ASSUME BoundAssumption == MaxColumns \in Nat /\ MaxRows \in Nat

\* As with 5, 5, 5 and 60 seconds: connecting and discovery end well in time.
ASSUME TimeAssumption ==
    /\ {CONNECT_TIMEOUT, STATEMENT_TIMEOUT, IDLE_TIMEOUT, TOTAL_TIMEOUT,
        RowTime, StoreTime, ROW_BATCH_SIZE} \subseteq Nat
    /\ ROW_BATCH_SIZE > 0
    /\ CONNECT_TIMEOUT + 5 * STATEMENT_TIMEOUT < TOTAL_TIMEOUT
    /\ RowTime <= STATEMENT_TIMEOUT

VARIABLES
    engine,
    table,          \* the rows of each supported column
    clock,          \* since the scan began
    last,           \* when the target's session last finished a statement
    pc,
    row,            \* rows of the column that have been counted
    batch,          \* rows fetched and not looked at yet
    full,           \* the last fetch brought all it asked for
    unread,         \* the column was left with rows still to come
    session,        \* the connection to the target
    transaction,    \* its read-only transaction is open
    emitted,        \* units_scanned of each result handed to emit
    pending,        \* what the scan will return or raise
    outcome,
    late            \* history: a look at the clock found the deadline passed

reading == <<row, batch, full, unread>>
target  == <<session, transaction>>
vars    == <<engine, table, clock, last, pc, reading, target, emitted, pending,
             outcome, late>>

Codes == {"target_timeout", "target_access_failed", "target_scan_failed"}

Column == Len(emitted) + 1

Takes(limit) == \E d \in 0..limit : clock' = clock + d

Late == clock >= TOTAL_TIMEOUT

\* idle_in_transaction_session_timeout: PostgreSQL has ended the session.
IdledOut == engine = "postgresql" /\ transaction /\ clock - last >= IDLE_TIMEOUT

Init ==
    /\ engine \in Engines
    /\ table \in UNION {[1..n -> 0..MaxRows] : n \in 0..MaxColumns}
    /\ clock = 0 /\ last = 0
    /\ pc = "connect"
    /\ row = 0 /\ batch = 0 /\ full = FALSE /\ unread = FALSE
    /\ session = "none" /\ transaction = FALSE
    /\ emitted = <<>>
    /\ pending = "none" /\ outcome = "none"
    /\ late = FALSE

\* return or raise: control goes to the exits of the connection.
Leave(result) ==
    /\ pc' = "closing"
    /\ pending' = result

------------------------------------------------------------------------------
Connect ==
    /\ pc = "connect"
    /\ Takes(CONNECT_TIMEOUT)
    /\ session' = "open"
    /\ last' = clock'
    /\ pc' = "prepare"
    /\ UNCHANGED <<engine, table, reading, transaction, emitted, pending, outcome, late>>

ConnectFails(code) ==
    /\ pc = "connect"
    /\ engine = "postgresql" => code = "target_access_failed"
    /\ Takes(CONNECT_TIMEOUT)
    /\ Leave(code)
    /\ UNCHANGED <<engine, table, last, reading, target, emitted, outcome, late>>

\* The read-only transaction is begun and verified, permissions and columns read:
\* five statements on MySQL, four on PostgreSQL.
Prepare ==
    /\ pc = "prepare"
    /\ Takes(5 * STATEMENT_TIMEOUT)
    /\ transaction' = TRUE
    /\ last' = clock'
    /\ pc' = "column"
    /\ UNCHANGED <<engine, table, reading, session, emitted, pending, outcome, late>>

NotReadOnly ==
    /\ pc = "prepare"
    /\ Takes(3 * STATEMENT_TIMEOUT)
    /\ transaction' = TRUE
    /\ Leave("read_only_not_enforced")
    /\ UNCHANGED <<engine, table, last, reading, session, emitted, outcome, late>>

PrepareFails(code) ==
    /\ pc = "prepare"
    /\ Takes(5 * STATEMENT_TIMEOUT)
    /\ transaction' \in BOOLEAN
    /\ Leave(code)
    /\ UNCHANGED <<engine, table, last, reading, session, emitted, outcome, late>>

------------------------------------------------------------------------------
(* The loop over the columns and, in it, over the rows of one.               *)

NextColumn ==
    /\ pc = "column" /\ Column <= Len(table) /\ ~Late
    /\ row' = 0 /\ batch' = 0 /\ full' = FALSE
    /\ pc' = "execute"
    /\ UNCHANGED <<unread, engine, table, clock, last, target, emitted, pending, outcome, late>>

MutColumnTimeout ==
    /\ pc = "column" /\ Column <= Len(table) /\ Late
    /\ Leave("ok")
    /\ late' = TRUE
    /\ UNCHANGED <<engine, table, clock, last, reading, target, emitted, outcome>>

ColumnTimeout ==
    /\ pc = "column" /\ Column <= Len(table) /\ Late
    /\ Leave("target_timeout")
    /\ late' = TRUE
    /\ UNCHANGED <<engine, table, clock, last, reading, target, emitted, outcome>>

Finish ==
    /\ pc = "column" /\ Column > Len(table)
    /\ Leave("ok")
    /\ UNCHANGED <<engine, table, clock, last, reading, target, emitted, outcome, late>>

Execute ==
    /\ pc = "execute" /\ ~IdledOut
    /\ Takes(STATEMENT_TIMEOUT)
    /\ last' = clock'
    /\ pc' = "fetch"
    /\ UNCHANGED <<engine, table, reading, target, emitted, pending, outcome, late>>

\* What is left of the column, at most a batch of it.
Fetch ==
    LET rest == table[Column] - row
        got  == IF rest < ROW_BATCH_SIZE THEN rest ELSE ROW_BATCH_SIZE
    IN  /\ pc = "fetch" /\ ~IdledOut
        /\ Takes(STATEMENT_TIMEOUT)
        /\ last' = clock'
        /\ batch' = got
        /\ full' = (got = ROW_BATCH_SIZE)
        /\ pc' = IF got = 0 THEN "cursor" ELSE "row"
        /\ UNCHANGED <<engine, table, row, unread, target, emitted, pending, outcome, late>>

\* Only PostgreSQL's cursor lives in the target: closing it is a statement.
AtStatement == pc \in {"execute", "fetch"} \/ (pc = "cursor" /\ engine = "postgresql")

\* The loss of the session is waited out instead of raised.
MutStatementFails(code) ==
    /\ AtStatement /\ ~IdledOut
    /\ Takes(STATEMENT_TIMEOUT)
    /\ Leave(code)
    /\ UNCHANGED <<engine, table, last, reading, target, emitted, outcome, late>>

\* The target cancels the statement, is lost, idled out, or refuses it.
StatementFails(code) ==
    /\ AtStatement
    /\ IdledOut => code # "target_timeout"
    /\ Takes(STATEMENT_TIMEOUT)
    /\ Leave(code)
    /\ UNCHANGED <<engine, table, last, reading, target, emitted, outcome, late>>

\* psycopg knows a short batch to be the last; fetchmany is asked once more.
More == full \/ engine = "mysql"

MutRow ==
    /\ pc = "row"
    /\ Takes(RowTime)
    /\ row' = row + 1
    /\ batch' = batch - 1
    /\ pc' = IF batch > 1 THEN "row" ELSE IF More THEN "fetch" ELSE "cursor"
    /\ UNCHANGED <<engine, table, last, full, unread, target, emitted, pending, outcome, late>>

Row ==
    /\ pc = "row" /\ ~Late
    /\ Takes(RowTime)
    /\ row' = row + 1
    /\ batch' = batch - 1
    /\ pc' = IF batch > 1 THEN "row" ELSE IF More THEN "fetch" ELSE "cursor"
    /\ UNCHANGED <<engine, table, last, full, unread, target, emitted, pending, outcome, late>>

\* str, json.dumps or the detection of the row raises: no handler of the scanner
\* knows the exception, and it goes through the exits as it is.
RowRaises ==
    /\ pc = "row" /\ ~Late
    /\ Takes(RowTime)
    /\ row' = row + 1
    /\ batch' = batch - 1
    /\ pc' = "cursor"
    /\ pending' = "row_failed"
    /\ UNCHANGED <<engine, table, last, full, unread, target, emitted, outcome, late>>

MutRowTimeout ==
    /\ pc = "row" /\ Late
    /\ pc' = "cursor"
    /\ late' = TRUE
    /\ UNCHANGED <<engine, table, clock, last, reading, target, emitted, pending, outcome>>

RowTimeout ==
    /\ pc = "row" /\ Late
    /\ pc' = "cursor"
    /\ pending' = "target_timeout"
    /\ late' = TRUE
    /\ UNCHANGED <<engine, table, clock, last, reading, target, emitted, outcome>>

\* MySQL is still sending rows nobody has fetched.
Unread == engine = "mysql" /\ pc \in {"row", "cursor"} /\ row + batch < table[Column]

\* The cursor is closed on the way out of _scan_column, with a result or an error.
CloseCursor ==
    /\ pc = "cursor" /\ ~IdledOut /\ ~Unread
    /\ IF engine = "postgresql" THEN Takes(STATEMENT_TIMEOUT) ELSE UNCHANGED clock
    /\ last' = clock'
    /\ pc' = IF pending = "none" THEN "emit" ELSE "closing"
    /\ UNCHANGED <<engine, table, reading, target, emitted, pending, outcome, late>>

\* The driver refuses to close a cursor with unread rows: InternalError takes the
\* place of the error in flight and is mapped like any other.
CloseCursorRaises ==
    /\ pc = "cursor" /\ Unread
    /\ Leave("target_scan_failed")
    /\ unread' = TRUE
    /\ UNCHANGED <<engine, table, clock, last, row, batch, full, target, emitted,
                   outcome, late>>

\* The callback of the coordinator stores the column and commits.
Emit ==
    /\ pc = "emit"
    /\ Takes(StoreTime)
    /\ emitted' = Append(emitted, row)
    /\ pc' = "column"
    /\ UNCHANGED <<engine, table, last, reading, target, pending, outcome, late>>

\* Its exception is not one of the scanner's and passes through.
EmitFails ==
    /\ pc = "emit"
    /\ Takes(StoreTime)
    /\ Leave("store_failed")
    /\ UNCHANGED <<engine, table, last, reading, target, emitted, outcome, late>>

------------------------------------------------------------------------------
(* The exits: rollback, which first reads what is unread, and close.         *)

RollbackTakes == Takes(IF unread THEN 2 * STATEMENT_TIMEOUT ELSE STATEMENT_TIMEOUT)

Rollback ==
    /\ pc = "closing" /\ session = "open" /\ ~IdledOut
    /\ RollbackTakes
    /\ transaction' = FALSE
    /\ pc' = "close"
    /\ UNCHANGED <<engine, table, last, reading, session, emitted, pending, outcome, late>>

\* The error of a failing rollback is raised instead of swallowed.
MutRollbackFails ==
    /\ pc = "closing" /\ session = "open"
    /\ RollbackTakes
    /\ outcome' = "target_scan_failed"
    /\ pc' = "done"
    /\ UNCHANGED <<engine, table, last, reading, target, emitted, pending, late>>

RollbackFails ==
    /\ pc = "closing" /\ session = "open"
    /\ RollbackTakes
    /\ pc' = "close"
    /\ UNCHANGED <<engine, table, last, reading, target, emitted, pending, outcome, late>>

\* The target gives up with the session what is left of the transaction.
Close ==
    /\ pc = "close" \/ (pc = "closing" /\ session = "none")
    /\ session' = IF session = "open" THEN "closed" ELSE "none"
    /\ transaction' = FALSE
    /\ outcome' = pending
    /\ pc' = "done"
    /\ UNCHANGED <<engine, table, clock, last, reading, emitted, pending, late>>

Next ==
    \/ Connect \/ Prepare \/ NotReadOnly
    \/ \E code \in Codes : ConnectFails(code) \/ PrepareFails(code) \/ StatementFails(code)
    \/ NextColumn \/ ColumnTimeout \/ Finish
    \/ Execute \/ Fetch \/ Row \/ RowRaises \/ RowTimeout
    \/ CloseCursor \/ CloseCursorRaises
    \/ Emit \/ EmitFails
    \/ Rollback \/ RollbackFails \/ Close

Spec     == Init /\ [][Next]_vars
FairSpec == Spec /\ WF_vars(Next)

------------------------------------------------------------------------------
\* Results are whole columns, in the order of discovery, each once: a scan that
\* runs out of time or fails never hands over part of a column.
WholeColumns ==
    /\ Len(emitted) <= Len(table)
    /\ \A k \in 1..Len(emitted) : emitted[k] = table[k]

\* A scan that returns has handed over every supported column.
SuccessIsComplete == outcome = "ok" => Len(emitted) = Len(table)

\* The deadline is overrun by less than four statements and one store, whichever
\* calls a path makes between its last look at the clock and its end.
StopsInTime ==
    outcome # "none" => clock < TOTAL_TIMEOUT + 4 * STATEMENT_TIMEOUT + StoreTime

\* Docs/build-plan.md:421: timeout and failure roll back and close.
NothingLeftOpen == outcome # "none" => session # "open" /\ ~transaction

\* Every scan ends.
ScanEnds == <>(outcome # "none")

\* tests/unit/test_mysql_scanner.py:229: a scan that meets its deadline in the
\* middle of a column fails with target_timeout.
TimeoutIsReported == late /\ outcome # "none" => outcome = "target_timeout"
==============================================================================
