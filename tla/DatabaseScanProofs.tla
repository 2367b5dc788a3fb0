-------------------------- MODULE DatabaseScanProofs --------------------------
(***************************************************************************)
(* Proofs about DatabaseScan, for every table, every size of batch and all *)
(* limits that TimeAssumption admits.                                      *)
(***************************************************************************)
EXTENDS DatabaseScan, SequenceTheorems, TLAPS

InColumn == {"execute", "fetch", "row", "cursor", "emit"}
Places   == InColumn \cup {"connect", "prepare", "column", "closing", "close", "done"}
Results  == Codes \cup {"none", "ok", "read_only_not_enforced", "row_failed",
                       "store_failed"}

TypeInv ==
    /\ table \in Seq(Nat) /\ emitted \in Seq(Nat)
    /\ row \in Nat /\ batch \in Nat /\ clock \in Nat
    /\ full \in BOOLEAN /\ unread \in BOOLEAN
    /\ pc \in Places
    /\ pending \in Results /\ outcome \in Results

\* How far a column has been read: a short batch is the last of it.
ReadInv ==
    /\ WholeColumns
    /\ pc \in InColumn => Column <= Len(table)
    /\ pc \in {"execute", "fetch"} => row <= table[Column]
    /\ pc = "row" => /\ batch > 0 /\ row + batch <= table[Column]
                     /\ ~full => row + batch = table[Column]
    /\ pc = "cursor" /\ pending = "none" => row = table[Column]
    /\ pc = "emit" => row = table[Column]

\* What the scan will say, and when it says it.
ResultInv ==
    /\ pending # "none" => pc \in {"cursor", "closing", "close", "done"}
    /\ pc = "cursor" => pending \in {"none", "row_failed", "target_timeout"}
    /\ pending = "ok" => Len(emitted) = Len(table)
    /\ outcome # "none" => pc = "done" /\ outcome = pending
    /\ pc = "done" => session # "open" /\ ~transaction

\* How much of the time each place may find used up.
ClockInv ==
    /\ unread => pc \in {"closing", "close", "done"}
    /\ pc = "connect" => clock = 0
    /\ pc = "prepare" => clock <= CONNECT_TIMEOUT
    /\ pc = "execute" => clock < TOTAL_TIMEOUT
    /\ pc = "fetch" => clock < TOTAL_TIMEOUT + STATEMENT_TIMEOUT
    /\ pc \in {"row", "cursor"} => clock < TOTAL_TIMEOUT + 2 * STATEMENT_TIMEOUT
    /\ pc = "emit" => clock < TOTAL_TIMEOUT + 3 * STATEMENT_TIMEOUT
    /\ pc = "column" => clock < TOTAL_TIMEOUT + 3 * STATEMENT_TIMEOUT + StoreTime
    /\ pc = "closing" => clock < IF unread
                                 THEN TOTAL_TIMEOUT + 2 * STATEMENT_TIMEOUT
                                 ELSE TOTAL_TIMEOUT + 3 * STATEMENT_TIMEOUT + StoreTime
    /\ pc \in {"close", "done"} => clock < TOTAL_TIMEOUT + 4 * STATEMENT_TIMEOUT + StoreTime

Inv == TypeInv /\ ReadInv /\ ResultInv /\ ClockInv

------------------------------------------------------------------------------
\* The limits are natural numbers, and connecting and discovery end in time.
LEMMA Limits ==
    /\ CONNECT_TIMEOUT \in Nat /\ STATEMENT_TIMEOUT \in Nat /\ TOTAL_TIMEOUT \in Nat
    /\ RowTime \in Nat /\ StoreTime \in Nat /\ ROW_BATCH_SIZE \in Nat /\ ROW_BATCH_SIZE > 0
    /\ CONNECT_TIMEOUT + 5 * STATEMENT_TIMEOUT < TOTAL_TIMEOUT
    /\ RowTime <= STATEMENT_TIMEOUT
BY TimeAssumption

\* A scan starts within the invariant.
LEMMA InitInv == Init => Inv
<1> SUFFICES ASSUME Init PROVE Inv
  OBVIOUS
<1>1. table \in Seq(Nat)
  <2>1. PICK n \in 0..MaxColumns : table \in [1..n -> 0..MaxRows]
    BY DEF Init
  <2>2. n \in Nat /\ 0..MaxRows \subseteq Nat
    BY <2>1, BoundAssumption
  <2>3. table \in [1..n -> Nat]
    BY <2>1, <2>2
  <2> QED
    BY <2>2, <2>3, SeqDef
<1>2. Len(emitted) = 0 /\ emitted \in Seq(Nat)
  BY DEF Init
<1>3. Len(table) \in Nat
  BY <1>1
<1>4. TypeInv
  BY <1>1, <1>2 DEF Init, TypeInv, Places, Results
<1>5. ReadInv
  BY <1>2, <1>3 DEF Init, ReadInv, WholeColumns, InColumn
<1>6. ResultInv /\ ClockInv
  BY Limits DEF Init, ResultInv, ClockInv
<1> QED
  BY <1>4, <1>5, <1>6 DEF Inv

\* A call takes no more than its limit.
LEMMA CallsEnd ==
    ASSUME clock \in Nat, NEW limit \in Nat, Takes(limit)
    PROVE  clock' \in Nat /\ clock <= clock' /\ clock' <= clock + limit
<1>1. PICK d \in 0..limit : clock' = clock + d
  BY DEF Takes
<1> QED
  BY <1>1

\* The clock stays within what each place may use.
LEMMA ClockStep == Inv /\ [Next]_vars => ClockInv' /\ clock' \in Nat
<1> SUFFICES ASSUME Inv, [Next]_vars PROVE ClockInv' /\ clock' \in Nat
  OBVIOUS
<1> USE DEF ClockInv
<1>0. clock \in Nat /\ ClockInv /\ unread \in BOOLEAN
  BY DEF Inv, TypeInv
<1> USE <1>0, Limits
<1>1. CASE UNCHANGED vars
  BY <1>1 DEF vars, reading
<1>2. CASE NextColumn \/ ColumnTimeout \/ Finish \/ RowTimeout \/ CloseCursorRaises \/ Close
  BY <1>2 DEF NextColumn, ColumnTimeout, Finish, RowTimeout, CloseCursorRaises, Close,
     Leave, Late, Unread, reading
<1>3. CASE Connect \/ \E code \in Codes : ConnectFails(code)
  <2>1. clock' \in Nat /\ clock' <= clock + CONNECT_TIMEOUT
    BY <1>3, CallsEnd DEF Connect, ConnectFails
  <2> QED
    BY <1>3, <2>1 DEF Connect, ConnectFails, Leave, reading
<1>4. CASE Prepare \/ NotReadOnly \/ \E code \in Codes : PrepareFails(code)
  <2>1. clock' \in Nat /\ clock' <= clock + 5 * STATEMENT_TIMEOUT
    <3>1. 5 * STATEMENT_TIMEOUT \in Nat /\ 3 * STATEMENT_TIMEOUT \in Nat
      OBVIOUS
    <3> QED
      BY <1>4, <3>1, CallsEnd DEF Prepare, NotReadOnly, PrepareFails
  <2> QED
    BY <1>4, <2>1 DEF Prepare, NotReadOnly, PrepareFails, Leave, reading
<1>5. CASE Execute \/ Fetch \/ \E code \in Codes : StatementFails(code)
  <2>1. clock' \in Nat /\ clock' <= clock + STATEMENT_TIMEOUT
    BY <1>5, CallsEnd DEF Execute, Fetch, StatementFails
  <2>2. CASE Execute
    BY <2>1, <2>2 DEF Execute, reading
  <2>3. CASE Fetch
    BY <2>1, <2>3 DEF Fetch
  <2>4. ASSUME NEW code \in Codes, StatementFails(code) PROVE ClockInv'
    BY <2>1, <2>4 DEF StatementFails, AtStatement, Leave, reading
  <2> QED
    BY <1>5, <2>1, <2>2, <2>3, <2>4
<1>6. CASE Row \/ RowRaises
  <2>1. clock' \in Nat /\ clock' <= clock + RowTime
    BY <1>6, CallsEnd DEF Row, RowRaises
  <2> QED
    BY <1>6, <2>1 DEF Row, RowRaises, Late
<1>7. CASE CloseCursor
  <2>1. clock' \in Nat /\ clock' <= clock + STATEMENT_TIMEOUT
    <3>1. Takes(STATEMENT_TIMEOUT) \/ clock' = clock
      BY <1>7 DEF CloseCursor
    <3> QED
      BY <3>1, CallsEnd
  <2> QED
    BY <1>7, <2>1 DEF CloseCursor, reading
<1>8. CASE Emit \/ EmitFails
  <2>1. clock' \in Nat /\ clock' <= clock + StoreTime
    BY <1>8, CallsEnd DEF Emit, EmitFails
  <2> QED
    BY <1>8, <2>1 DEF Emit, EmitFails, Leave, reading
<1>9. CASE Rollback \/ RollbackFails
  <2> DEFINE limit == IF unread THEN 2 * STATEMENT_TIMEOUT ELSE STATEMENT_TIMEOUT
  <2>1. limit \in Nat /\ Takes(limit)
    <3>1. Takes(limit)
      BY <1>9 DEF Rollback, RollbackFails, RollbackTakes
    <3> QED
      BY <3>1
  <2>2. clock' \in Nat /\ clock' <= clock + limit
    <3> HIDE DEF limit
    <3> QED
      BY <2>1, CallsEnd
  <2> QED
    BY <1>9, <2>2 DEF Rollback, RollbackFails, reading
<1> QED
  BY <1>1, <1>2, <1>3, <1>4, <1>5, <1>6, <1>7, <1>8, <1>9 DEF Next

\* What a column that is being read has: a place in the table and so many rows.
LEMMA InTable ==
    ASSUME Inv, pc \in InColumn
    PROVE  Column \in 1..Len(table) /\ table[Column] \in Nat
<1>1. Len(emitted) \in Nat /\ Len(table) \in Nat
  BY DEF Inv, TypeInv
<1>2. Column \in 1..Len(table)
  BY <1>1 DEF Inv, ReadInv, Column
<1> QED
  BY <1>2, ElementOfSeq DEF Inv, TypeInv

\* What a fetch brings.
LEMMA Fetches ==
    ASSUME Inv, Fetch
    PROVE  /\ batch' \in Nat /\ full' \in BOOLEAN /\ row + batch' <= table[Column]
           /\ ~full' => row + batch' = table[Column]
           /\ pc' = IF batch' = 0 THEN "cursor" ELSE "row"
           /\ batch' = 0 => row = table[Column]
           /\ UNCHANGED <<table, row, emitted, pending, outcome, unread, target>>
<1>1. pc = "fetch" /\ row \in Nat /\ row <= table[Column] /\ table[Column] \in Nat
  BY InTable DEF Fetch, InColumn, Inv, ReadInv, TypeInv
<1> DEFINE rest == table[Column] - row
           got  == IF rest < ROW_BATCH_SIZE THEN rest ELSE ROW_BATCH_SIZE
<1>2. rest \in Nat /\ row + rest = table[Column]
  BY <1>1
<1>3. batch' = got /\ full' = (got = ROW_BATCH_SIZE) /\ pc' = IF got = 0 THEN "cursor" ELSE "row"
  BY DEF Fetch
<1>4. UNCHANGED <<table, row, emitted, pending, outcome, unread, target>>
  BY DEF Fetch
<1>5. got \in Nat /\ got <= rest /\ (got # ROW_BATCH_SIZE => got = rest) /\ (got = 0 => rest = 0)
  BY <1>2, Limits
<1>6. row + got <= table[Column] /\ (got # ROW_BATCH_SIZE => row + got = table[Column])
      /\ (got = 0 => row = table[Column])
  <2> HIDE DEF rest, got
  <2> QED
    BY <1>1, <1>2, <1>5
<1>7. batch' = got /\ (full' <=> got = ROW_BATCH_SIZE) /\ full' \in BOOLEAN
  BY <1>3
<1> HIDE DEF rest, got
<1> QED
  BY <1>3, <1>4, <1>5, <1>6, <1>7

\* Types are kept.
LEMMA TypeStep == Inv /\ [Next]_vars => TypeInv'
<1> SUFFICES ASSUME Inv, [Next]_vars PROVE TypeInv'
  OBVIOUS
<1>0. TypeInv /\ clock' \in Nat
  BY ClockStep DEF Inv
<1> USE <1>0 DEF TypeInv, Places, InColumn, Results, Codes, Leave, reading
<1>1. CASE UNCHANGED vars
  BY <1>1 DEF vars
<1>2. CASE NextColumn \/ ColumnTimeout \/ Finish \/ RowTimeout \/ CloseCursorRaises \/ Close
  <2>1. CASE NextColumn
    BY <2>1 DEF NextColumn
  <2>2. CASE ColumnTimeout \/ Finish
    BY <2>2 DEF ColumnTimeout, Finish
  <2>3. CASE RowTimeout \/ CloseCursorRaises \/ Close
    BY <2>3 DEF RowTimeout, CloseCursorRaises, Close
  <2> QED
    BY <1>2, <2>1, <2>2, <2>3
<1>3. CASE Connect \/ Prepare \/ NotReadOnly \/ Execute
  BY <1>3 DEF Connect, Prepare, NotReadOnly, Execute
<1>4. ASSUME NEW code \in Codes, ConnectFails(code) \/ PrepareFails(code) \/ StatementFails(code)
      PROVE  TypeInv'
  BY <1>4 DEF ConnectFails, PrepareFails, StatementFails
<1>5. CASE Fetch
  BY <1>5, Fetches
<1>6. CASE Row \/ RowRaises
  <2>1. batch > 0
    BY <1>6 DEF Row, RowRaises, Inv, ReadInv
  <2> QED
    BY <1>6, <2>1 DEF Row, RowRaises
<1>7. CASE CloseCursor \/ Rollback \/ RollbackFails
  BY <1>7 DEF CloseCursor, Rollback, RollbackFails
<1>8. CASE Emit
  <2>1. Append(emitted, row) \in Seq(Nat)
    OBVIOUS
  <2> QED
    BY <1>8, <2>1 DEF Emit
<1>9. CASE EmitFails
  BY <1>9 DEF EmitFails
<1> QED
  BY <1>1, <1>2, <1>3, <1>4, <1>5, <1>6, <1>7, <1>8, <1>9 DEF Next

\* A column is emitted when all its rows have been counted, and not before.
LEMMA ReadStep == Inv /\ [Next]_vars => ReadInv'
<1> SUFFICES ASSUME Inv, [Next]_vars PROVE ReadInv'
  OBVIOUS
<1>0. /\ TypeInv /\ ReadInv /\ ResultInv /\ Len(emitted) \in Nat /\ Len(table) \in Nat
      /\ row \in Nat /\ batch \in Nat
  BY DEF Inv, TypeInv
<1> USE <1>0 DEF ReadInv, WholeColumns, InColumn, Column, Leave, reading
<1>1. CASE UNCHANGED vars
  BY <1>1 DEF vars
<1>2. CASE NextColumn
  <2>1. Column \in 1..Len(table) /\ table[Column] \in Nat
    <3>1. Column \in 1..Len(table)
      BY <1>2 DEF NextColumn
    <3> QED
      BY <3>1, ElementOfSeq DEF TypeInv
  <2> QED
    BY <1>2, <2>1 DEF NextColumn
<1>3. CASE ColumnTimeout \/ Finish \/ RowTimeout \/ CloseCursorRaises \/ Close
  BY <1>3 DEF ColumnTimeout, Finish, RowTimeout, CloseCursorRaises, Close
<1>4. CASE Connect \/ Prepare \/ NotReadOnly \/ Execute
  BY <1>4 DEF Connect, Prepare, NotReadOnly, Execute
<1>5. ASSUME NEW code \in Codes, ConnectFails(code) \/ PrepareFails(code) \/ StatementFails(code)
      PROVE  ReadInv'
  BY <1>5 DEF ConnectFails, PrepareFails, StatementFails
<1>6. CASE Fetch
  <2>1. pc = "fetch"
    BY <1>6 DEF Fetch
  <2> QED
    BY <1>6, <2>1, Fetches, InTable
<1>7. CASE Row
  <2>1. /\ pc = "row" /\ row' = row + 1 /\ batch' = batch - 1
        /\ pc' = IF batch > 1 THEN "row" ELSE IF More THEN "fetch" ELSE "cursor"
        /\ UNCHANGED <<table, full, emitted, pending>>
    BY <1>7 DEF Row
  <2>2. table[Column] \in Nat
    BY <2>1, InTable
  <2>3. batch > 0 /\ row + batch <= table[Column] /\ (~full => row + batch = table[Column])
    BY <2>1
  <2>4. ~More => ~full
    BY DEF More
  <2> QED
    BY <2>1, <2>2, <2>3, <2>4
<1>8. CASE RowRaises \/ CloseCursor \/ Rollback \/ RollbackFails \/ EmitFails
  BY <1>8 DEF RowRaises, CloseCursor, Rollback, RollbackFails, EmitFails
<1>9. CASE Emit
  <2>1. /\ pc = "emit" /\ pc' = "column" /\ emitted' = Append(emitted, row) /\ table' = table
        /\ row = table[Column] /\ Column <= Len(table)
    BY <1>9 DEF Emit
  <2>2. /\ Len(emitted') = Len(emitted) + 1 /\ emitted'[Len(emitted) + 1] = row
        /\ \A k \in 1..Len(emitted) : emitted'[k] = emitted[k]
    BY <2>1 DEF TypeInv
  <2>3. \A k \in 1..(Len(emitted) + 1) : k = Len(emitted) + 1 \/ k \in 1..Len(emitted)
    OBVIOUS
  <2> QED
    BY <2>1, <2>2, <2>3
<1> QED
  BY <1>1, <1>2, <1>3, <1>4, <1>5, <1>6, <1>7, <1>8, <1>9 DEF Next

\* The result is settled before the exits and told after them.
LEMMA ResultStep == Inv /\ [Next]_vars => ResultInv'
<1> SUFFICES ASSUME Inv, [Next]_vars PROVE ResultInv'
  OBVIOUS
<1>0. /\ TypeInv /\ ReadInv /\ ResultInv /\ Len(emitted) \in Nat /\ Len(table) \in Nat
      /\ pending # "ok" \/ Len(emitted) = Len(table)
  BY DEF Inv, TypeInv, ResultInv
<1> USE <1>0 DEF ResultInv, Codes, Leave, reading, target
<1>1. CASE UNCHANGED vars
  BY <1>1 DEF vars
<1>2. CASE NextColumn \/ ColumnTimeout \/ RowTimeout \/ CloseCursorRaises
  BY <1>2 DEF NextColumn, ColumnTimeout, RowTimeout, CloseCursorRaises
<1>3. CASE Finish
  <2>1. Len(emitted) = Len(table)
    BY <1>3 DEF Finish, Column, ReadInv, WholeColumns
  <2> QED
    BY <1>3, <2>1 DEF Finish
<1>4. CASE Close
  BY <1>4 DEF Close
<1>5. CASE Connect \/ Prepare \/ NotReadOnly \/ Execute
  BY <1>5 DEF Connect, Prepare, NotReadOnly, Execute
<1>6. ASSUME NEW code \in Codes, ConnectFails(code) \/ PrepareFails(code) \/ StatementFails(code)
      PROVE  ResultInv'
  BY <1>6 DEF ConnectFails, PrepareFails, StatementFails, AtStatement
<1>7. CASE Fetch \/ Row \/ RowRaises \/ CloseCursor
  BY <1>7 DEF Fetch, Row, RowRaises, CloseCursor
<1>8. CASE Emit \/ EmitFails
  BY <1>8 DEF Emit, EmitFails
<1>9. CASE Rollback \/ RollbackFails
  BY <1>9 DEF Rollback, RollbackFails
<1> QED
  BY <1>1, <1>2, <1>3, <1>4, <1>5, <1>6, <1>7, <1>8, <1>9 DEF Next

------------------------------------------------------------------------------
\* The invariant is inductive.
LEMMA InvStep == Inv /\ [Next]_vars => Inv'
BY TypeStep, ReadStep, ResultStep, ClockStep DEF Inv

LEMMA InvAlways == Spec => []Inv
BY InitInv, InvStep, PTL DEF Spec

\* Only whole columns are ever handed over, in the order of discovery.
THEOREM ColumnsAreWhole == Spec => []WholeColumns
<1>1. Inv => WholeColumns
  BY DEF Inv, ReadInv
<1> QED
  BY <1>1, InvAlways, PTL

\* A scan that succeeds has handed over every column.
THEOREM SuccessMeansAll == Spec => []SuccessIsComplete
<1>1. Inv => SuccessIsComplete
  BY DEF Inv, ResultInv, SuccessIsComplete
<1> QED
  BY <1>1, InvAlways, PTL

\* No path overruns the deadline by four statements and one store.
THEOREM OverrunIsBounded == Spec => []StopsInTime
<1>1. Inv => StopsInTime
  BY DEF Inv, ResultInv, ClockInv, StopsInTime
<1> QED
  BY <1>1, InvAlways, PTL

\* Whatever fails, the transaction and the connection are given up.
THEOREM ConnectionsAreClosed == Spec => []NothingLeftOpen
<1>1. Inv => NothingLeftOpen
  BY DEF Inv, ResultInv, NothingLeftOpen
<1> QED
  BY <1>1, InvAlways, PTL
==============================================================================
