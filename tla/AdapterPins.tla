----------------------------- MODULE AdapterPins -----------------------------
(***************************************************************************)
(* Theorems about Adapter, for any number of logical connections and       *)
(* transactions: types, the pin of the engine connection always has an     *)
(* owner that gives it back, and a transaction that ended stays as it is.  *)
(***************************************************************************)
EXTENDS Adapter, TLAPS

\* A call is in progress only on a connection that is not closed.
CallsAreOpen == \A c \in Conns : pc[c] # "free" => ~connClosed[c]

\* A finished transaction has no inner transaction left to end.
FinishedIsOver == \A t \in Txs : tx[t].finished => tx[t].inner = "over"

PinInv == TypeOK /\ PinHasOwner /\ CallsAreOpen /\ FinishedIsOver

\* What the end of a transaction does to the transactions.
Ended(t) ==
    /\ tx' \in [Txs -> TxRecords]
    /\ tx'[t].finished /\ tx'[t].inner = "over" /\ tx'[t].owner = tx[t].owner
    /\ \A u \in Txs \ {t} : tx'[u] = tx[u]

\* The assignment of finish and of Close to the transaction they end.
LEMMA Ends ==
    ASSUME TypeOK, NEW t \in Txs, NEW o \in {"committed", "undone"},
           tx' = [tx EXCEPT ![t] = [@ EXCEPT !.finished = TRUE, !.inner = "over",
                                             !.outcome = o]]
    PROVE  Ended(t)
<1> DEFINE r == [tx[t] EXCEPT !.finished = TRUE, !.inner = "over", !.outcome = o]
<1>1. tx[t] \in TxRecords
  BY DEF TypeOK
<1>2. r \in TxRecords /\ r.finished /\ r.inner = "over" /\ r.owner = tx[t].owner
  BY <1>1 DEF TxRecords
<1>3. tx' = [tx EXCEPT ![t] = r]
  OBVIOUS
<1> HIDE DEF r
<1> QED
  BY <1>2, <1>3 DEF Ended, TypeOK

\* Close of a connection ends the transaction it has.
LEMMA CloseEnds ==
    ASSUME TypeOK, NEW c \in Conns, ConnClose(c), InTx(c)
    PROVE  Ended(transaction[c])
<1>1. transaction[c] \in Txs
  BY DEF TypeOK, InTx
<1> QED
  BY <1>1, Ends DEF ConnClose

\* finish ends the transaction of its handle, whose connection is known.
LEMMA FinishEnds ==
    ASSUME TypeOK, NEW t \in Txs, NEW commit \in BOOLEAN, Finish(t, commit)
    PROVE  Ended(t) /\ tx[t].owner \in Conns
<1>1. (IF commit /\ tx[t].inner = "open" THEN "committed" ELSE "undone")
        \in {"committed", "undone"}
  OBVIOUS
<1>2. tx[t].owner \in Conns
  BY DEF TypeOK, TxRecords, Finish
<1> QED
  BY <1>1, <1>2, Ends DEF Finish

\* The records of a new transaction and of one that is rolled back.
LEMMA Records ==
    /\ UnusedTx \in TxRecords
    /\ \A c \in Conns :
         LET r == [UnusedTx EXCEPT !.owner = c, !.inner = "open"]
         IN  r \in TxRecords /\ r.owner = c /\ ~r.finished
    /\ \A r \in TxRecords : LET s == [r EXCEPT !.inner = "over", !.outcome = "undone"]
         IN  s \in TxRecords /\ s.owner = r.owner /\ s.finished = r.finished
BY DEF TxRecords, UnusedTx

\* Steps keep the types.
LEMMA TypesStep ==
    ASSUME PinInv, Next
    PROVE  TypeOK'
<1> USE AdapterAssumption
    DEF PinInv, TypeOK, InTx
<1>1. ASSUME NEW c \in Conns,
             \/ Connect(c) \/ ConnClose(c) \/ Discard(c)
             \/ BeginTx(c) \/ Exec(c) \/ Query(c) \/ Prepare(c) \/ Ping(c)
             \/ Statement(c) \/ StatementClose(c) \/ RowsEnd(c)
             \/ Run(c) \/ CallFails(c)
      PROVE  TypeOK'
  <2>1. CASE Connect(c)
    BY <2>1 DEF Connect
  <2>2. CASE ConnClose(c) \/ Discard(c)
    <3>1. CASE InTx(c)
      <4>1. Ended(transaction[c]) /\ transaction[c] \in Txs
        BY <2>2, <3>1, CloseEnds DEF Discard, TypeOK
      <4> QED
        BY <2>2, <3>1, <4>1 DEF ConnClose, Discard, Ended
    <3>2. CASE ~InTx(c)
      BY <2>2, <3>2 DEF ConnClose, Discard, Busy
    <3> QED
      BY <3>1, <3>2
  <2>3. CASE BeginTx(c) \/ Exec(c) \/ Query(c) \/ Prepare(c) \/ Ping(c)
    BY <2>3 DEF BeginTx, Exec, Query, Prepare, Ping, Call, Valid, Goto
  <2>4. CASE Statement(c)
    BY <2>4 DEF Statement, Goto
  <2>5. CASE StatementClose(c)
    BY <2>5 DEF StatementClose
  <2>6. CASE RowsEnd(c)
    BY <2>6 DEF RowsEnd
  <2>7. CASE BeginTxRun(c)
    <3>1. PICK t \in Txs : tx' = [tx EXCEPT ![t] = [UnusedTx EXCEPT !.owner = c,
                                                                    !.inner = "open"]]
                           /\ transaction' = [transaction EXCEPT ![c] = t]
      BY <2>7 DEF BeginTxRun
    <3>2. tx' \in [Txs -> TxRecords]
      BY <3>1, Records
    <3> QED
      BY <2>7, <3>1, <3>2 DEF BeginTxRun, Goto
  <2>8. CASE ExecRun(c) \/ PingRun(c) \/ CallRefused(c) \/ CallFails(c)
    BY <2>8 DEF ExecRun, PingRun, CallRefused, CallFails, CallEnds, Goto
  <2>9. CASE QueryRun(c)
    BY <2>9 DEF QueryRun, EngineFree, TxOpen, Goto
  <2>10. CASE PrepareRun(c)
    BY <2>10 DEF PrepareRun, Goto
  <2>11. CASE StatementRun(c)
    BY <2>11 DEF StatementRun, Goto
  <2>12. CASE StatementRows(c)
    BY <2>12 DEF StatementRows, EngineFree, TxOpen, Goto
  <2> QED
    BY <1>1, <2>1, <2>2, <2>3, <2>4, <2>5, <2>6, <2>7, <2>8, <2>9, <2>10, <2>11, <2>12 DEF Run
<1>2. ASSUME NEW t \in Txs, InnerAbort(t)
      PROVE  TypeOK'
  BY <1>2, Records DEF InnerAbort
<1>3. ASSUME NEW t \in Txs, Commit(t) \/ Rollback(t)
      PROVE  TypeOK'
  <2> PICK commit \in BOOLEAN : Finish(t, commit)
    BY <1>3 DEF Commit, Rollback
  <2>1. Ended(t) /\ tx[t].owner \in Conns
    BY FinishEnds
  <2> QED
    BY <2>1 DEF Finish, Finishable, Ended
<1>4. CASE CloseDB
  BY <1>4 DEF CloseDB
<1> QED
  BY <1>1, <1>2, <1>3, <1>4 DEF Next

\* Whoever takes the engine connection becomes its owner, and every end of an
\* owner gives it back.
LEMMA PinStep ==
    ASSUME PinInv, Next
    PROVE  PinHasOwner'
<1> USE AdapterAssumption
    DEF PinInv, TypeOK, TxRecords, PinHasOwner, CallsAreOpen, InTx
<1>1. ASSUME NEW c \in Conns,
             \/ Connect(c) \/ ConnClose(c) \/ Discard(c)
             \/ BeginTx(c) \/ Exec(c) \/ Query(c) \/ Prepare(c) \/ Ping(c)
             \/ Statement(c) \/ StatementClose(c) \/ RowsEnd(c)
             \/ Run(c) \/ CallFails(c)
      PROVE  PinHasOwner'
  <2>1. CASE Connect(c)
    BY <2>1 DEF Connect
  <2>2. CASE ConnClose(c) \/ Discard(c)
    <3>1. CASE InTx(c)
      <4>1. Ended(transaction[c]) /\ transaction[c] \in Txs
        BY <2>2, <3>1, CloseEnds DEF Discard, TypeOK
      <4> QED
        BY <2>2, <3>1, <4>1 DEF ConnClose, Discard, Ended
    <3>2. CASE ~InTx(c)
      BY <2>2, <3>2 DEF ConnClose, Discard, Busy
    <3> QED
      BY <3>1, <3>2
  <2>3. CASE BeginTx(c) \/ Exec(c) \/ Query(c) \/ Prepare(c) \/ Ping(c)
    BY <2>3 DEF BeginTx, Exec, Query, Prepare, Ping, Call, Valid, Goto
  <2>4. CASE Statement(c)
    BY <2>4 DEF Statement, Goto
  <2>5. CASE StatementClose(c)
    BY <2>5 DEF StatementClose
  <2>6. CASE RowsEnd(c)
    BY <2>6 DEF RowsEnd
  <2>7. CASE BeginTxRun(c)
    BY <2>7 DEF BeginTxRun, EngineFree, Goto, UnusedTx
  <2>8. CASE ExecRun(c) \/ PingRun(c) \/ CallRefused(c) \/ CallFails(c)
    BY <2>8 DEF ExecRun, PingRun, CallRefused, CallFails, CallEnds, Goto
  <2>9. CASE QueryRun(c)
    BY <2>9 DEF QueryRun, EngineFree, TxOpen, Goto
  <2>10. CASE PrepareRun(c)
    BY <2>10 DEF PrepareRun, Goto
  <2>11. CASE StatementRun(c)
    BY <2>11 DEF StatementRun, Goto
  <2>12. CASE StatementRows(c)
    BY <2>12 DEF StatementRows, EngineFree, TxOpen, Goto
  <2> QED
    BY <1>1, <2>1, <2>2, <2>3, <2>4, <2>5, <2>6, <2>7, <2>8, <2>9, <2>10, <2>11, <2>12 DEF Run
<1>2. ASSUME NEW t \in Txs, InnerAbort(t)
      PROVE  PinHasOwner'
  BY <1>2 DEF InnerAbort
<1>3. ASSUME NEW t \in Txs, Commit(t) \/ Rollback(t)
      PROVE  PinHasOwner'
  <2> PICK commit \in BOOLEAN : Finish(t, commit)
    BY <1>3 DEF Commit, Rollback
  <2>1. Ended(t) /\ tx[t].owner \in Conns
    BY FinishEnds
  <2> QED
    BY <2>1 DEF Finish, Finishable, Ended
<1>4. CASE CloseDB
  BY <1>4 DEF CloseDB
<1> QED
  BY <1>1, <1>2, <1>3, <1>4 DEF Next

\* A call begins on an open connection, and Close waits for it.
LEMMA CallsStep ==
    ASSUME PinInv, Next
    PROVE  CallsAreOpen'
<1> USE AdapterAssumption
    DEF PinInv, TypeOK, CallsAreOpen
<1>1. ASSUME NEW c \in Conns,
             \/ Connect(c) \/ ConnClose(c) \/ Discard(c)
             \/ BeginTx(c) \/ Exec(c) \/ Query(c) \/ Prepare(c) \/ Ping(c)
             \/ Statement(c) \/ StatementClose(c) \/ RowsEnd(c)
             \/ Run(c) \/ CallFails(c)
      PROVE  CallsAreOpen'
  <2>1. CASE Connect(c)
    BY <2>1 DEF Connect
  <2>2. CASE ConnClose(c) \/ Discard(c)
    BY <2>2 DEF ConnClose, Discard
  <2>3. CASE BeginTx(c) \/ Exec(c) \/ Query(c) \/ Prepare(c) \/ Ping(c)
    BY <2>3 DEF BeginTx, Exec, Query, Prepare, Ping, Call, Valid, Goto
  <2>4. CASE Statement(c)
    BY <2>4 DEF Statement, Goto
  <2>5. CASE StatementClose(c)
    BY <2>5 DEF StatementClose
  <2>6. CASE RowsEnd(c)
    BY <2>6 DEF RowsEnd
  <2>7. CASE BeginTxRun(c)
    BY <2>7 DEF BeginTxRun, EngineFree, Goto, UnusedTx
  <2>8. CASE ExecRun(c) \/ PingRun(c) \/ CallRefused(c) \/ CallFails(c)
    BY <2>8 DEF ExecRun, PingRun, CallRefused, CallFails, CallEnds, Goto
  <2>9. CASE QueryRun(c)
    BY <2>9 DEF QueryRun, EngineFree, TxOpen, Goto
  <2>10. CASE PrepareRun(c)
    BY <2>10 DEF PrepareRun, Goto
  <2>11. CASE StatementRun(c)
    BY <2>11 DEF StatementRun, Goto
  <2>12. CASE StatementRows(c)
    BY <2>12 DEF StatementRows, EngineFree, TxOpen, Goto
  <2> QED
    BY <1>1, <2>1, <2>2, <2>3, <2>4, <2>5, <2>6, <2>7, <2>8, <2>9, <2>10, <2>11, <2>12 DEF Run
<1>2. ASSUME NEW t \in Txs, InnerAbort(t)
      PROVE  CallsAreOpen'
  BY <1>2 DEF InnerAbort
<1>3. ASSUME NEW t \in Txs, Commit(t) \/ Rollback(t)
      PROVE  CallsAreOpen'
  BY <1>3 DEF Commit, Rollback, Finish
<1>4. CASE CloseDB
  BY <1>4 DEF CloseDB
<1> QED
  BY <1>1, <1>2, <1>3, <1>4 DEF Next

\* A transaction is finished and its inner transaction ended in one step.
LEMMA OverStep ==
    ASSUME PinInv, Next
    PROVE  FinishedIsOver'
<1> USE AdapterAssumption
    DEF PinInv, TypeOK, TxRecords, PinHasOwner, FinishedIsOver, InTx
<1>1. ASSUME NEW c \in Conns,
             \/ Connect(c) \/ ConnClose(c) \/ Discard(c)
             \/ BeginTx(c) \/ Exec(c) \/ Query(c) \/ Prepare(c) \/ Ping(c)
             \/ Statement(c) \/ StatementClose(c) \/ RowsEnd(c)
             \/ Run(c) \/ CallFails(c)
      PROVE  FinishedIsOver'
  <2>1. CASE Connect(c)
    BY <2>1 DEF Connect
  <2>2. CASE ConnClose(c) \/ Discard(c)
    <3>1. CASE InTx(c)
      <4>1. Ended(transaction[c]) /\ transaction[c] \in Txs
        BY <2>2, <3>1, CloseEnds DEF Discard, TypeOK
      <4> QED
        BY <2>2, <3>1, <4>1 DEF ConnClose, Discard, Ended
    <3>2. CASE ~InTx(c)
      BY <2>2, <3>2 DEF ConnClose, Discard, Busy
    <3> QED
      BY <3>1, <3>2
  <2>3. CASE BeginTx(c) \/ Exec(c) \/ Query(c) \/ Prepare(c) \/ Ping(c)
    BY <2>3 DEF BeginTx, Exec, Query, Prepare, Ping, Call, Valid, Goto
  <2>4. CASE Statement(c)
    BY <2>4 DEF Statement, Goto
  <2>5. CASE StatementClose(c)
    BY <2>5 DEF StatementClose
  <2>6. CASE RowsEnd(c)
    BY <2>6 DEF RowsEnd
  <2>7. CASE BeginTxRun(c)
    BY <2>7 DEF BeginTxRun, EngineFree, Goto, UnusedTx
  <2>8. CASE ExecRun(c) \/ PingRun(c) \/ CallRefused(c) \/ CallFails(c)
    BY <2>8 DEF ExecRun, PingRun, CallRefused, CallFails, CallEnds, Goto
  <2>9. CASE QueryRun(c)
    BY <2>9 DEF QueryRun, EngineFree, TxOpen, Goto
  <2>10. CASE PrepareRun(c)
    BY <2>10 DEF PrepareRun, Goto
  <2>11. CASE StatementRun(c)
    BY <2>11 DEF StatementRun, Goto
  <2>12. CASE StatementRows(c)
    BY <2>12 DEF StatementRows, EngineFree, TxOpen, Goto
  <2> QED
    BY <1>1, <2>1, <2>2, <2>3, <2>4, <2>5, <2>6, <2>7, <2>8, <2>9, <2>10, <2>11, <2>12 DEF Run
<1>2. ASSUME NEW t \in Txs, InnerAbort(t)
      PROVE  FinishedIsOver'
  BY <1>2 DEF InnerAbort
<1>3. ASSUME NEW t \in Txs, Commit(t) \/ Rollback(t)
      PROVE  FinishedIsOver'
  <2> PICK commit \in BOOLEAN : Finish(t, commit)
    BY <1>3 DEF Commit, Rollback
  <2>1. Ended(t) /\ tx[t].owner \in Conns
    BY FinishEnds
  <2> QED
    BY <2>1 DEF Finish, Finishable, Ended
<1>4. CASE CloseDB
  BY <1>4 DEF CloseDB
<1> QED
  BY <1>1, <1>2, <1>3, <1>4 DEF Next

\* No step touches a finished transaction: a handle that is stale, or whose
\* connection has another transaction, is refused.
LEMMA EndedStep ==
    ASSUME PinInv, Next
    PROVE  \A u \in Txs : tx[u].finished => tx'[u] = tx[u]
<1> USE AdapterAssumption
    DEF PinInv, TypeOK, TxRecords, PinHasOwner, FinishedIsOver, InTx
<1>1. ASSUME NEW c \in Conns,
             \/ Connect(c) \/ ConnClose(c) \/ Discard(c)
             \/ BeginTx(c) \/ Exec(c) \/ Query(c) \/ Prepare(c) \/ Ping(c)
             \/ Statement(c) \/ StatementClose(c) \/ RowsEnd(c)
             \/ Run(c) \/ CallFails(c)
      PROVE  \A u \in Txs : tx[u].finished => tx'[u] = tx[u]
  <2>1. CASE Connect(c)
    BY <2>1 DEF Connect
  <2>2. CASE ConnClose(c) \/ Discard(c)
    <3>1. CASE InTx(c)
      <4>1. Ended(transaction[c]) /\ transaction[c] \in Txs
        BY <2>2, <3>1, CloseEnds DEF Discard, TypeOK
      <4> QED
        BY <2>2, <3>1, <4>1 DEF ConnClose, Discard, Ended
    <3>2. CASE ~InTx(c)
      BY <2>2, <3>2 DEF ConnClose, Discard, Busy
    <3> QED
      BY <3>1, <3>2
  <2>3. CASE BeginTx(c) \/ Exec(c) \/ Query(c) \/ Prepare(c) \/ Ping(c)
    BY <2>3 DEF BeginTx, Exec, Query, Prepare, Ping, Call, Valid, Goto
  <2>4. CASE Statement(c)
    BY <2>4 DEF Statement, Goto
  <2>5. CASE StatementClose(c)
    BY <2>5 DEF StatementClose
  <2>6. CASE RowsEnd(c)
    BY <2>6 DEF RowsEnd
  <2>7. CASE BeginTxRun(c)
    BY <2>7 DEF BeginTxRun, EngineFree, Goto, UnusedTx
  <2>8. CASE ExecRun(c) \/ PingRun(c) \/ CallRefused(c) \/ CallFails(c)
    BY <2>8 DEF ExecRun, PingRun, CallRefused, CallFails, CallEnds, Goto
  <2>9. CASE QueryRun(c)
    BY <2>9 DEF QueryRun, EngineFree, TxOpen, Goto
  <2>10. CASE PrepareRun(c)
    BY <2>10 DEF PrepareRun, Goto
  <2>11. CASE StatementRun(c)
    BY <2>11 DEF StatementRun, Goto
  <2>12. CASE StatementRows(c)
    BY <2>12 DEF StatementRows, EngineFree, TxOpen, Goto
  <2> QED
    BY <1>1, <2>1, <2>2, <2>3, <2>4, <2>5, <2>6, <2>7, <2>8, <2>9, <2>10, <2>11, <2>12 DEF Run
<1>2. ASSUME NEW t \in Txs, InnerAbort(t)
      PROVE  \A u \in Txs : tx[u].finished => tx'[u] = tx[u]
  BY <1>2 DEF InnerAbort
<1>3. ASSUME NEW t \in Txs, Commit(t) \/ Rollback(t)
      PROVE  \A u \in Txs : tx[u].finished => tx'[u] = tx[u]
  <2> PICK commit \in BOOLEAN : Finish(t, commit)
    BY <1>3 DEF Commit, Rollback
  <2>1. Ended(t) /\ tx[t].owner \in Conns
    BY FinishEnds
  <2> QED
    BY <2>1 DEF Finish, Finishable, Ended
<1>4. CASE CloseDB
  BY <1>4 DEF CloseDB
<1> QED
  BY <1>1, <1>2, <1>3, <1>4 DEF Next

-----------------------------------------------------------------------------
(* Theorems *)

\* The parts together are inductive.
THEOREM PinInvariant == Spec => []PinInv
<1>1. Init => PinInv
  <2> SUFFICES ASSUME Init PROVE PinInv
    OBVIOUS
  <2>1. TypeOK
    BY Records DEF Init, TypeOK
  <2>2. PinHasOwner /\ CallsAreOpen /\ FinishedIsOver
    BY AdapterAssumption
    DEF Init, PinHasOwner, CallsAreOpen, FinishedIsOver, InTx, UnusedTx
  <2> QED
    BY <2>1, <2>2 DEF PinInv
<1>2. PinInv /\ [Next]_vars => PinInv'
  <2>1. CASE UNCHANGED vars
    BY <2>1 DEF vars, PinInv, TypeOK, PinHasOwner, CallsAreOpen, FinishedIsOver, InTx
  <2> QED
    BY <2>1, TypesStep, PinStep, CallsStep, OverStep DEF PinInv
<1> QED
  BY <1>1, <1>2, PTL DEF Spec

\* Every variable keeps its type.
THEOREM TypeCorrect == Spec => []TypeOK
BY PinInvariant, PTL DEF PinInv

\* The engine connection is never orphaned: whoever pins it has an unfinished
\* transaction or open rows on a live logical connection.
THEOREM PinsAreOwned == Spec => []PinHasOwner
BY PinInvariant, PTL DEF PinInv

\* A stale handle, a second Commit or Rollback, Close and a late cancellation
\* cannot end a transaction again.
THEOREM EndIsFinal == Spec => EndedStaysEnded
<1>1. PinInv /\ [Next]_vars => [\A t \in Txs : tx[t].finished => tx'[t] = tx[t]]_vars
  BY EndedStep
<1> QED
  BY <1>1, PinInvariant, PTL DEF Spec, EndedStaysEnded

=============================================================================
