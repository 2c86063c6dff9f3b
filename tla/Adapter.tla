------------------------------- MODULE Adapter -------------------------------
(***************************************************************************)
(* The database/sql adapter (driver.go): logical connections, their        *)
(* transactions, prepared statements and rows, all over the one engine     *)
(* connection of the DB.                                                   *)
(*                                                                         *)
(* database/sql never makes two driver calls on one logical connection at  *)
(* once, so pc[c] is the call in progress on c (it also holds c.mu).  Each *)
(* call that needs the engine is two steps: the checks made under c.mu,    *)
(* and the step that obtains the engine connection and runs.               *)
(***************************************************************************)
EXTENDS Naturals, FiniteSets

CONSTANTS
    Conns,             \* logical connections
    Txs,               \* bound on the number of transactions
    StatementsSurvive, \* whether a client uses a statement it prepared before
                       \* Begin inside the transaction (sql.Tx.Stmt)
    None

ASSUME AdapterAssumption ==
    /\ None \notin Conns \cup Txs
    /\ StatementsSurvive \in BOOLEAN

VARIABLES
    dbClosed,     \* db.closed
    pin,          \* the logical connection that holds the engine connection
    connClosed,   \* c.closed (or never connected)
    transaction,  \* c.transaction
    tx,           \* the sqlTransaction objects
    rows,         \* whether c has open rows
    prepared,     \* what c's prepared statement is bound to
    pc

vars == <<dbClosed, pin, connClosed, transaction, tx, rows, prepared, pc>>

\* inner is the state of the *sql.Tx: "over" once committed or rolled back.
TxRecords ==
    [owner : Conns \cup {None}, finished : BOOLEAN,
     inner : {"none", "open", "over"}, outcome : {"none", "committed", "undone"}]

UnusedTx == [owner |-> None, finished |-> FALSE, inner |-> "none",
             outcome |-> "none"]

Init ==
    /\ dbClosed = FALSE
    /\ pin = None
    /\ connClosed = [c \in Conns |-> TRUE]
    /\ transaction = [c \in Conns |-> None]
    /\ tx = [t \in Txs |-> UnusedTx]
    /\ rows = [c \in Conns |-> FALSE]
    /\ prepared = [c \in Conns |-> "none"]
    /\ pc = [c \in Conns |-> "free"]

Goto(c, label) == pc' = [pc EXCEPT ![c] = label]

InTx(c) == transaction[c] # None
TxOpen(c) == InTx(c) /\ tx[transaction[c]].inner = "open"

\* Rows read outside a transaction keep the engine connection and, in
\* database/sql, the logical connection.
Busy(c) == rows[c] /\ ~InTx(c)

Valid(c) == ~connClosed[c] /\ ~dbClosed

-----------------------------------------------------------------------------
(* Connections *)

Connect(c) ==
    /\ pc[c] = "free" /\ connClosed[c]
    /\ ~dbClosed
    /\ connClosed' = [connClosed EXCEPT ![c] = FALSE]
    /\ UNCHANGED <<dbClosed, pin, transaction, tx, rows, prepared, pc>>

\* Mutant: Close marks the connection closed and leaves its transaction alone.
ConnCloseOnly(c) ==
    /\ pc[c] = "free" /\ ~connClosed[c] /\ ~Busy(c)
    /\ connClosed' = [connClosed EXCEPT ![c] = TRUE]
    /\ UNCHANGED <<dbClosed, pin, transaction, tx, rows, prepared, pc>>

\* sqlConnection.Close rolls an open transaction back and unpins the engine.
\* database/sql closes the statements and rows of c first.
ConnClose(c) ==
    /\ pc[c] = "free" /\ ~connClosed[c] /\ ~Busy(c)
    /\ connClosed' = [connClosed EXCEPT ![c] = TRUE]
    /\ transaction' = [transaction EXCEPT ![c] = None]
    /\ tx' = IF InTx(c)
               THEN [tx EXCEPT ![transaction[c]] =
                       [@ EXCEPT !.finished = TRUE, !.inner = "over",
                                 !.outcome = "undone"]]
               ELSE tx
    /\ pin' = IF InTx(c) THEN None ELSE pin
    /\ rows' = [rows EXCEPT ![c] = FALSE]
    /\ prepared' = [prepared EXCEPT ![c] = "none"]
    /\ UNCHANGED <<dbClosed, pc>>

\* IsValid and ResetSession: whether database/sql may go on using c.
SessionUsable(c) == Valid(c) /\ ~InTx(c)

\* database/sql closes a connection that it gets back, or is about to hand out,
\* and that is not usable.
Discard(c) == ~SessionUsable(c) /\ ConnClose(c)

\* DB.Close: everyone who waits for the engine is refused from now on.
CloseDB ==
    /\ dbClosed' = TRUE
    /\ UNCHANGED <<pin, connClosed, transaction, tx, rows, prepared, pc>>

-----------------------------------------------------------------------------
(* Calls: validLocked (and translateLocked), then the engine *)

Call(c, label) ==
    /\ pc[c] = "free" /\ Valid(c) /\ ~Busy(c)
    /\ Goto(c, label)
    /\ UNCHANGED <<dbClosed, pin, connClosed, transaction, tx, rows, prepared>>

\* (Bound: there is a transaction left for every Begin in progress.)
BeginTx(c) ==
    /\ ~InTx(c)
    /\ Cardinality({t \in Txs : tx[t] = UnusedTx})
         > Cardinality({d \in Conns : pc[d] = "begin"})
    /\ Call(c, "begin")

Exec(c)    == Call(c, "exec")
Query(c)   == Call(c, "query")
Prepare(c) == prepared[c] = "none" /\ Call(c, "prepare")
Ping(c)    == Call(c, "ping")

\* Whether the call in progress on c runs on c's transaction: a prepared
\* statement runs where it was prepared, every other call looks at
\* c.transaction.
OnTx(c) == IF pc[c] = "statement" THEN prepared[c] = "tx" ELSE InTx(c)

\* The call ends with an error and keeps nothing.
CallEnds(c) ==
    /\ Goto(c, "free")
    /\ UNCHANGED <<dbClosed, pin, connClosed, transaction, tx, rows, prepared>>

\* The caller's context is canceled, or the engine reports an error (a failed
\* BEGIN gives the connection of BeginTx back).
CallFails(c) == pc[c] # "free" /\ CallEnds(c)

\* ErrTxDone from the transaction, or "database is closed" from the pool.
CallRefused(c) ==
    /\ pc[c] # "free"
    /\ IF OnTx(c) THEN ~TxOpen(c) ELSE dbClosed
    /\ CallEnds(c)

\* The engine connection for a call outside a transaction.
EngineFree == pin = None /\ ~dbClosed

\* Mutant: the pin is recorded under the transaction, not its connection.
BeginTxRunMisfiled(c) ==
    /\ pc[c] = "begin"
    /\ EngineFree
    /\ \E t \in Txs :
         /\ tx[t] = UnusedTx
         /\ tx' = [tx EXCEPT ![t] = [UnusedTx EXCEPT !.owner = c, !.inner = "open"]]
         /\ transaction' = [transaction EXCEPT ![c] = t]
         /\ pin' = t
    /\ Goto(c, "free")
    /\ UNCHANGED <<dbClosed, connClosed, rows, prepared>>

\* sqlDB.Conn and BEGIN on it: the transaction pins the engine connection.
BeginTxRun(c) ==
    /\ pc[c] = "begin"
    /\ EngineFree
    /\ \E t \in Txs :
         /\ tx[t] = UnusedTx
         /\ tx' = [tx EXCEPT ![t] = [UnusedTx EXCEPT !.owner = c, !.inner = "open"]]
         /\ transaction' = [transaction EXCEPT ![c] = t]
    /\ pin' = c
    /\ Goto(c, "free")
    /\ UNCHANGED <<dbClosed, connClosed, rows, prepared>>

\* ExecContext: on the transaction if c has one, else on the pool.
ExecRun(c) ==
    /\ pc[c] = "exec"
    /\ IF InTx(c) THEN TxOpen(c) ELSE EngineFree
    /\ CallEnds(c)

\* Ping needs the pinned connection only, not an open transaction.
PingRun(c) ==
    /\ pc[c] = "ping"
    /\ InTx(c) \/ EngineFree
    /\ CallEnds(c)

\* QueryContext: rows of the pool keep the engine connection until they end.
QueryRun(c) ==
    /\ pc[c] = "query"
    /\ \/ TxOpen(c) /\ UNCHANGED pin
       \/ ~InTx(c) /\ EngineFree /\ pin' = c
    /\ rows' = [rows EXCEPT ![c] = TRUE]
    /\ Goto(c, "free")
    /\ UNCHANGED <<dbClosed, connClosed, transaction, tx, prepared>>

\* Mutant: the engine's rows are not closed with the adapter's.
RowsEndOnly(c) ==
    /\ pc[c] = "free" /\ rows[c]
    /\ rows' = [rows EXCEPT ![c] = FALSE]
    /\ UNCHANGED <<dbClosed, pin, connClosed, transaction, tx, prepared, pc>>

\* Rows.Close, or Next at the end of the rows.
RowsEnd(c) ==
    /\ pc[c] = "free" /\ rows[c]
    /\ rows' = [rows EXCEPT ![c] = FALSE]
    /\ pin' = IF InTx(c) THEN pin ELSE None
    /\ UNCHANGED <<dbClosed, connClosed, transaction, tx, prepared, pc>>

\* PrepareContext binds the statement to the transaction or to the pool.
PrepareRun(c) ==
    /\ pc[c] = "prepare"
    /\ \/ TxOpen(c) /\ prepared' = [prepared EXCEPT ![c] = "tx"]
       \/ ~InTx(c) /\ EngineFree /\ prepared' = [prepared EXCEPT ![c] = "pool"]
    /\ Goto(c, "free")
    /\ UNCHANGED <<dbClosed, pin, connClosed, transaction, tx, rows>>

\* sqlStatement.ExecContext: neither c.mu nor c.closed nor db.closed is looked
\* at.
Statement(c) ==
    /\ pc[c] = "free" /\ ~connClosed[c] /\ ~Busy(c)
    /\ prepared[c] # "none"
    /\ prepared[c] = "pool" /\ InTx(c) => StatementsSurvive
    /\ Goto(c, "statement")
    /\ UNCHANGED <<dbClosed, pin, connClosed, transaction, tx, rows, prepared>>

StatementRun(c) ==
    /\ pc[c] = "statement"
    /\ \/ prepared[c] = "tx" /\ TxOpen(c)
       \/ prepared[c] = "pool" /\ EngineFree
    /\ Goto(c, "free")
    /\ UNCHANGED <<dbClosed, pin, connClosed, transaction, tx, rows, prepared>>

\* sqlStatement.QueryContext: its rows, as those of QueryRun.
StatementRows(c) ==
    /\ pc[c] = "statement"
    /\ \/ prepared[c] = "tx" /\ TxOpen(c) /\ UNCHANGED pin
       \/ prepared[c] = "pool" /\ EngineFree /\ pin' = c
    /\ rows' = [rows EXCEPT ![c] = TRUE]
    /\ Goto(c, "free")
    /\ UNCHANGED <<dbClosed, connClosed, transaction, tx, prepared>>

StatementClose(c) ==
    /\ pc[c] = "free" /\ prepared[c] # "none"
    /\ prepared' = [prepared EXCEPT ![c] = "none"]
    /\ UNCHANGED <<dbClosed, pin, connClosed, transaction, tx, rows, pc>>

-----------------------------------------------------------------------------
(* The end of a transaction *)

\* database/sql rolls the inner transaction back when its context is canceled;
\* BeginTx's sql.Conn still pins the engine connection.
InnerAbort(t) ==
    /\ tx[t].inner = "open"
    /\ tx' = [tx EXCEPT ![t] = [@ EXCEPT !.inner = "over", !.outcome = "undone"]]
    /\ UNCHANGED <<dbClosed, pin, connClosed, transaction, rows, prepared,
                   pc>>

\* Mutant: finish does not look whether the handle is stale.
FinishableAlways(t) == TRUE

\* Whether finish has anything to do: the handle may be stale.
Finishable(t) == ~tx[t].finished /\ transaction[tx[t].owner] = t

\* finish(commit) gives the engine connection back whatever the outcome, also
\* after InnerAbort.  A stale handle gets ErrTxDone and changes nothing.
Finish(t, commit) ==
    LET c == tx[t].owner
        outcome == IF commit /\ tx[t].inner = "open" THEN "committed" ELSE "undone"
    IN  /\ c # None
        /\ pc[c] = "free"
        /\ Finishable(t)
        /\ transaction' = [transaction EXCEPT ![c] = None]
        /\ tx' = [tx EXCEPT ![t] = [@ EXCEPT !.finished = TRUE, !.inner = "over",
                                             !.outcome = outcome]]
        /\ pin' = None
        /\ rows' = [rows EXCEPT ![c] = FALSE]
        /\ prepared' = [prepared EXCEPT ![c] = IF @ = "tx" THEN "none" ELSE @]
        /\ UNCHANGED <<dbClosed, connClosed, pc>>

Commit(t)   == Finish(t, TRUE)
Rollback(t) == Finish(t, FALSE)

-----------------------------------------------------------------------------
(* The specification *)

Run(c) ==
    \/ BeginTxRun(c) \/ ExecRun(c) \/ PingRun(c) \/ QueryRun(c)
    \/ PrepareRun(c) \/ StatementRun(c) \/ StatementRows(c) \/ CallRefused(c)

Next ==
    \/ \E c \in Conns :
         \/ Connect(c) \/ ConnClose(c) \/ Discard(c)
         \/ BeginTx(c) \/ Exec(c) \/ Query(c) \/ Prepare(c) \/ Ping(c)
         \/ Statement(c) \/ StatementClose(c) \/ RowsEnd(c)
         \/ Run(c) \/ CallFails(c)
    \/ \E t \in Txs : InnerAbort(t) \/ Commit(t) \/ Rollback(t)
    \/ CloseDB

Spec == Init /\ [][Next]_vars

\* A call whose engine connection becomes free again and again is served, and
\* clients end the rows and the transactions they open.
Fairness ==
    /\ \A c \in Conns : SF_vars(Run(c)) /\ SF_vars(RowsEnd(c))
    /\ \A t \in Txs : SF_vars(Commit(t) \/ Rollback(t))

FairSpec == Spec /\ Fairness

-----------------------------------------------------------------------------
(* Properties *)

\* Every variable has its type.
TypeOK ==
    /\ dbClosed \in BOOLEAN
    /\ pin \in Conns \cup {None}
    /\ connClosed \in [Conns -> BOOLEAN]
    /\ transaction \in [Conns -> Txs \cup {None}]
    /\ tx \in [Txs -> TxRecords]
    /\ rows \in [Conns -> BOOLEAN]
    /\ prepared \in [Conns -> {"none", "pool", "tx"}]
    /\ pc \in [Conns -> {"free", "begin", "exec", "query", "prepare", "ping",
                         "statement"}]

\* The engine connection is never orphaned: whoever pins it is a live logical
\* connection with an unfinished transaction or open rows that will give it
\* back, and every unfinished transaction pins it.
PinHasOwner ==
    /\ \A c \in Conns : pin = c <=> InTx(c) \/ rows[c]
    /\ \A c \in Conns : pin = c => ~connClosed[c]
    /\ \A t \in Txs, c \in Conns :
         transaction[c] = t <=> tx[t].owner = c /\ ~tx[t].finished

\* A transaction that is over stays as it ended: a stale handle, a second
\* Commit or Rollback, Close and a late cancellation cannot end it again.
EndedStaysEnded ==
    [][\A t \in Txs : tx[t].finished => tx'[t] = tx[t]]_vars

\* Every driver call returns.
DriverCallsReturn == \A c \in Conns : pc[c] # "free" ~> pc[c] = "free"

=============================================================================
