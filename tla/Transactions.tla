---------------------------- MODULE Transactions ----------------------------
(***************************************************************************)
(* What transactions do to the data: the scripts of Schema.ExecContext and *)
(* QueryContext, statements of their own, and adapter transactions         *)
(* (schema.go, driver.go) on the one engine connection.                    *)
(*                                                                         *)
(* The engine's transaction (begun) and the sql.Tx that believes in it     *)
(* (tx) are separate: SQL text, an interruption and a failed COMMIT change *)
(* one without the other.                                                  *)
(***************************************************************************)
EXTENDS Naturals

CONSTANTS
    Calls,         \* the calls made, each once
    Statements,    \* bound on the statements of a script or a transaction
    None

ASSUME TransactionsAssumption ==
    /\ None \notin Calls
    /\ Statements \in Nat

VARIABLES
    conn,       \* the call that holds the engine connection
    begun,      \* the engine is in a transaction (not in autocommit)
    live,       \* the writes the engine connection sees
    committed,  \* those it would see after a ROLLBACK
    orphan,     \* a deferred constraint is violated in the open transaction
    kind,       \* what each call is
    pc,
    tx,         \* the sql.Tx of a call: "none", "open", "done"
    canceled,   \* the calls whose context is canceled
    acked,      \* the writes whose statements reported success
    textual,    \* history: the calls that sent BEGIN, COMMIT or ROLLBACK as SQL
                \* text
    dropped,    \* history: the calls whose transaction the engine dropped when
                \* a statement was interrupted by a context of its own
    stray       \* history: the writes of these calls after that

engine == <<begun, live, committed, orphan>>
history == <<textual, dropped, stray>>
vars == <<conn, engine, kind, pc, tx, canceled, acked, history>>

Writes == Calls \X (1..Statements)
Own(i) == {i} \X (1..Statements)

Init ==
    /\ conn = None
    /\ begun = FALSE /\ live = {} /\ committed = {} /\ orphan = FALSE
    /\ kind = [i \in Calls |-> "none"]
    /\ pc = [i \in Calls |-> "new"]
    /\ tx = [i \in Calls |-> "none"]
    /\ canceled = {}
    /\ acked = [i \in Calls |-> {}]
    /\ textual = {} /\ dropped = {} /\ stray = {}

-----------------------------------------------------------------------------
(* The engine *)

EngineBegin ==
    /\ ~begun
    /\ begun' = TRUE
    /\ UNCHANGED <<live, committed, orphan>>

\* A write is committed at once in autocommit.
EngineWrite(w) ==
    /\ live' = live \cup {w}
    /\ committed' = IF begun THEN committed ELSE live'
    /\ UNCHANGED <<begun, orphan>>

\* A write that violates a deferred constraint; autocommit would refuse it.
EngineOrphan(w) ==
    /\ begun
    /\ live' = live \cup {w}
    /\ orphan' = TRUE
    /\ UNCHANGED <<begun, committed>>

EngineCommit ==
    /\ begun /\ ~orphan
    /\ begun' = FALSE
    /\ committed' = live
    /\ UNCHANGED <<live, orphan>>

\* Mutant: a rollback that goes back to the beginning.
EngineRollbackAll ==
    /\ begun' = FALSE
    /\ live' = {}
    /\ orphan' = FALSE
    /\ UNCHANGED committed

\* ROLLBACK, refused without a transaction; also what SQLite does by itself when
\* a writing statement of a transaction is interrupted.
EngineRollback ==
    /\ begun' = FALSE
    /\ live' = committed
    /\ orphan' = FALSE
    /\ UNCHANGED committed

\* A statement of call i that reports success.
Executes(i) ==
    \/ \E n \in 1..Statements :
         /\ \A m \in 1..Statements : <<i, m>> \in acked[i] <=> m < n
         /\ EngineWrite(<<i, n>>) \/ EngineOrphan(<<i, n>>)
         /\ acked' = [acked EXCEPT ![i] = @ \cup {<<i, n>>}]
         /\ stray' = IF i \in dropped THEN stray \cup {<<i, n>>} ELSE stray
         /\ UNCHANGED <<textual, dropped>>
    \/ /\ textual' = textual \cup {i}
       /\ EngineBegin \/ EngineCommit \/ (begun /\ EngineRollback)
       /\ UNCHANGED <<acked, dropped, stray>>

-----------------------------------------------------------------------------
(* Calls *)

Goto(i, label) == pc' = [pc EXCEPT ![i] = label]

Start(i, k) ==
    /\ pc[i] = "new" /\ kind[i] = "none"
    /\ kind' = [kind EXCEPT ![i] = k]
    /\ UNCHANGED <<conn, engine, pc, tx, canceled, acked, history>>

Cancel(i) ==
    /\ kind[i] # "none" /\ pc[i] \in {"new", "running"}
    /\ canceled' = canceled \cup {i}
    /\ UNCHANGED <<conn, engine, kind, pc, tx, acked, history>>

\* The wait for the connection ends with the context.
Refused(i) ==
    /\ pc[i] = "new" /\ i \in canceled
    /\ Goto(i, "error")
    /\ UNCHANGED <<conn, engine, kind, tx, canceled, acked, history>>

\* Mutant: a statement whose wait is canceled runs on the held connection.
SingleAnyway(i) ==
    /\ pc[i] = "new" /\ kind[i] = "single"
    /\ conn = None \/ i \in canceled
    /\ Executes(i) /\ Goto(i, IF i \in canceled THEN "error" ELSE "ok")
    /\ UNCHANGED <<conn, kind, tx, canceled>>

\* execOne or queryOne on the pool.  Canceled while it runs, the statement may
\* take effect all the same.
Single(i) ==
    /\ pc[i] = "new" /\ kind[i] = "single"
    /\ conn = None
    /\ \/ Executes(i) /\ Goto(i, IF i \in canceled THEN "error" ELSE "ok")
       \/ UNCHANGED <<engine, acked, history>> /\ Goto(i, "error")
    /\ UNCHANGED <<conn, kind, tx, canceled>>

\* sqlDB.BeginTx and sqlConnection.BeginTx; a refused BEGIN gives the
\* connection back.
Begin(i) ==
    /\ pc[i] = "new" /\ kind[i] \in {"script", "adapter"}
    /\ conn = None
    /\ \/ /\ EngineBegin
          /\ conn' = i
          /\ tx' = [tx EXCEPT ![i] = "open"]
          /\ Goto(i, "running")
       \/ /\ begun
          /\ Goto(i, "error")
          /\ UNCHANGED <<conn, engine, tx>>
    /\ UNCHANGED <<kind, canceled, acked, history>>

\* The call ends with outcome r and gives the connection back.
End(i, r) ==
    /\ Goto(i, r)
    /\ tx' = [tx EXCEPT ![i] = "done"]
    /\ conn' = IF conn = i THEN None ELSE conn
    /\ UNCHANGED <<kind, canceled, acked, history>>

\* sql.Tx.Rollback: nothing if the Tx is done; ROLLBACK is refused, and the
\* refusal ignored, if the engine has no transaction.
TxRollback(i) ==
    IF tx[i] = "open" /\ begun THEN EngineRollback ELSE UNCHANGED engine

\* sql.Tx.Commit: refused if the context is canceled, and then the Tx is rolled
\* back; with an error of the engine the Tx is done and a later Rollback does
\* nothing.  The driver clears a transaction whose COMMIT fails.
TxCommits(i) == tx[i] = "open" /\ i \notin canceled /\ EngineCommit

TxCommitFails(i) ==
    \/ tx[i] = "done" /\ UNCHANGED engine
    \/ tx[i] = "open" /\ i \in canceled /\ TxRollback(i)
    \/ tx[i] = "open" /\ i \notin canceled /\ ~begun /\ UNCHANGED engine
    \/ tx[i] = "open" /\ i \notin canceled /\ begun /\ orphan /\ EngineRollback

\* database/sql rolls the transaction of a canceled context back by itself.  A
\* script's connection is free then, an adapter transaction's stays pinned.
AwaitDone(i) ==
    /\ pc[i] = "running" /\ tx[i] = "open" /\ i \in canceled
    /\ TxRollback(i)
    /\ tx' = [tx EXCEPT ![i] = "done"]
    /\ conn' = IF kind[i] = "script" THEN None ELSE conn
    /\ UNCHANGED <<kind, pc, canceled, acked, history>>

-----------------------------------------------------------------------------
(* Scripts *)

ScriptStatement(i) ==
    /\ pc[i] = "running" /\ kind[i] = "script" /\ tx[i] = "open"
    /\ Executes(i)
    /\ UNCHANGED <<conn, kind, pc, tx, canceled>>

\* Mutant: the deferred Rollback is missing.
ScriptFailsOnly(i) ==
    /\ pc[i] = "running" /\ kind[i] = "script"
    /\ UNCHANGED engine
    /\ End(i, "error")

\* A statement fails (rejected, interrupted, or the Tx is done) and the deferred
\* Rollback runs.
ScriptFails(i) ==
    /\ pc[i] = "running" /\ kind[i] = "script"
    /\ TxRollback(i)
    /\ End(i, "error")

\* transaction.Commit after the last statement.
ScriptCommit(i) ==
    /\ pc[i] = "running" /\ kind[i] = "script"
    /\ \/ TxCommits(i) /\ End(i, "ok")
       \/ TxCommitFails(i) /\ End(i, "error")

-----------------------------------------------------------------------------
(* Adapter transactions *)

\* Mutant: the statement of a transaction that is done runs on the connection.
AdapterStatementAnyway(i) ==
    /\ pc[i] = "running" /\ kind[i] = "adapter"
    /\ Executes(i)
    /\ UNCHANGED <<conn, kind, pc, tx, canceled>>

\* A statement of the transaction.  One that fails (also with ErrTxDone) changes
\* nothing: the client goes on.
AdapterStatement(i) ==
    /\ pc[i] = "running" /\ kind[i] = "adapter" /\ tx[i] = "open"
    /\ Executes(i)
    /\ UNCHANGED <<conn, kind, pc, tx, canceled>>

\* A writing statement is interrupted by its own context (sql.Tx.ExecContext):
\* the engine drops the transaction, the sql.Tx stays.
AdapterInterrupted(i) ==
    /\ pc[i] = "running" /\ kind[i] = "adapter" /\ tx[i] = "open"
    /\ begun /\ EngineRollback
    /\ dropped' = dropped \cup {i}
    /\ UNCHANGED <<conn, kind, pc, tx, canceled, acked, textual, stray>>

\* finish(false), and sqlConnection.Close.
AdapterRollback(i) ==
    /\ pc[i] = "running" /\ kind[i] = "adapter"
    /\ TxRollback(i)
    /\ End(i, "error")

\* Mutant: the error of Commit is dropped.
AdapterCommitIgnored(i) ==
    /\ pc[i] = "running" /\ kind[i] = "adapter"
    /\ \/ TxCommits(i) /\ End(i, "ok")
       \/ TxCommitFails(i) /\ End(i, "ok")

\* finish(true).
AdapterCommit(i) ==
    /\ pc[i] = "running" /\ kind[i] = "adapter"
    /\ \/ TxCommits(i) /\ End(i, "ok")
       \/ TxCommitFails(i) /\ End(i, "error")

-----------------------------------------------------------------------------
(* The specification *)

Next ==
    \E i \in Calls :
      \/ \E k \in {"single", "script", "adapter"} : Start(i, k)
      \/ Cancel(i) \/ Refused(i) \/ Single(i) \/ Begin(i) \/ AwaitDone(i)
      \/ ScriptStatement(i) \/ ScriptFails(i) \/ ScriptCommit(i)
      \/ AdapterStatement(i) \/ AdapterInterrupted(i)
      \/ AdapterRollback(i) \/ AdapterCommit(i)

Spec == Init /\ [][Next]_vars

-----------------------------------------------------------------------------
(* Properties *)

\* Every variable has its type; what is committed is visible.
TypeOK ==
    /\ conn \in Calls \cup {None}
    /\ begun \in BOOLEAN /\ orphan \in BOOLEAN
    /\ live \subseteq Writes /\ committed \subseteq live
    /\ kind \in [Calls -> {"none", "single", "script", "adapter"}]
    /\ pc \in [Calls -> {"new", "running", "ok", "error"}]
    /\ tx \in [Calls -> {"none", "open", "done"}]
    /\ canceled \subseteq Calls
    /\ acked \in [Calls -> SUBSET Writes]
    /\ textual \subseteq Calls /\ dropped \subseteq Calls /\ stray \subseteq Writes

\* No statement on its own was transaction control as SQL text: it would leave
\* the shared connection in a transaction, or end one that was left so.
NoLooseControl == \A i \in textual : kind[i] # "single"

\* What a call that succeeded wrote stays, whatever other callers roll back and
\* whatever the engine dropped: Commit never reports success for writes that are
\* gone.  For a script or a transaction that sends no transaction control as SQL
\* text this holds whatever text others send.
AcknowledgedIsKept ==
    \A i \in Calls \ textual :
        pc[i] = "ok" /\ (kind[i] = "single" => NoLooseControl)
          => acked[i] \subseteq committed

\* Likewise, a script that returns an error and a transaction that is rolled
\* back, or whose Commit fails, leave nothing behind but the stray writes:
\* those acknowledged after an interrupted statement made the engine drop the
\* transaction were committed one by one, and all of them stay.
FailedLeavesNothing ==
    \A i \in Calls \ textual :
        kind[i] \in {"script", "adapter"} /\ pc[i] = "error" =>
            live \cap Own(i) = stray \cap Own(i)

\* While a script or an adapter transaction holds the connection, only its own
\* writes appear and become durable, whatever SQL text, cancellations and
\* interruptions do to the engine's transaction.
PinnedIsPrivate ==
    [][conn # None =>
         (live' \ live) \cup (committed' \ committed) \subseteq Own(conn)]_vars

\* The pool never hands out a connection that is still in a transaction, also
\* after scripts and transactions with transaction control as SQL text; only a
\* BEGIN that was a statement on its own may stay open.
IdleConnectionIsClean ==
    NoLooseControl /\ conn = None => ~begun /\ live = committed

=============================================================================
