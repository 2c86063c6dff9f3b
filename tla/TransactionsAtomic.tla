------------------------- MODULE TransactionsAtomic -------------------------
(***************************************************************************)
(* Theorems about Transactions, for any number of calls and statements:    *)
(* types, atomicity, durability, a clean connection, and privacy of the    *)
(* connection while it is held.                                            *)
(***************************************************************************)
EXTENDS Transactions, TLAPS

-----------------------------------------------------------------------------
(* The inductive invariant *)

Transactional == {"script", "adapter"}

\* Who holds the connection, and whose sql.Tx is open.
Holder ==
    /\ conn # None =>
         /\ pc[conn] = "running"
         /\ kind[conn] = "script" => tx[conn] = "open"
    /\ \A i \in Calls :
         /\ tx[i] = "open" => conn = i
         /\ pc[i] = "new" => tx[i] = "none"
         /\ pc[i] = "running" => kind[i] \in Transactional /\ tx[i] # "none"
         /\ pc[i] = "running" /\ kind[i] = "adapter" => conn = i

\* Outside a transaction there is nothing to roll back.
Autocommit == ~begun => live = committed /\ ~orphan

\* A call that has not begun has written nothing and lost nothing.
Unstarted ==
    \A i \in Calls :
        /\ pc[i] = "new" =>
             /\ acked[i] = {} /\ live \cap Own(i) = {} /\ stray \cap Own(i) = {}
             /\ i \notin dropped /\ i \notin textual
        /\ i \notin dropped => stray \cap Own(i) = {}

\* Only the holder has uncommitted writes.
Private == conn # None => live \ committed \subseteq Own(conn)

\* A transaction that sends no transaction control as SQL text is the engine's,
\* unless the engine dropped it.
Aligned ==
    \A i \in Calls \ textual : tx[i] = "open" =>
        /\ begun <=> i \notin dropped
        /\ begun => acked[i] \subseteq live

\* Only a statement on its own can leave the engine in a transaction that is
\* nobody's.
Tidy == NoLooseControl => (begun => conn # None /\ tx[conn] = "open")

\* Of a call that may still fail, or has failed, the stray writes are committed
\* and nothing else; once its sql.Tx is done, nothing else is even visible.
Undone ==
    \A i \in Calls \ textual : kind[i] \in Transactional =>
        /\ pc[i] \in {"running", "error"} =>
             committed \cap Own(i) = stray \cap Own(i)
        /\ pc[i] = "error" \/ (pc[i] = "running" /\ tx[i] = "done") =>
             live \cap Own(i) = stray \cap Own(i)

AtomicInv ==
    /\ TypeOK /\ Holder /\ Autocommit /\ Unstarted /\ Private
    /\ Aligned /\ Tidy /\ Undone /\ AcknowledgedIsKept

-----------------------------------------------------------------------------
(* Lemmas *)

\* The writes of different calls are different.
LEMMA OwnWrites ==
    /\ \A i \in Calls : Own(i) \subseteq Writes
    /\ \A i, j \in Calls : i # j => Own(i) \cap Own(j) = {}
BY DEF Own, Writes

\* What a statement that succeeds does: one more write of its own, committed at
\* once in autocommit.
WritesOne(i, w) ==
    /\ live' = live \cup {w}
    /\ committed' = IF begun THEN committed ELSE live'
    /\ acked' = [acked EXCEPT ![i] = @ \cup {w}]
    /\ begun' = begun /\ (~begun => orphan' = orphan) /\ orphan' \in BOOLEAN
    /\ textual' = textual /\ dropped' = dropped
    /\ stray' = IF i \in dropped THEN stray \cup {w} ELSE stray

\* Transaction control as SQL text.
Controls(i) ==
    /\ textual' = textual \cup {i}
    /\ dropped' = dropped /\ acked' = acked /\ stray' = stray
    /\ begun' \in BOOLEAN /\ orphan' \in BOOLEAN
    /\ ~begun' => live' = committed' /\ ~orphan'
    /\ live' \subseteq live /\ committed' \subseteq live'
    /\ committed \subseteq committed'

\* A statement that reports success is one of the two.
LEMMA ExecutesEffect ==
    ASSUME TypeOK, Autocommit, NEW i \in Calls, Executes(i)
    PROVE  (\E w \in Own(i) : WritesOne(i, w)) \/ Controls(i)
<1>1. ASSUME NEW n \in 1..Statements,
             EngineWrite(<<i, n>>) \/ EngineOrphan(<<i, n>>),
             acked' = [acked EXCEPT ![i] = @ \cup {<<i, n>>}],
             stray' = IF i \in dropped THEN stray \cup {<<i, n>>} ELSE stray,
             UNCHANGED <<textual, dropped>>
      PROVE  \E w \in Own(i) : WritesOne(i, w)
  <2>1. <<i, n>> \in Own(i)
    BY DEF Own
  <2> QED
    BY <1>1, <2>1 DEF WritesOne, EngineWrite, EngineOrphan, history, TypeOK
<1>2. ASSUME textual' = textual \cup {i}, UNCHANGED <<acked, dropped, stray>>,
             EngineBegin \/ EngineCommit \/ (begun /\ EngineRollback)
      PROVE  Controls(i)
  <2>1. CASE EngineBegin
    BY <1>2, <2>1 DEF Controls, EngineBegin, TypeOK
  <2>2. CASE EngineCommit
    BY <1>2, <2>2 DEF Controls, EngineCommit, TypeOK
  <2>3. CASE EngineRollback
    BY <1>2, <2>3 DEF Controls, EngineRollback, TypeOK
  <2> QED
    BY <1>2, <2>1, <2>2, <2>3
<1> QED
  BY <1>1, <1>2 DEF Executes

\* A step of call i.
Step(i) ==
    \/ \E k \in {"single", "script", "adapter"} : Start(i, k)
    \/ Cancel(i) \/ Refused(i) \/ Single(i) \/ Begin(i) \/ AwaitDone(i)
    \/ ScriptStatement(i) \/ ScriptFails(i) \/ ScriptCommit(i)
    \/ AdapterStatement(i) \/ AdapterInterrupted(i)
    \/ AdapterRollback(i) \/ AdapterCommit(i)

\* Steps keep the types.
LEMMA TypesStep ==
    ASSUME AtomicInv, NEW i \in Calls, Step(i)
    PROVE  TypeOK'
<1> USE TransactionsAssumption, OwnWrites
    DEF AtomicInv, TypeOK,
        Transactional, Goto, engine, history
<1>1. CASE \E k \in {"single", "script", "adapter"} : Start(i, k)
  BY <1>1 DEF Start
<1>2. CASE Cancel(i)
  BY <1>2 DEF Cancel
<1>3. CASE Refused(i)
  BY <1>3 DEF Refused
<1>4. CASE Single(i)
  <2>1. CASE UNCHANGED <<engine, acked, history>>
    BY <1>4, <2>1 DEF Single
  <2>2. ASSUME NEW w \in Own(i), WritesOne(i, w) PROVE TypeOK'
    BY <1>4, <2>2 DEF Single, WritesOne
  <2>3. CASE Controls(i)
    BY <1>4, <2>3 DEF Single, Controls
  <2> QED
    BY <1>4, <2>1, <2>2, <2>3, ExecutesEffect DEF Single
<1>5. CASE Begin(i)
  BY <1>5 DEF Begin, EngineBegin
<1>6. CASE AwaitDone(i)
  BY <1>6 DEF AwaitDone, TxRollback, EngineRollback
<1>7. CASE ScriptStatement(i)
  <2>1. ASSUME NEW w \in Own(i), WritesOne(i, w) PROVE TypeOK'
    BY <1>7, <2>1 DEF ScriptStatement, WritesOne
  <2>2. CASE Controls(i)
    BY <1>7, <2>2 DEF ScriptStatement, Controls
  <2> QED
    BY <1>7, <2>1, <2>2, ExecutesEffect DEF ScriptStatement
<1>8. CASE ScriptFails(i)
  BY <1>8 DEF ScriptFails, End, TxRollback, EngineRollback
<1>9. CASE ScriptCommit(i)
  <2>1. CASE TxCommits(i) /\ End(i, "ok")
    BY <2>1, <1>9 DEF ScriptCommit, End, TxCommits, EngineCommit
  <2>2. CASE TxCommitFails(i) /\ End(i, "error")
    BY <2>2, <1>9 DEF ScriptCommit, End, TxCommitFails, TxRollback, EngineRollback
  <2> QED
    BY <1>9, <2>1, <2>2 DEF ScriptCommit
<1>10. CASE AdapterStatement(i)
  <2>1. ASSUME NEW w \in Own(i), WritesOne(i, w) PROVE TypeOK'
    BY <1>10, <2>1 DEF AdapterStatement, WritesOne
  <2>2. CASE Controls(i)
    BY <1>10, <2>2 DEF AdapterStatement, Controls
  <2> QED
    BY <1>10, <2>1, <2>2, ExecutesEffect DEF AdapterStatement
<1>11. CASE AdapterInterrupted(i)
  BY <1>11 DEF AdapterInterrupted, EngineRollback
<1>12. CASE AdapterRollback(i)
  BY <1>12 DEF AdapterRollback, End, TxRollback, EngineRollback
<1>13. CASE AdapterCommit(i)
  <2>1. CASE TxCommits(i) /\ End(i, "ok")
    BY <2>1, <1>13 DEF AdapterCommit, End, TxCommits, EngineCommit
  <2>2. CASE TxCommitFails(i) /\ End(i, "error")
    BY <2>2, <1>13 DEF AdapterCommit, End, TxCommitFails, TxRollback, EngineRollback
  <2> QED
    BY <1>13, <2>1, <2>2 DEF AdapterCommit
<1> QED
  BY <1>1, <1>2, <1>3, <1>4, <1>5, <1>6, <1>7, <1>8, <1>9, <1>10, <1>11, <1>12,
     <1>13 DEF Step

\* The connection is taken and given back with the sql.Tx; a script gives it back
\* when its sql.Tx ends, an adapter transaction when the client ends it.
LEMMA HolderStep ==
    ASSUME AtomicInv, NEW i \in Calls, Step(i)
    PROVE  Holder'
<1> USE TransactionsAssumption
    DEF AtomicInv, TypeOK, Holder,
        Transactional, Goto, engine, history
<1>1. CASE \E k \in {"single", "script", "adapter"} : Start(i, k)
  BY <1>1 DEF Start
<1>2. CASE Cancel(i)
  BY <1>2 DEF Cancel
<1>3. CASE Refused(i)
  BY <1>3 DEF Refused
<1>4. CASE Single(i)
  <2>1. CASE UNCHANGED <<engine, acked, history>>
    BY <1>4, <2>1 DEF Single
  <2>2. ASSUME NEW w \in Own(i), WritesOne(i, w) PROVE Holder'
    BY <1>4, <2>2 DEF Single, WritesOne
  <2>3. CASE Controls(i)
    BY <1>4, <2>3 DEF Single, Controls
  <2> QED
    BY <1>4, <2>1, <2>2, <2>3, ExecutesEffect DEF Single
<1>5. CASE Begin(i)
  BY <1>5 DEF Begin, EngineBegin
<1>6. CASE AwaitDone(i)
  BY <1>6 DEF AwaitDone, TxRollback, EngineRollback
<1>7. CASE ScriptStatement(i)
  <2>1. ASSUME NEW w \in Own(i), WritesOne(i, w) PROVE Holder'
    BY <1>7, <2>1 DEF ScriptStatement, WritesOne
  <2>2. CASE Controls(i)
    BY <1>7, <2>2 DEF ScriptStatement, Controls
  <2> QED
    BY <1>7, <2>1, <2>2, ExecutesEffect DEF ScriptStatement
<1>8. CASE ScriptFails(i)
  BY <1>8 DEF ScriptFails, End, TxRollback, EngineRollback
<1>9. CASE ScriptCommit(i)
  <2>1. CASE TxCommits(i) /\ End(i, "ok")
    BY <2>1, <1>9 DEF ScriptCommit, End, TxCommits, EngineCommit
  <2>2. CASE TxCommitFails(i) /\ End(i, "error")
    BY <2>2, <1>9 DEF ScriptCommit, End, TxCommitFails, TxRollback, EngineRollback
  <2> QED
    BY <1>9, <2>1, <2>2 DEF ScriptCommit
<1>10. CASE AdapterStatement(i)
  <2>1. ASSUME NEW w \in Own(i), WritesOne(i, w) PROVE Holder'
    BY <1>10, <2>1 DEF AdapterStatement, WritesOne
  <2>2. CASE Controls(i)
    BY <1>10, <2>2 DEF AdapterStatement, Controls
  <2> QED
    BY <1>10, <2>1, <2>2, ExecutesEffect DEF AdapterStatement
<1>11. CASE AdapterInterrupted(i)
  BY <1>11 DEF AdapterInterrupted, EngineRollback
<1>12. CASE AdapterRollback(i)
  BY <1>12 DEF AdapterRollback, End, TxRollback, EngineRollback
<1>13. CASE AdapterCommit(i)
  <2>1. CASE TxCommits(i) /\ End(i, "ok")
    BY <2>1, <1>13 DEF AdapterCommit, End, TxCommits, EngineCommit
  <2>2. CASE TxCommitFails(i) /\ End(i, "error")
    BY <2>2, <1>13 DEF AdapterCommit, End, TxCommitFails, TxRollback, EngineRollback
  <2> QED
    BY <1>13, <2>1, <2>2 DEF AdapterCommit
<1> QED
  BY <1>1, <1>2, <1>3, <1>4, <1>5, <1>6, <1>7, <1>8, <1>9, <1>10, <1>11, <1>12,
     <1>13 DEF Step

\* Whatever ends the engine's transaction leaves nothing uncommitted.
LEMMA AutocommitStep ==
    ASSUME AtomicInv, NEW i \in Calls, Step(i)
    PROVE  Autocommit'
<1> USE TransactionsAssumption
    DEF AtomicInv, TypeOK, Autocommit,
        Transactional, Goto, engine, history
<1>1. CASE \E k \in {"single", "script", "adapter"} : Start(i, k)
  BY <1>1 DEF Start
<1>2. CASE Cancel(i)
  BY <1>2 DEF Cancel
<1>3. CASE Refused(i)
  BY <1>3 DEF Refused
<1>4. CASE Single(i)
  <2>1. CASE UNCHANGED <<engine, acked, history>>
    BY <1>4, <2>1 DEF Single
  <2>2. ASSUME NEW w \in Own(i), WritesOne(i, w) PROVE Autocommit'
    BY <1>4, <2>2 DEF Single, WritesOne
  <2>3. CASE Controls(i)
    BY <1>4, <2>3 DEF Single, Controls
  <2> QED
    BY <1>4, <2>1, <2>2, <2>3, ExecutesEffect DEF Single
<1>5. CASE Begin(i)
  BY <1>5 DEF Begin, EngineBegin
<1>6. CASE AwaitDone(i)
  BY <1>6 DEF AwaitDone, TxRollback, EngineRollback
<1>7. CASE ScriptStatement(i)
  <2>1. ASSUME NEW w \in Own(i), WritesOne(i, w) PROVE Autocommit'
    BY <1>7, <2>1 DEF ScriptStatement, WritesOne
  <2>2. CASE Controls(i)
    BY <1>7, <2>2 DEF ScriptStatement, Controls
  <2> QED
    BY <1>7, <2>1, <2>2, ExecutesEffect DEF ScriptStatement
<1>8. CASE ScriptFails(i)
  BY <1>8 DEF ScriptFails, End, TxRollback, EngineRollback
<1>9. CASE ScriptCommit(i)
  <2>1. CASE TxCommits(i) /\ End(i, "ok")
    BY <2>1, <1>9 DEF ScriptCommit, End, TxCommits, EngineCommit
  <2>2. CASE TxCommitFails(i) /\ End(i, "error")
    BY <2>2, <1>9 DEF ScriptCommit, End, TxCommitFails, TxRollback, EngineRollback
  <2> QED
    BY <1>9, <2>1, <2>2 DEF ScriptCommit
<1>10. CASE AdapterStatement(i)
  <2>1. ASSUME NEW w \in Own(i), WritesOne(i, w) PROVE Autocommit'
    BY <1>10, <2>1 DEF AdapterStatement, WritesOne
  <2>2. CASE Controls(i)
    BY <1>10, <2>2 DEF AdapterStatement, Controls
  <2> QED
    BY <1>10, <2>1, <2>2, ExecutesEffect DEF AdapterStatement
<1>11. CASE AdapterInterrupted(i)
  BY <1>11 DEF AdapterInterrupted, EngineRollback
<1>12. CASE AdapterRollback(i)
  BY <1>12 DEF AdapterRollback, End, TxRollback, EngineRollback
<1>13. CASE AdapterCommit(i)
  <2>1. CASE TxCommits(i) /\ End(i, "ok")
    BY <2>1, <1>13 DEF AdapterCommit, End, TxCommits, EngineCommit
  <2>2. CASE TxCommitFails(i) /\ End(i, "error")
    BY <2>2, <1>13 DEF AdapterCommit, End, TxCommitFails, TxRollback, EngineRollback
  <2> QED
    BY <1>13, <2>1, <2>2 DEF AdapterCommit
<1> QED
  BY <1>1, <1>2, <1>3, <1>4, <1>5, <1>6, <1>7, <1>8, <1>9, <1>10, <1>11, <1>12,
     <1>13 DEF Step

\* A call that has not begun stays without writes: others write their own.
LEMMA UnstartedStep ==
    ASSUME AtomicInv, NEW i \in Calls, Step(i)
    PROVE  Unstarted'
<1> USE TransactionsAssumption, OwnWrites
    DEF AtomicInv, TypeOK, Unstarted,
        Transactional, Goto, engine, history
<1>1. CASE \E k \in {"single", "script", "adapter"} : Start(i, k)
  BY <1>1 DEF Start
<1>2. CASE Cancel(i)
  BY <1>2 DEF Cancel
<1>3. CASE Refused(i)
  BY <1>3 DEF Refused
<1>4. CASE Single(i)
  <2>1. CASE UNCHANGED <<engine, acked, history>>
    BY <1>4, <2>1 DEF Single
  <2>2. ASSUME NEW w \in Own(i), WritesOne(i, w) PROVE Unstarted'
    BY <1>4, <2>2 DEF Single, WritesOne
  <2>3. CASE Controls(i)
    BY <1>4, <2>3 DEF Single, Controls
  <2> QED
    BY <1>4, <2>1, <2>2, <2>3, ExecutesEffect DEF Single
<1>5. CASE Begin(i)
  BY <1>5 DEF Begin, EngineBegin
<1>6. CASE AwaitDone(i)
  BY <1>6 DEF AwaitDone, TxRollback, EngineRollback
<1>7. CASE ScriptStatement(i)
  <2>1. ASSUME NEW w \in Own(i), WritesOne(i, w) PROVE Unstarted'
    BY <1>7, <2>1 DEF ScriptStatement, WritesOne
  <2>2. CASE Controls(i)
    BY <1>7, <2>2 DEF ScriptStatement, Controls
  <2> QED
    BY <1>7, <2>1, <2>2, ExecutesEffect DEF ScriptStatement
<1>8. CASE ScriptFails(i)
  BY <1>8 DEF ScriptFails, End, TxRollback, EngineRollback
<1>9. CASE ScriptCommit(i)
  <2>1. CASE TxCommits(i) /\ End(i, "ok")
    BY <2>1, <1>9 DEF ScriptCommit, End, TxCommits, EngineCommit
  <2>2. CASE TxCommitFails(i) /\ End(i, "error")
    BY <2>2, <1>9 DEF ScriptCommit, End, TxCommitFails, TxRollback, EngineRollback
  <2> QED
    BY <1>9, <2>1, <2>2 DEF ScriptCommit
<1>10. CASE AdapterStatement(i)
  <2>1. ASSUME NEW w \in Own(i), WritesOne(i, w) PROVE Unstarted'
    BY <1>10, <2>1 DEF AdapterStatement, WritesOne
  <2>2. CASE Controls(i)
    BY <1>10, <2>2 DEF AdapterStatement, Controls
  <2> QED
    BY <1>10, <2>1, <2>2, ExecutesEffect DEF AdapterStatement
<1>11. CASE AdapterInterrupted(i)
  BY <1>11 DEF AdapterInterrupted, EngineRollback
<1>12. CASE AdapterRollback(i)
  BY <1>12 DEF AdapterRollback, End, TxRollback, EngineRollback
<1>13. CASE AdapterCommit(i)
  <2>1. CASE TxCommits(i) /\ End(i, "ok")
    BY <2>1, <1>13 DEF AdapterCommit, End, TxCommits, EngineCommit
  <2>2. CASE TxCommitFails(i) /\ End(i, "error")
    BY <2>2, <1>13 DEF AdapterCommit, End, TxCommitFails, TxRollback, EngineRollback
  <2> QED
    BY <1>13, <2>1, <2>2 DEF AdapterCommit
<1> QED
  BY <1>1, <1>2, <1>3, <1>4, <1>5, <1>6, <1>7, <1>8, <1>9, <1>10, <1>11, <1>12,
     <1>13 DEF Step

\* Statements and BEGIN need the connection, so that only the holder can add
\* uncommitted writes.
LEMMA PrivateStep ==
    ASSUME AtomicInv, NEW i \in Calls, Step(i)
    PROVE  Private'
<1> USE TransactionsAssumption
    DEF AtomicInv, TypeOK, Holder, Autocommit, Private,
        Transactional, Goto, engine, history
<1>1. CASE \E k \in {"single", "script", "adapter"} : Start(i, k)
  BY <1>1 DEF Start
<1>2. CASE Cancel(i)
  BY <1>2 DEF Cancel
<1>3. CASE Refused(i)
  BY <1>3 DEF Refused
<1>4. CASE Single(i)
  <2>1. CASE UNCHANGED <<engine, acked, history>>
    BY <1>4, <2>1 DEF Single
  <2>2. ASSUME NEW w \in Own(i), WritesOne(i, w) PROVE Private'
    BY <1>4, <2>2 DEF Single, WritesOne
  <2>3. CASE Controls(i)
    BY <1>4, <2>3 DEF Single, Controls
  <2> QED
    BY <1>4, <2>1, <2>2, <2>3, ExecutesEffect DEF Single
<1>5. CASE Begin(i)
  BY <1>5 DEF Begin, EngineBegin
<1>6. CASE AwaitDone(i)
  BY <1>6 DEF AwaitDone, TxRollback, EngineRollback
<1>7. CASE ScriptStatement(i)
  <2>1. ASSUME NEW w \in Own(i), WritesOne(i, w) PROVE Private'
    BY <1>7, <2>1 DEF ScriptStatement, WritesOne
  <2>2. CASE Controls(i)
    BY <1>7, <2>2 DEF ScriptStatement, Controls
  <2> QED
    BY <1>7, <2>1, <2>2, ExecutesEffect DEF ScriptStatement
<1>8. CASE ScriptFails(i)
  BY <1>8 DEF ScriptFails, End, TxRollback, EngineRollback
<1>9. CASE ScriptCommit(i)
  <2>1. CASE TxCommits(i) /\ End(i, "ok")
    BY <2>1, <1>9 DEF ScriptCommit, End, TxCommits, EngineCommit
  <2>2. CASE TxCommitFails(i) /\ End(i, "error")
    BY <2>2, <1>9 DEF ScriptCommit, End, TxCommitFails, TxRollback, EngineRollback
  <2> QED
    BY <1>9, <2>1, <2>2 DEF ScriptCommit
<1>10. CASE AdapterStatement(i)
  <2>1. ASSUME NEW w \in Own(i), WritesOne(i, w) PROVE Private'
    BY <1>10, <2>1 DEF AdapterStatement, WritesOne
  <2>2. CASE Controls(i)
    BY <1>10, <2>2 DEF AdapterStatement, Controls
  <2> QED
    BY <1>10, <2>1, <2>2, ExecutesEffect DEF AdapterStatement
<1>11. CASE AdapterInterrupted(i)
  BY <1>11 DEF AdapterInterrupted, EngineRollback
<1>12. CASE AdapterRollback(i)
  BY <1>12 DEF AdapterRollback, End, TxRollback, EngineRollback
<1>13. CASE AdapterCommit(i)
  <2>1. CASE TxCommits(i) /\ End(i, "ok")
    BY <2>1, <1>13 DEF AdapterCommit, End, TxCommits, EngineCommit
  <2>2. CASE TxCommitFails(i) /\ End(i, "error")
    BY <2>2, <1>13 DEF AdapterCommit, End, TxCommitFails, TxRollback, EngineRollback
  <2> QED
    BY <1>13, <2>1, <2>2 DEF AdapterCommit
<1> QED
  BY <1>1, <1>2, <1>3, <1>4, <1>5, <1>6, <1>7, <1>8, <1>9, <1>10, <1>11, <1>12,
     <1>13 DEF Step

\* The engine's transaction begins and ends with the holder's sql.Tx.
LEMMA AlignedStep ==
    ASSUME AtomicInv, NEW i \in Calls, Step(i)
    PROVE  Aligned'
<1> USE TransactionsAssumption
    DEF AtomicInv, TypeOK, Holder, Unstarted, Aligned,
        Transactional, Goto, engine, history
<1>1. CASE \E k \in {"single", "script", "adapter"} : Start(i, k)
  BY <1>1 DEF Start
<1>2. CASE Cancel(i)
  BY <1>2 DEF Cancel
<1>3. CASE Refused(i)
  BY <1>3 DEF Refused
<1>4. CASE Single(i)
  <2>1. CASE UNCHANGED <<engine, acked, history>>
    BY <1>4, <2>1 DEF Single
  <2>2. ASSUME NEW w \in Own(i), WritesOne(i, w) PROVE Aligned'
    BY <1>4, <2>2 DEF Single, WritesOne
  <2>3. CASE Controls(i)
    BY <1>4, <2>3 DEF Single, Controls
  <2> QED
    BY <1>4, <2>1, <2>2, <2>3, ExecutesEffect DEF Single
<1>5. CASE Begin(i)
  BY <1>5 DEF Begin, EngineBegin
<1>6. CASE AwaitDone(i)
  BY <1>6 DEF AwaitDone, TxRollback, EngineRollback
<1>7. CASE ScriptStatement(i)
  <2>1. ASSUME NEW w \in Own(i), WritesOne(i, w) PROVE Aligned'
    BY <1>7, <2>1 DEF ScriptStatement, WritesOne
  <2>2. CASE Controls(i)
    BY <1>7, <2>2 DEF ScriptStatement, Controls
  <2> QED
    BY <1>7, <2>1, <2>2, ExecutesEffect DEF ScriptStatement
<1>8. CASE ScriptFails(i)
  BY <1>8 DEF ScriptFails, End, TxRollback, EngineRollback
<1>9. CASE ScriptCommit(i)
  <2>1. CASE TxCommits(i) /\ End(i, "ok")
    BY <2>1, <1>9 DEF ScriptCommit, End, TxCommits, EngineCommit
  <2>2. CASE TxCommitFails(i) /\ End(i, "error")
    BY <2>2, <1>9 DEF ScriptCommit, End, TxCommitFails, TxRollback, EngineRollback
  <2> QED
    BY <1>9, <2>1, <2>2 DEF ScriptCommit
<1>10. CASE AdapterStatement(i)
  <2>1. ASSUME NEW w \in Own(i), WritesOne(i, w) PROVE Aligned'
    BY <1>10, <2>1 DEF AdapterStatement, WritesOne
  <2>2. CASE Controls(i)
    BY <1>10, <2>2 DEF AdapterStatement, Controls
  <2> QED
    BY <1>10, <2>1, <2>2, ExecutesEffect DEF AdapterStatement
<1>11. CASE AdapterInterrupted(i)
  BY <1>11 DEF AdapterInterrupted, EngineRollback
<1>12. CASE AdapterRollback(i)
  BY <1>12 DEF AdapterRollback, End, TxRollback, EngineRollback
<1>13. CASE AdapterCommit(i)
  <2>1. CASE TxCommits(i) /\ End(i, "ok")
    BY <2>1, <1>13 DEF AdapterCommit, End, TxCommits, EngineCommit
  <2>2. CASE TxCommitFails(i) /\ End(i, "error")
    BY <2>2, <1>13 DEF AdapterCommit, End, TxCommitFails, TxRollback, EngineRollback
  <2> QED
    BY <1>13, <2>1, <2>2 DEF AdapterCommit
<1> QED
  BY <1>1, <1>2, <1>3, <1>4, <1>5, <1>6, <1>7, <1>8, <1>9, <1>10, <1>11, <1>12,
     <1>13 DEF Step

\* Whoever gives the connection back has ended the engine's transaction.
LEMMA TidyStep ==
    ASSUME AtomicInv, NEW i \in Calls, Step(i)
    PROVE  Tidy'
<1> USE TransactionsAssumption
    DEF AtomicInv, TypeOK, Holder, Unstarted, Tidy, NoLooseControl,
        Transactional, Goto, engine, history
<1>1. CASE \E k \in {"single", "script", "adapter"} : Start(i, k)
  BY <1>1 DEF Start
<1>2. CASE Cancel(i)
  BY <1>2 DEF Cancel
<1>3. CASE Refused(i)
  BY <1>3 DEF Refused
<1>4. CASE Single(i)
  <2>1. CASE UNCHANGED <<engine, acked, history>>
    BY <1>4, <2>1 DEF Single
  <2>2. ASSUME NEW w \in Own(i), WritesOne(i, w) PROVE Tidy'
    BY <1>4, <2>2 DEF Single, WritesOne
  <2>3. CASE Controls(i)
    BY <1>4, <2>3 DEF Single, Controls
  <2> QED
    BY <1>4, <2>1, <2>2, <2>3, ExecutesEffect DEF Single
<1>5. CASE Begin(i)
  <2>1. CASE conn' = i /\ tx' = [tx EXCEPT ![i] = "open"]
    BY <2>1
  <2>2. CASE UNCHANGED <<conn, engine, tx>>
    BY <1>5, <2>2 DEF Begin
  <2> QED
    BY <1>5, <2>1, <2>2 DEF Begin
<1>6. CASE AwaitDone(i)
  BY <1>6 DEF AwaitDone, TxRollback, EngineRollback
<1>7. CASE ScriptStatement(i)
  <2>1. ASSUME NEW w \in Own(i), WritesOne(i, w) PROVE Tidy'
    BY <1>7, <2>1 DEF ScriptStatement, WritesOne
  <2>2. CASE Controls(i)
    BY <1>7, <2>2 DEF ScriptStatement, Controls
  <2> QED
    BY <1>7, <2>1, <2>2, ExecutesEffect DEF ScriptStatement
<1>8. CASE ScriptFails(i)
  BY <1>8 DEF ScriptFails, End, TxRollback, EngineRollback
<1>9. CASE ScriptCommit(i)
  <2>1. CASE TxCommits(i) /\ End(i, "ok")
    BY <2>1, <1>9 DEF ScriptCommit, End, TxCommits, EngineCommit
  <2>2. CASE TxCommitFails(i) /\ End(i, "error")
    BY <2>2, <1>9 DEF ScriptCommit, End, TxCommitFails, TxRollback, EngineRollback
  <2> QED
    BY <1>9, <2>1, <2>2 DEF ScriptCommit
<1>10. CASE AdapterStatement(i)
  <2>1. ASSUME NEW w \in Own(i), WritesOne(i, w) PROVE Tidy'
    BY <1>10, <2>1 DEF AdapterStatement, WritesOne
  <2>2. CASE Controls(i)
    BY <1>10, <2>2 DEF AdapterStatement, Controls
  <2> QED
    BY <1>10, <2>1, <2>2, ExecutesEffect DEF AdapterStatement
<1>11. CASE AdapterInterrupted(i)
  BY <1>11 DEF AdapterInterrupted, EngineRollback
<1>12. CASE AdapterRollback(i)
  BY <1>12 DEF AdapterRollback, End, TxRollback, EngineRollback
<1>13. CASE AdapterCommit(i)
  <2>1. CASE TxCommits(i) /\ End(i, "ok")
    BY <2>1, <1>13 DEF AdapterCommit, End, TxCommits, EngineCommit
  <2>2. CASE TxCommitFails(i) /\ End(i, "error")
    BY <2>2, <1>13 DEF AdapterCommit, End, TxCommitFails, TxRollback, EngineRollback
  <2> QED
    BY <1>13, <2>1, <2>2 DEF AdapterCommit
<1> QED
  BY <1>1, <1>2, <1>3, <1>4, <1>5, <1>6, <1>7, <1>8, <1>9, <1>10, <1>11, <1>12,
     <1>13 DEF Step

\* A transaction that the engine has not dropped is rolled back as a whole.
LEMMA UndoneStep ==
    ASSUME AtomicInv, NEW i \in Calls, Step(i)
    PROVE  Undone'
<1> USE TransactionsAssumption, OwnWrites
    DEF AtomicInv, TypeOK, Holder, Autocommit, Unstarted, Aligned, Undone,
        Transactional, Goto, engine, history
<1>1. CASE \E k \in {"single", "script", "adapter"} : Start(i, k)
  BY <1>1 DEF Start
<1>2. CASE Cancel(i)
  BY <1>2 DEF Cancel
<1>3. CASE Refused(i)
  BY <1>3 DEF Refused
<1>4. CASE Single(i)
  <2>1. CASE UNCHANGED <<engine, acked, history>>
    BY <1>4, <2>1 DEF Single
  <2>2. ASSUME NEW w \in Own(i), WritesOne(i, w) PROVE Undone'
    BY <1>4, <2>2 DEF Single, WritesOne
  <2>3. CASE Controls(i)
    BY <1>4, <2>3 DEF Single, Controls
  <2> QED
    BY <1>4, <2>1, <2>2, <2>3, ExecutesEffect DEF Single
<1>5. CASE Begin(i)
  BY <1>5 DEF Begin, EngineBegin
<1>6. CASE AwaitDone(i)
  BY <1>6 DEF AwaitDone, TxRollback, EngineRollback
<1>7. CASE ScriptStatement(i)
  <2>1. ASSUME NEW w \in Own(i), WritesOne(i, w) PROVE Undone'
    BY <1>7, <2>1 DEF ScriptStatement, WritesOne
  <2>2. CASE Controls(i)
    BY <1>7, <2>2 DEF ScriptStatement, Controls
  <2> QED
    BY <1>7, <2>1, <2>2, ExecutesEffect DEF ScriptStatement
<1>8. CASE ScriptFails(i)
  BY <1>8 DEF ScriptFails, End, TxRollback, EngineRollback
<1>9. CASE ScriptCommit(i)
  <2>1. CASE TxCommits(i) /\ End(i, "ok")
    BY <2>1, <1>9 DEF ScriptCommit, End, TxCommits, EngineCommit
  <2>2. CASE TxCommitFails(i) /\ End(i, "error")
    BY <2>2, <1>9 DEF ScriptCommit, End, TxCommitFails, TxRollback, EngineRollback
  <2> QED
    BY <1>9, <2>1, <2>2 DEF ScriptCommit
<1>10. CASE AdapterStatement(i)
  <2>1. ASSUME NEW w \in Own(i), WritesOne(i, w) PROVE Undone'
    BY <1>10, <2>1 DEF AdapterStatement, WritesOne
  <2>2. CASE Controls(i)
    BY <1>10, <2>2 DEF AdapterStatement, Controls
  <2> QED
    BY <1>10, <2>1, <2>2, ExecutesEffect DEF AdapterStatement
<1>11. CASE AdapterInterrupted(i)
  BY <1>11 DEF AdapterInterrupted, EngineRollback
<1>12. CASE AdapterRollback(i)
  BY <1>12 DEF AdapterRollback, End, TxRollback, EngineRollback
<1>13. CASE AdapterCommit(i)
  <2>1. CASE TxCommits(i) /\ End(i, "ok")
    BY <2>1, <1>13 DEF AdapterCommit, End, TxCommits, EngineCommit
  <2>2. CASE TxCommitFails(i) /\ End(i, "error")
    BY <2>2, <1>13 DEF AdapterCommit, End, TxCommitFails, TxRollback, EngineRollback
  <2> QED
    BY <1>13, <2>1, <2>2 DEF AdapterCommit
<1> QED
  BY <1>1, <1>2, <1>3, <1>4, <1>5, <1>6, <1>7, <1>8, <1>9, <1>10, <1>11, <1>12,
     <1>13 DEF Step

\* What is committed is never taken back, and Commit succeeds only while the
\* transaction has all its writes.
LEMMA AcknowledgedStep ==
    ASSUME AtomicInv, NEW i \in Calls, Step(i)
    PROVE  AcknowledgedIsKept'
<1> USE TransactionsAssumption
    DEF AtomicInv, TypeOK, Holder, Autocommit, Unstarted, Aligned, Tidy,
        NoLooseControl, AcknowledgedIsKept,
        Transactional, Goto, engine, history
<1>1. CASE \E k \in {"single", "script", "adapter"} : Start(i, k)
  BY <1>1 DEF Start
<1>2. CASE Cancel(i)
  BY <1>2 DEF Cancel
<1>3. CASE Refused(i)
  BY <1>3 DEF Refused
<1>4. CASE Single(i)
  <2>1. CASE UNCHANGED <<engine, acked, history>>
    BY <1>4, <2>1 DEF Single
  <2>2. ASSUME NEW w \in Own(i), WritesOne(i, w) PROVE AcknowledgedIsKept'
    BY <1>4, <2>2 DEF Single, WritesOne
  <2>3. CASE Controls(i)
    BY <1>4, <2>3 DEF Single, Controls
  <2> QED
    BY <1>4, <2>1, <2>2, <2>3, ExecutesEffect DEF Single
<1>5. CASE Begin(i)
  BY <1>5 DEF Begin, EngineBegin
<1>6. CASE AwaitDone(i)
  BY <1>6 DEF AwaitDone, TxRollback, EngineRollback
<1>7. CASE ScriptStatement(i)
  <2>1. ASSUME NEW w \in Own(i), WritesOne(i, w) PROVE AcknowledgedIsKept'
    BY <1>7, <2>1 DEF ScriptStatement, WritesOne
  <2>2. CASE Controls(i)
    BY <1>7, <2>2 DEF ScriptStatement, Controls
  <2> QED
    BY <1>7, <2>1, <2>2, ExecutesEffect DEF ScriptStatement
<1>8. CASE ScriptFails(i)
  BY <1>8 DEF ScriptFails, End, TxRollback, EngineRollback
<1>9. CASE ScriptCommit(i)
  <2>1. CASE TxCommits(i) /\ End(i, "ok")
    BY <2>1, <1>9 DEF ScriptCommit, End, TxCommits, EngineCommit
  <2>2. CASE TxCommitFails(i) /\ End(i, "error")
    BY <2>2, <1>9 DEF ScriptCommit, End, TxCommitFails, TxRollback, EngineRollback
  <2> QED
    BY <1>9, <2>1, <2>2 DEF ScriptCommit
<1>10. CASE AdapterStatement(i)
  <2>1. ASSUME NEW w \in Own(i), WritesOne(i, w) PROVE AcknowledgedIsKept'
    BY <1>10, <2>1 DEF AdapterStatement, WritesOne
  <2>2. CASE Controls(i)
    BY <1>10, <2>2 DEF AdapterStatement, Controls
  <2> QED
    BY <1>10, <2>1, <2>2, ExecutesEffect DEF AdapterStatement
<1>11. CASE AdapterInterrupted(i)
  BY <1>11 DEF AdapterInterrupted, EngineRollback
<1>12. CASE AdapterRollback(i)
  BY <1>12 DEF AdapterRollback, End, TxRollback, EngineRollback
<1>13. CASE AdapterCommit(i)
  <2>1. CASE TxCommits(i) /\ End(i, "ok")
    BY <2>1, <1>13 DEF AdapterCommit, End, TxCommits, EngineCommit
  <2>2. CASE TxCommitFails(i) /\ End(i, "error")
    BY <2>2, <1>13 DEF AdapterCommit, End, TxCommitFails, TxRollback, EngineRollback
  <2> QED
    BY <1>13, <2>1, <2>2 DEF AdapterCommit
<1> QED
  BY <1>1, <1>2, <1>3, <1>4, <1>5, <1>6, <1>7, <1>8, <1>9, <1>10, <1>11, <1>12,
     <1>13 DEF Step

-----------------------------------------------------------------------------
(* Theorems *)

\* The parts together are inductive.
THEOREM AtomicInvariant == Spec => []AtomicInv
<1>1. Init => AtomicInv
  BY TransactionsAssumption
  DEF Init, AtomicInv, TypeOK, Holder, Autocommit, Unstarted, Private, Aligned,
      Tidy, NoLooseControl, Undone, AcknowledgedIsKept, Transactional, Writes
<1>2. AtomicInv /\ [Next]_vars => AtomicInv'
  <2> SUFFICES ASSUME AtomicInv, [Next]_vars PROVE AtomicInv'
    OBVIOUS
  <2>1. ASSUME NEW i \in Calls, Step(i) PROVE AtomicInv'
    BY <2>1, TypesStep, HolderStep, AutocommitStep, UnstartedStep, PrivateStep,
       AlignedStep, TidyStep, UndoneStep, AcknowledgedStep DEF AtomicInv
  <2>2. CASE UNCHANGED vars
    BY <2>2 DEF vars, engine, history, AtomicInv, TypeOK, Holder, Autocommit,
       Unstarted, Private, Aligned, Tidy, NoLooseControl, Undone,
       AcknowledgedIsKept
  <2> QED
    BY <2>1, <2>2 DEF Next, Step
<1> QED
  BY <1>1, <1>2, PTL DEF Spec

\* Every variable keeps its type, and what is committed is visible.
THEOREM TypeCorrect == Spec => []TypeOK
BY AtomicInvariant, PTL DEF AtomicInv

\* Durability: what a statement, a script or an adapter transaction reported as
\* done stays, whatever is canceled, interrupted or rolled back later.
THEOREM Durability == Spec => []AcknowledgedIsKept
BY AtomicInvariant, PTL DEF AtomicInv

\* Atomicity: a script that fails and a transaction that is rolled back, or whose
\* Commit fails, leave exactly the writes that followed the engine's own rollback,
\* whatever transaction control others send as SQL text.
THEOREM Atomicity == Spec => []FailedLeavesNothing
<1>1. AtomicInv => FailedLeavesNothing
  BY DEF AtomicInv, Undone, FailedLeavesNothing, Transactional
<1> QED
  BY <1>1, AtomicInvariant, PTL

\* The pool gets no connection back that is still in a transaction, unless a
\* statement on its own was a BEGIN.
THEOREM CleanConnection == Spec => []IdleConnectionIsClean
<1>1. AtomicInv => IdleConnectionIsClean
  BY DEF AtomicInv, TypeOK, Tidy, Autocommit, IdleConnectionIsClean
<1> QED
  BY <1>1, AtomicInvariant, PTL

\* While a script or an adapter transaction holds the connection, only its own
\* writes appear and become durable, even with transaction control as SQL text.
THEOREM Privacy == Spec => PinnedIsPrivate
<1> DEFINE Kept == conn # None =>
                     (live' \ live) \cup (committed' \ committed) \subseteq Own(conn)
<1>1. AtomicInv /\ [Next]_vars => [Kept]_vars
  <2> SUFFICES ASSUME AtomicInv, NEW i \in Calls, Step(i) PROVE Kept
    BY DEF Next, Step
  <2> USE TransactionsAssumption
      DEF AtomicInv, TypeOK, Holder, Autocommit, Private, Goto, engine, history
  <2>1. CASE \E k \in {"single", "script", "adapter"} : Start(i, k)
    BY <2>1 DEF Start
  <2>2. CASE Cancel(i)
    BY <2>2 DEF Cancel
  <2>3. CASE Refused(i)
    BY <2>3 DEF Refused
  <2>4. CASE Single(i)
    <3>1. CASE UNCHANGED <<engine, acked, history>>
      BY <2>4, <3>1 DEF Single
    <3>2. ASSUME NEW w \in Own(i), WritesOne(i, w) PROVE Kept
      BY <2>4, <3>2 DEF Single, WritesOne
    <3>3. CASE Controls(i)
      BY <2>4, <3>3 DEF Single, Controls
    <3> QED
      BY <2>4, <3>1, <3>2, <3>3, ExecutesEffect DEF Single
  <2>5. CASE Begin(i)
    BY <2>5 DEF Begin, EngineBegin
  <2>6. CASE AwaitDone(i)
    BY <2>6 DEF AwaitDone, TxRollback, EngineRollback
  <2>7. CASE ScriptStatement(i)
    <3>1. ASSUME NEW w \in Own(i), WritesOne(i, w) PROVE Kept
      BY <2>7, <3>1 DEF ScriptStatement, WritesOne
    <3>2. CASE Controls(i)
      BY <2>7, <3>2 DEF ScriptStatement, Controls
    <3> QED
      BY <2>7, <3>1, <3>2, ExecutesEffect DEF ScriptStatement
  <2>8. CASE ScriptFails(i)
    BY <2>8 DEF ScriptFails, End, TxRollback, EngineRollback
  <2>9. CASE ScriptCommit(i)
    <3>1. CASE TxCommits(i) /\ End(i, "ok")
      BY <3>1, <2>9 DEF ScriptCommit, End, TxCommits, EngineCommit
    <3>2. CASE TxCommitFails(i) /\ End(i, "error")
      BY <3>2, <2>9 DEF ScriptCommit, End, TxCommitFails, TxRollback, EngineRollback
    <3> QED
      BY <2>9, <3>1, <3>2 DEF ScriptCommit
  <2>10. CASE AdapterStatement(i)
    <3>1. ASSUME NEW w \in Own(i), WritesOne(i, w) PROVE Kept
      BY <2>10, <3>1 DEF AdapterStatement, WritesOne
    <3>2. CASE Controls(i)
      BY <2>10, <3>2 DEF AdapterStatement, Controls
    <3> QED
      BY <2>10, <3>1, <3>2, ExecutesEffect DEF AdapterStatement
  <2>11. CASE AdapterInterrupted(i)
    BY <2>11 DEF AdapterInterrupted, EngineRollback
  <2>12. CASE AdapterRollback(i)
    BY <2>12 DEF AdapterRollback, End, TxRollback, EngineRollback
  <2>13. CASE AdapterCommit(i)
    <3>1. CASE TxCommits(i) /\ End(i, "ok")
      BY <3>1, <2>13 DEF AdapterCommit, End, TxCommits, EngineCommit
    <3>2. CASE TxCommitFails(i) /\ End(i, "error")
      BY <3>2, <2>13 DEF AdapterCommit, End, TxCommitFails, TxRollback, EngineRollback
    <3> QED
      BY <2>13, <3>1, <3>2 DEF AdapterCommit
  <2> QED
    BY <2>1, <2>2, <2>3, <2>4, <2>5, <2>6, <2>7, <2>8, <2>9, <2>10, <2>11, <2>12,
       <2>13 DEF Step
<1> QED
  BY <1>1, AtomicInvariant, PTL DEF Spec, PinnedIsPrivate

=============================================================================
