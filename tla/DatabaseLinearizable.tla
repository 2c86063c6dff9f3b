------------------------ MODULE DatabaseLinearizable ------------------------
(***************************************************************************)
(* Database implements LinearStore: every step of every instance whose     *)
(* engine does not fail by itself is one of the abstract operations or     *)
(* leaves the abstract state as it is.                                     *)
(***************************************************************************)
EXTENDS DatabaseSnapshots, DatabaseRefinement

(* The schemas calls refer to *)

WritePCs == ExecPCs \cup CallbackPCs \cup ScriptPCs \cup TxPCs

\* Statements run in schemas that exist, CreateSchema makes one that does not,
\* Backup and Restore visit those that do.
HandleInv ==
    /\ \A p \in Procs : pc[p] \in WritePCs => call[p].schema \in schemas
    /\ \A p \in Procs : pc[p] \in {"create_attach", "create_lock", "create_publish"} =>
         call[p].schema \notin schemas
    /\ \A p \in Procs : pc[p] \in {"backup_named", "restore_named", "restore_attach"} =>
         call[p].todo \subseteq schemas
    /\ \A p \in Procs : pc[p] = "restore_attach" => call[p].schema \in schemas

\* A statement, a script or a transaction keeps its schema handle.
LEMMA WriteSteps ==
    ASSUME TypeInv, NEW p \in Procs,
           Invoke(p) \/ Cancel(p) \/ Step(p) \/ Finish(p)
    PROVE  \/ pc'[p] \notin WritePCs
           \/ InvokeStatement(p)
           \/ pc[p] \in WritePCs /\ call'[p].schema = call[p].schema
<1> USE DEF TypeInv, ControlOK, Goto, Return, Start, WritePCs, ExecPCs, CallbackPCs,
       ScriptPCs, TxPCs
<1>1. CASE InvokeStatement(p) \/ InvokeCreateSchema(p) \/ InvokeBackup(p)
           \/ InvokeRestore(p) \/ InvokeClose(p)
  BY <1>1 DEF InvokeStatement, InvokeCreateSchema, InvokeBackup,
    InvokeRestore, InvokeClose
<1>2. CASE Cancel(p)
  <2>1. call'[p].schema = call[p].schema
    BY <1>2 DEF Cancel, Calls
  <2> QED BY <1>2, <2>1 DEF Cancel
<1>3. CASE ExecCheck(p) \/ ExecRun(p) \/ CallbackCheck(p) \/ CallbackConn(p)
           \/ CallbackRegister(p) \/ ScriptCheck(p) \/ ScriptBegin(p)
           \/ ScriptStatement(p) \/ ScriptCommit(p) \/ ScriptAbort(p)
  BY <1>3 DEF ExecCheck, ExecRun, CallbackCheck, CallbackConn,
    CallbackRegister, ScriptCheck, ScriptBegin, ScriptStatement, ScriptCommit,
    ScriptAbort, Undo
<1>4. CASE BeginCheck(p) \/ BeginConn(p) \/ TxExec(p) \/ TxCheck(p)
           \/ TxStatement(p) \/ TxAbort(p) \/ TxCommit(p) \/ TxRollback(p)
  BY <1>4 DEF BeginCheck, BeginConn, TxExec, TxCheck, TxStatement, TxAbort,
    TxCommit, TxRollback, Undo
<1>5. CASE CreateTopology(p) \/ CreateCheck(p) \/ CreateAttach(p)
           \/ CreateLock(p) \/ CreatePublish(p)
  BY <1>5 DEF CreateTopology, CreateCheck, CreateAttach, CreateLock,
    CreatePublish
<1>6. CASE BackupTopology(p) \/ BackupRLock(p) \/ BackupConn(p)
           \/ BackupVersions(p) \/ BackupPublic(p) \/ BackupNamed(p)
           \/ BackupReturn(p)
  BY <1>6 DEF BackupTopology, BackupRLock, BackupConn, BackupVersions,
    BackupPublic, BackupNamed, BackupReturn, BackupFails
<1>7. CASE RestoreTopology(p) \/ RestoreRLock(p) \/ RestoreConn(p)
           \/ RestoreVersions(p) \/ RestorePrepare(p) \/ RestorePublic(p)
           \/ RestoreDetach(p) \/ RestoreAttach(p) \/ RestoreReturn(p)
  BY <1>7 DEF RestoreTopology, RestoreRLock, RestoreConn, RestoreVersions,
    RestorePrepare, RestorePublic, RestoreDetach, RestoreAttach,
    RestoreReturn, RestoreFails
<1>8. CASE CloseLock(p) \/ CloseSet(p) \/ ClosePool(p)
  BY <1>8 DEF CloseLock, CloseSet, ClosePool
<1> QED BY <1>1, <1>2, <1>3, <1>4, <1>5, <1>6, <1>7, <1>8
  DEF Invoke, Step, Finish

\* What brings or keeps a goroutine between CreateSchema's look at db.schemas and
\* its publication.
LEMMA CreatorSteps ==
    ASSUME TypeInv, NEW p \in Procs,
           Invoke(p) \/ Cancel(p) \/ Step(p) \/ Finish(p)
    PROVE  \/ pc'[p] \notin {"create_attach", "create_lock", "create_publish"}
           \/ Cancel(p) \/ CreateCheck(p) \/ CreateAttach(p) \/ CreateLock(p)
<1> USE DEF TypeInv, ControlOK, Goto, Return, Start
<1>1. CASE InvokeStatement(p) \/ InvokeCreateSchema(p) \/ InvokeBackup(p)
           \/ InvokeRestore(p) \/ InvokeClose(p) \/ Cancel(p)
  BY <1>1 DEF InvokeStatement, InvokeCreateSchema, InvokeBackup,
    InvokeRestore, InvokeClose, Cancel
<1>2. CASE ExecCheck(p) \/ ExecRun(p) \/ CallbackCheck(p) \/ CallbackConn(p)
           \/ CallbackRegister(p) \/ ScriptCheck(p) \/ ScriptBegin(p)
           \/ ScriptStatement(p) \/ ScriptCommit(p) \/ ScriptAbort(p)
  BY <1>2 DEF ExecCheck, ExecRun, CallbackCheck, CallbackConn,
    CallbackRegister, ScriptCheck, ScriptBegin, ScriptStatement, ScriptCommit,
    ScriptAbort, Undo
<1>3. CASE BeginCheck(p) \/ BeginConn(p) \/ TxExec(p) \/ TxCheck(p)
           \/ TxStatement(p) \/ TxAbort(p) \/ TxCommit(p) \/ TxRollback(p)
  BY <1>3 DEF BeginCheck, BeginConn, TxExec, TxCheck, TxStatement, TxAbort,
    TxCommit, TxRollback, Undo
<1>4. CASE CreateTopology(p) \/ CreateCheck(p) \/ CreateAttach(p)
           \/ CreateLock(p) \/ CreatePublish(p)
  BY <1>4 DEF CreateTopology, CreateCheck, CreateAttach, CreateLock,
    CreatePublish
<1>5. CASE BackupTopology(p) \/ BackupRLock(p) \/ BackupConn(p)
           \/ BackupVersions(p) \/ BackupPublic(p) \/ BackupNamed(p)
           \/ BackupReturn(p)
  BY <1>5 DEF BackupTopology, BackupRLock, BackupConn, BackupVersions,
    BackupPublic, BackupNamed, BackupReturn, BackupFails
<1>6. CASE RestoreTopology(p) \/ RestoreRLock(p) \/ RestoreConn(p)
           \/ RestoreVersions(p) \/ RestorePrepare(p) \/ RestorePublic(p)
           \/ RestoreDetach(p) \/ RestoreAttach(p) \/ RestoreReturn(p)
  BY <1>6 DEF RestoreTopology, RestoreRLock, RestoreConn, RestoreVersions,
    RestorePrepare, RestorePublic, RestoreDetach, RestoreAttach,
    RestoreReturn, RestoreFails
<1>7. CASE CloseLock(p) \/ CloseSet(p) \/ ClosePool(p)
  BY <1>7 DEF CloseLock, CloseSet, ClosePool
<1> QED BY <1>1, <1>2, <1>3, <1>4, <1>5, <1>6, <1>7
  DEF Invoke, Step, Finish

\* Schemas are never removed.
LEMMA SchemasGrow ==
    ASSUME TypeInv, NEW p \in Procs,
           Invoke(p) \/ Cancel(p) \/ Step(p) \/ Finish(p)
    PROVE  UNCHANGED schemas \/ (CreatePublish(p) /\ schemas \subseteq schemas')
BY TopologyWrites DEF topo, CreatePublish, CloseSet, ClosePool

\* Every step keeps the calls on schemas that exist.
LEMMA HandleStep ==
    ASSUME SnapshotInv, HandleInv, NEW p \in Procs,
           Invoke(p) \/ Cancel(p) \/ Step(p) \/ Finish(p)
    PROVE  HandleInv'
<1> USE DEF SnapshotInv, LockInv
<1>1. \A q \in Procs \ {p} : pc'[q] = pc[q] /\ call'[q] = call[q]
  BY OthersKept
<1>2. schemas \subseteq schemas'
  BY SchemasGrow
<1>3. ASSUME NEW q \in Procs, pc'[q] \in WritePCs
      PROVE  call'[q].schema \in schemas'
  <2>1. CASE q # p
    BY <1>1, <1>2, <1>3, <2>1 DEF HandleInv
  <2>2. CASE q = p /\ InvokeStatement(p)
    <3>1. PICK s \in schemas, c \in Contexts :
             \E label \in PCs : Start(p, label, c, s, None)
      BY <2>2 DEF InvokeStatement, PCs, ExecPCs, CallbackPCs, ScriptPCs, TxPCs
    <3> QED BY <1>2, <2>2, <3>1 DEF Start, IdleCall, TypeInv, ControlOK
  <2>3. CASE q = p /\ ~InvokeStatement(p)
    BY <1>2, <1>3, <2>3, WriteSteps DEF HandleInv
  <2> QED BY <2>1, <2>2, <2>3
<1>4. ASSUME NEW q \in Procs, pc'[q] \in {"create_attach", "create_lock", "create_publish"}
      PROVE  call'[q].schema \notin schemas'
  <2>1. CASE q # p
    <3>1. ~CreatePublish(p)
      BY <1>1, <1>4, <2>1 DEF CreatePublish, LocksFollowCalls, TopologyPCs, CreatePCs
    <3> QED BY <1>1, <1>4, <2>1, <3>1, SchemasGrow DEF HandleInv
  <2>2. CASE q = p /\ Cancel(p)
    <3>1. call'[p].schema = call[p].schema
      BY <2>2 DEF Cancel, TypeInv, ControlOK, Calls
    <3> QED BY <1>4, <2>2, <3>1 DEF Cancel, HandleInv, topo
  <2>3. CASE q = p /\ (CreateCheck(p) \/ CreateLock(p))
    BY <1>4, <2>3 DEF CreateCheck, CreateLock, HandleInv, topo, Return, Goto, TypeInv,
       ControlOK
  <2>4. CASE q = p /\ CreateAttach(p)
    BY <1>4, <2>4 DEF CreateAttach, HandleInv, topo, Return, Goto, TypeInv,
       ControlOK
  <2> QED BY <1>4, <2>1, <2>2, <2>3, <2>4, CreatorSteps
<1>5. ASSUME NEW q \in Procs,
             pc'[q] \in {"backup_named", "restore_named", "restore_attach"}
      PROVE  /\ call'[q].todo \subseteq schemas'
             /\ pc'[q] = "restore_attach" => call'[q].schema \in schemas'
  <2>1. CASE q # p
    BY <1>1, <1>2, <1>5, <2>1 DEF HandleInv
  <2>2. CASE q = p
    <3>1. pc'[p] \in ReaderPCs /\ pc'[p] # "idle"
      BY <1>5, <2>2 DEF ReaderPCs, BackupPCs, RestorePCs
    <3>2. CASE Cancel(p)
      <4>1. call'[p].schema = call[p].schema /\ call'[p].todo = call[p].todo
        BY <3>2 DEF Cancel, TypeInv, ControlOK, Calls
      <4> QED BY <1>2, <1>5, <2>2, <3>2, <4>1 DEF Cancel, HandleInv
    <3>3. CASE BackupPublic(p)
      BY <1>2, <2>2, <3>1, <3>3, BackupPublicEffect
    <3>4. CASE BackupNamed(p)
      BY <1>2, <2>2, <3>1, <3>4, BackupNamedEffect DEF HandleInv
    <3>5. CASE RestorePublic(p)
      BY <1>2, <2>2, <3>1, <3>5, RestorePublicEffect
    <3>6. CASE RestoreDetach(p)
      BY <1>2, <2>2, <3>1, <3>6, RestoreDetachEffect DEF HandleInv
    <3>7. CASE RestoreAttach(p)
      BY <1>2, <2>2, <3>1, <3>7, RestoreAttachEffect DEF HandleInv
    <3>8. ~BackupRLock(p) /\ ~BackupConn(p) /\ ~RestoreRLock(p) /\ ~RestoreConn(p)
      BY <1>5, <2>2 DEF BackupRLock, BackupConn, RestoreRLock, RestoreConn,
         BackupFails, RestoreFails, Return, Goto, TypeInv, ControlOK
    <3>9. ~BackupVersions(p) /\ ~RestoreVersions(p) /\ ~RestorePrepare(p)
      BY <1>5, <2>2 DEF BackupVersions, RestoreVersions, RestorePrepare, BackupFails,
         RestoreFails, Return, Goto, TypeInv, ControlOK
    <3> QED BY <3>1, <3>2, <3>3, <3>4, <3>5, <3>6, <3>7, <3>8, <3>9, ReaderSteps
  <2> QED BY <2>1, <2>2
<1> QED BY <1>3, <1>4, <1>5 DEF HandleInv

-----------------------------------------------------------------------------
(* What an open transaction and an unused schema hold *)

\* A transaction writes the one schema of its handle.
WritesStayHere ==
    \A p \in Procs : txn = p =>
        \A s \in Schemas \ {call[p].schema} : live[s] = committed[s]

\* A schema that is not in db.schemas holds nothing, though it may be attached.
UnusedIsEmpty ==
    \A s \in Schemas \ schemas : Datum(committed[s]) = Datum(Empty)

\* The transaction that is open after a step is the one that was, or p's.
LEMMA TxnSteps ==
    ASSUME LockInv, NEW p \in Procs,
           Invoke(p) \/ Cancel(p) \/ Step(p) \/ Finish(p)
    PROVE  txn' = txn \/ txn' = None \/ txn' = p
<1> USE DEF engine
<1>1. CASE InvokeStatement(p) \/ InvokeCreateSchema(p) \/ InvokeBackup(p)
           \/ InvokeRestore(p) \/ InvokeClose(p) \/ Cancel(p)
  BY <1>1 DEF InvokeStatement, InvokeCreateSchema, InvokeBackup,
    InvokeRestore, InvokeClose, Cancel
<1>2. CASE ExecCheck(p) \/ ExecRun(p) \/ CallbackCheck(p) \/ CallbackConn(p)
           \/ CallbackRegister(p) \/ ScriptCheck(p) \/ ScriptBegin(p)
           \/ ScriptStatement(p) \/ ScriptCommit(p) \/ ScriptAbort(p)
  BY <1>2 DEF ExecCheck, ExecRun, CallbackCheck, CallbackConn,
    CallbackRegister, ScriptCheck, ScriptBegin, ScriptStatement, ScriptCommit,
    ScriptAbort, Undo
<1>3. CASE BeginCheck(p) \/ BeginConn(p) \/ TxExec(p) \/ TxCheck(p)
           \/ TxStatement(p) \/ TxAbort(p) \/ TxCommit(p) \/ TxRollback(p)
  BY <1>3 DEF BeginCheck, BeginConn, TxExec, TxCheck, TxStatement, TxAbort,
    TxCommit, TxRollback, Undo
<1>4. CASE CreateTopology(p) \/ CreateCheck(p) \/ CreateAttach(p)
           \/ CreateLock(p) \/ CreatePublish(p)
  BY <1>4 DEF CreateTopology, CreateCheck, CreateAttach, CreateLock,
    CreatePublish
<1>5. CASE BackupTopology(p) \/ BackupRLock(p) \/ BackupConn(p)
           \/ BackupVersions(p) \/ BackupPublic(p) \/ BackupNamed(p)
           \/ BackupReturn(p)
  BY <1>5 DEF BackupTopology, BackupRLock, BackupConn, BackupVersions,
    BackupPublic, BackupNamed, BackupReturn, BackupFails
<1>6. CASE RestoreTopology(p) \/ RestoreRLock(p) \/ RestoreConn(p)
           \/ RestoreVersions(p) \/ RestorePrepare(p) \/ RestorePublic(p)
           \/ RestoreDetach(p) \/ RestoreAttach(p) \/ RestoreReturn(p)
  BY <1>6 DEF RestoreTopology, RestoreRLock, RestoreConn, RestoreVersions,
    RestorePrepare, RestorePublic, RestoreDetach, RestoreAttach,
    RestoreReturn, RestoreFails
<1>7. CASE CloseLock(p) \/ CloseSet(p) \/ ClosePool(p)
  BY <1>7 DEF CloseLock, CloseSet, ClosePool
<1> QED BY <1>1, <1>2, <1>3, <1>4, <1>5, <1>6, <1>7
  DEF Invoke, Step, Finish

\* The steps of a goroutine whose transaction is open afterwards.
LEMMA OwnTxnSteps ==
    ASSUME LockInv, NEW p \in Procs, txn' = p,
           Invoke(p) \/ Cancel(p) \/ Step(p) \/ Finish(p)
    PROVE  \/ ScriptBegin(p) \/ BeginConn(p)
           \/ ScriptStatement(p) \/ TxStatement(p)
           \/ txn = p /\ UNCHANGED <<live, committed>> /\ call'[p].schema = call[p].schema
<1> USE ConstantsAssumption DEF LockInv, TransactionsArePinned, OpenTxPCs, TypeInv,
       ControlOK, SharedOK, engine, Goto
<1>1. CASE InvokeStatement(p) \/ InvokeCreateSchema(p) \/ InvokeBackup(p)
           \/ InvokeRestore(p) \/ InvokeClose(p)
  BY <1>1 DEF InvokeStatement, InvokeCreateSchema, InvokeBackup,
    InvokeRestore, InvokeClose
<1>2. CASE Cancel(p)
  <2>1. call'[p].schema = call[p].schema
    BY <1>2 DEF Cancel, Calls
  <2> QED BY <1>2, <2>1 DEF Cancel
<1>3. CASE ExecCheck(p) \/ ExecRun(p) \/ CallbackCheck(p) \/ CallbackConn(p)
           \/ CallbackRegister(p) \/ ScriptCheck(p) \/ ScriptBegin(p)
           \/ ScriptStatement(p) \/ ScriptCommit(p) \/ ScriptAbort(p)
  BY <1>3 DEF ExecCheck, ExecRun, CallbackCheck, CallbackConn,
    CallbackRegister, ScriptCheck, ScriptBegin, ScriptStatement, ScriptCommit,
    ScriptAbort, Undo
<1>4. CASE BeginCheck(p) \/ BeginConn(p) \/ TxExec(p) \/ TxCheck(p)
           \/ TxStatement(p) \/ TxAbort(p) \/ TxCommit(p) \/ TxRollback(p)
  BY <1>4 DEF BeginCheck, BeginConn, TxExec, TxCheck, TxStatement, TxAbort,
    TxCommit, TxRollback, Undo
<1>5. CASE CreateTopology(p) \/ CreateCheck(p) \/ CreateAttach(p)
           \/ CreateLock(p) \/ CreatePublish(p)
  BY <1>5 DEF CreateTopology, CreateCheck, CreateAttach, CreateLock,
    CreatePublish
<1>6. CASE BackupTopology(p) \/ BackupRLock(p) \/ BackupConn(p)
           \/ BackupVersions(p) \/ BackupPublic(p) \/ BackupNamed(p)
           \/ BackupReturn(p)
  BY <1>6 DEF BackupTopology, BackupRLock, BackupConn, BackupVersions,
    BackupPublic, BackupNamed, BackupReturn, BackupFails
<1>7. CASE RestoreTopology(p) \/ RestoreRLock(p) \/ RestoreConn(p)
           \/ RestoreVersions(p) \/ RestorePrepare(p) \/ RestorePublic(p)
           \/ RestoreDetach(p) \/ RestoreAttach(p) \/ RestoreReturn(p)
  BY <1>7 DEF RestoreTopology, RestoreRLock, RestoreConn, RestoreVersions,
    RestorePrepare, RestorePublic, RestoreDetach, RestoreAttach,
    RestoreReturn, RestoreFails
<1>8. CASE CloseLock(p) \/ CloseSet(p) \/ ClosePool(p)
  BY <1>8 DEF CloseLock, CloseSet, ClosePool
<1> QED BY <1>1, <1>2, <1>3, <1>4, <1>5, <1>6, <1>7, <1>8
  DEF Invoke, Step, Finish

\* Every step leaves the writes of an open transaction in its schema.
LEMMA HomeStep ==
    ASSUME LockInv, WritesStayHere, NEW p \in Procs,
           Invoke(p) \/ Cancel(p) \/ Step(p) \/ Finish(p)
    PROVE  WritesStayHere'
<1> SUFFICES ASSUME NEW q \in Procs, txn' = q,
                    NEW s \in Schemas, s # call'[q].schema
             PROVE  live'[s] = committed'[s]
  BY DEF WritesStayHere
<1> USE DEF LockInv
<1>1. CASE q # p
  <2>1. txn = q
    BY <1>1, TxnSteps, ConstantsAssumption
  <2>2. conn # None /\ conn # p
    BY <1>1, <2>1, ConstantsAssumption DEF TransactionsArePinned
  <2>3. UNCHANGED <<live, committed>> /\ call'[q] = call[q]
    BY <1>1, <2>2, ContentsWrites, OthersKept
  <2> QED BY <2>1, <2>3 DEF WritesStayHere
<1>2. CASE q = p /\ (ScriptBegin(p) \/ BeginConn(p))
  <2>1. UNCHANGED <<live, committed>>
    BY <1>2 DEF ScriptBegin, BeginConn
  <2>2. conn = None
    BY <1>2 DEF ScriptBegin, BeginConn, Return, Goto, TransactionsArePinned,
       TypeInv, ControlOK, OpenTxPCs
  <2>3. live = committed
    BY <2>2, ConstantsAssumption DEF TransactionsArePinned, TypeInv, SharedOK
  <2> QED BY <2>1, <2>3
<1>3. CASE q = p /\ (ScriptStatement(p) \/ TxStatement(p))
  <2>1. UNCHANGED <<committed, txn>>
    BY <1>3, ConstantsAssumption DEF ScriptStatement, TxStatement, Undo, engine
  <2>2. call'[p].schema = call[p].schema
    BY <1>3, <2>1, ConstantsAssumption
       DEF ScriptStatement, TxStatement, Undo, TransactionsArePinned
  <2>3. live'[s] = live[s]
    <3>1. CASE UNCHANGED live
      BY <3>1
    <3>2. CASE \E after \in Outcomes(call[p].schema) : live' = after
      BY <1>3, <2>2, <3>2, OutcomesType DEF TypeInv
    <3>3. txn' # None
      BY ConstantsAssumption
    <3> QED BY <1>3, <3>1, <3>2, <3>3 DEF ScriptStatement, TxStatement, Undo, engine
  <2> QED BY <1>3, <2>1, <2>2, <2>3 DEF WritesStayHere
<1>4. CASE /\ q = p /\ txn = p /\ UNCHANGED <<live, committed>>
           /\ call'[p].schema = call[p].schema
  BY <1>4 DEF WritesStayHere
<1> QED BY <1>1, <1>2, <1>3, <1>4, OwnTxnSteps

\* What commits.
LEMMA CommitSteps ==
    ASSUME TypeInv, NEW p \in Procs,
           Invoke(p) \/ Cancel(p) \/ Step(p) \/ Finish(p)
    PROVE  \/ UNCHANGED committed
           \/ ExecRun(p) \/ ScriptCommit(p) \/ TxCommit(p) \/ CreateAttach(p)
           \/ RestorePublic(p) \/ RestoreDetach(p) \/ RestoreAttach(p)
<1> USE DEF engine
<1>1. CASE InvokeStatement(p) \/ InvokeCreateSchema(p) \/ InvokeBackup(p)
           \/ InvokeRestore(p) \/ InvokeClose(p) \/ Cancel(p)
  BY <1>1 DEF InvokeStatement, InvokeCreateSchema, InvokeBackup,
    InvokeRestore, InvokeClose, Cancel
<1>2. CASE ExecCheck(p) \/ ExecRun(p) \/ CallbackCheck(p) \/ CallbackConn(p)
           \/ CallbackRegister(p) \/ ScriptCheck(p) \/ ScriptBegin(p)
           \/ ScriptStatement(p) \/ ScriptCommit(p) \/ ScriptAbort(p)
  BY <1>2 DEF ExecCheck, ExecRun, CallbackCheck, CallbackConn,
    CallbackRegister, ScriptCheck, ScriptBegin, ScriptStatement, ScriptCommit,
    ScriptAbort, Undo
<1>3. CASE BeginCheck(p) \/ BeginConn(p) \/ TxExec(p) \/ TxCheck(p)
           \/ TxStatement(p) \/ TxAbort(p) \/ TxCommit(p) \/ TxRollback(p)
  BY <1>3 DEF BeginCheck, BeginConn, TxExec, TxCheck, TxStatement, TxAbort,
    TxCommit, TxRollback, Undo
<1>4. CASE CreateTopology(p) \/ CreateCheck(p) \/ CreateAttach(p)
           \/ CreateLock(p) \/ CreatePublish(p)
  BY <1>4 DEF CreateTopology, CreateCheck, CreateAttach, CreateLock,
    CreatePublish
<1>5. CASE BackupTopology(p) \/ BackupRLock(p) \/ BackupConn(p)
           \/ BackupVersions(p) \/ BackupPublic(p) \/ BackupNamed(p)
           \/ BackupReturn(p)
  BY <1>5 DEF BackupTopology, BackupRLock, BackupConn, BackupVersions,
    BackupPublic, BackupNamed, BackupReturn, BackupFails
<1>6. CASE RestoreTopology(p) \/ RestoreRLock(p) \/ RestoreConn(p)
           \/ RestoreVersions(p) \/ RestorePrepare(p) \/ RestorePublic(p)
           \/ RestoreDetach(p) \/ RestoreAttach(p) \/ RestoreReturn(p)
  BY <1>6 DEF RestoreTopology, RestoreRLock, RestoreConn, RestoreVersions,
    RestorePrepare, RestorePublic, RestoreDetach, RestoreAttach,
    RestoreReturn, RestoreFails
<1>7. CASE CloseLock(p) \/ CloseSet(p) \/ ClosePool(p)
  BY <1>7 DEF CloseLock, CloseSet, ClosePool
<1> QED BY <1>1, <1>2, <1>3, <1>4, <1>5, <1>6, <1>7
  DEF Invoke, Step, Finish

\* A committed statement, script or transaction changed the one schema of its
\* handle.
LEMMA CommitEffect ==
    ASSUME LockInv, WritesStayHere, NEW p \in Procs,
           ExecRun(p) \/ ScriptCommit(p) \/ TxCommit(p),
           NEW s \in Schemas, s # call[p].schema
    PROVE  committed'[s] = committed[s]
<1> USE DEF LockInv
<1>1. CASE ExecRun(p) /\ ~UNCHANGED committed
  <2>1. live = committed
    BY <1>1, ConstantsAssumption DEF ExecRun, TransactionsArePinned, TypeInv, SharedOK
  <2>2. PICK after \in Outcomes(call[p].schema) : committed' = after
    BY <1>1 DEF ExecRun
  <2> QED BY <2>1, <2>2, OutcomesType DEF TypeInv
<1>2. CASE (ScriptCommit(p) \/ TxCommit(p)) /\ ~UNCHANGED committed
  <2>1. txn = p /\ committed' = live
    BY <1>2 DEF ScriptCommit, TxCommit, Undo, TransactionsArePinned
  <2> QED BY <2>1 DEF WritesStayHere
<1> QED BY <1>1, <1>2

\* Every step leaves unused schemas empty.
LEMMA UnusedStep ==
    ASSUME PublicInv, HandleInv, WritesStayHere, UnusedIsEmpty, NEW p \in Procs,
           Invoke(p) \/ Cancel(p) \/ Step(p) \/ Finish(p)
    PROVE  UnusedIsEmpty'
<1> USE DEF PublicInv, SnapshotInv, LockInv
<1> SUFFICES ASSUME NEW s \in Schemas, s \notin schemas'
             PROVE  committed'[s] = committed[s] \/ committed'[s] = Empty
  BY SchemasGrow DEF UnusedIsEmpty, Datum
<1>1. s \notin schemas /\ s # Public /\ committed \in [Schemas -> Contents]
  BY SchemasGrow DEF VersionInv, TypeInv, SharedOK
<1>2. CASE ExecRun(p) \/ ScriptCommit(p) \/ TxCommit(p)
  <2>1. pc[p] \in WritePCs
    BY <1>2 DEF ExecRun, ScriptCommit, TxCommit, WritePCs, ExecPCs, ScriptPCs, TxPCs
  <2> QED BY <1>1, <1>2, <2>1, CommitEffect DEF HandleInv
<1>3. CASE CreateAttach(p)
  BY <1>1, <1>3 DEF CreateAttach
<1>4. CASE RestorePublic(p)
  BY <1>1, <1>4 DEF RestorePublic
<1>5. CASE RestoreDetach(p)
  BY <1>1, <1>5 DEF RestoreDetach
<1>6. CASE RestoreAttach(p)
  BY <1>1, <1>6 DEF RestoreAttach, HandleInv
<1> QED BY <1>2, <1>3, <1>4, <1>5, <1>6, CommitSteps

-----------------------------------------------------------------------------
(* What a Backup holds *)

\* A Backup holds nothing of a schema it does not name, and an unused slot or a
\* Backup that has not recorded its names nothing at all.
ImagesAreNamed ==
    /\ \A b \in BackupIds : \A s \in Schemas \ backups[b].names :
         Datum(backups[b].images[s]) = Datum(Empty)
    /\ \A b \in BackupIds : backups[b].state = "free" => backups[b] = FreeBackup
    /\ \A p \in Procs : pc[p] \in BackupPCs \ {"backup_public", "backup_named"} =>
         backups[call[p].backup].names = {}

\* What brings or keeps a goroutine in a Backup.
LEMMA BackupEntries ==
    ASSUME TypeInv, NEW p \in Procs,
           Invoke(p) \/ Cancel(p) \/ Step(p) \/ Finish(p)
    PROVE  pc'[p] \notin BackupPCs \/ InvokeBackup(p) \/ pc[p] \in BackupPCs
<1> USE DEF TypeInv, ControlOK, Goto, Return, Start, BackupPCs, RestorePCs
<1>1. CASE InvokeStatement(p) \/ InvokeCreateSchema(p) \/ InvokeBackup(p)
           \/ InvokeRestore(p) \/ InvokeClose(p) \/ Cancel(p)
  BY <1>1 DEF InvokeStatement, InvokeCreateSchema, InvokeBackup,
    InvokeRestore, InvokeClose, Cancel
<1>2. CASE ExecCheck(p) \/ ExecRun(p) \/ CallbackCheck(p) \/ CallbackConn(p)
           \/ CallbackRegister(p) \/ ScriptCheck(p) \/ ScriptBegin(p)
           \/ ScriptStatement(p) \/ ScriptCommit(p) \/ ScriptAbort(p)
  BY <1>2 DEF ExecCheck, ExecRun, CallbackCheck, CallbackConn,
    CallbackRegister, ScriptCheck, ScriptBegin, ScriptStatement, ScriptCommit,
    ScriptAbort, Undo
<1>3. CASE BeginCheck(p) \/ BeginConn(p) \/ TxExec(p) \/ TxCheck(p)
           \/ TxStatement(p) \/ TxAbort(p) \/ TxCommit(p) \/ TxRollback(p)
  BY <1>3 DEF BeginCheck, BeginConn, TxExec, TxCheck, TxStatement, TxAbort,
    TxCommit, TxRollback, Undo
<1>4. CASE CreateTopology(p) \/ CreateCheck(p) \/ CreateAttach(p)
           \/ CreateLock(p) \/ CreatePublish(p)
  BY <1>4 DEF CreateTopology, CreateCheck, CreateAttach, CreateLock,
    CreatePublish
<1>5. CASE BackupTopology(p) \/ BackupRLock(p) \/ BackupConn(p)
           \/ BackupVersions(p) \/ BackupPublic(p) \/ BackupNamed(p)
           \/ BackupReturn(p)
  BY <1>5 DEF BackupTopology, BackupRLock, BackupConn, BackupVersions,
    BackupPublic, BackupNamed, BackupReturn, BackupFails
<1>6. CASE RestoreTopology(p) \/ RestoreRLock(p) \/ RestoreConn(p)
           \/ RestoreVersions(p) \/ RestorePrepare(p) \/ RestorePublic(p)
           \/ RestoreDetach(p) \/ RestoreAttach(p) \/ RestoreReturn(p)
  BY <1>6 DEF RestoreTopology, RestoreRLock, RestoreConn, RestoreVersions,
    RestorePrepare, RestorePublic, RestoreDetach, RestoreAttach,
    RestoreReturn, RestoreFails
<1>7. CASE CloseLock(p) \/ CloseSet(p) \/ ClosePool(p)
  BY <1>7 DEF CloseLock, CloseSet, ClosePool
<1> QED BY <1>1, <1>2, <1>3, <1>4, <1>5, <1>6, <1>7
  DEF Invoke, Step, Finish

\* What the steps of a Backup make of its record.
LEMMA BackupEffect ==
    ASSUME PublicInv, HandleInv, NEW p \in Procs, pc[p] \in BackupPCs,
           Invoke(p) \/ Cancel(p) \/ Step(p) \/ Finish(p)
    PROVE  LET b == call[p].backup IN
           \/ backups'[b] = FreeBackup /\ pc'[p] = "idle"
           \/ UNCHANGED backups /\ call'[p].backup = b
           \/ /\ backups'[b].images = backups[b].images
              /\ backups'[b].state = "building"
              /\ pc[p] = "backup_versions" /\ pc'[p] = "backup_public"
           \/ /\ pc[p] \in {"backup_public", "backup_named"} /\ pc'[p] = "backup_named"
              /\ backups'[b].names = schemas /\ schemas = backups[b].names
              /\ backups'[b].state = "building"
              /\ \E n \in schemas, image \in Contents :
                   backups'[b].images = [backups[b].images EXCEPT ![n] = image]
           \/ /\ backups'[b].names = backups[b].names
              /\ backups'[b].images = backups[b].images
              /\ backups'[b].state = "taken" /\ pc'[p] = "idle"
<1> DEFINE b == call[p].backup
<1> USE DEF PublicInv, SnapshotInv, LockInv
<1>1. /\ b \in BackupIds /\ backups[b] \in BackupRecords /\ backups[b].state = "building"
      /\ live \in [Schemas -> Contents] /\ schemas \subseteq Schemas /\ Public \in schemas
  BY DEF TypeInv, ControlOK, SharedOK, BackupsOwned, VersionInv
<1>2. CASE pc'[p] = "idle" /\ ~BackupReturn(p)
  <2>1. ~Cancel(p) /\ ~BackupTopology(p)
    BY <1>2 DEF Cancel, BackupTopology, Goto, TypeInv, ControlOK, BackupPCs
  <2>2. \E r : BackupFails(p, r)
    <3>1. BackupRLock(p) \/ BackupConn(p) \/ BackupVersions(p) \/ BackupPublic(p)
             \/ BackupNamed(p)
      BY <1>2, <2>1, BackupSteps
    <3>2. ~Goto(p, "backup_conn") /\ ~Goto(p, "backup_versions")
             /\ ~Goto(p, "backup_public") /\ ~Goto(p, "backup_named") /\ pc' # pc
      BY <1>2 DEF Goto, TypeInv, ControlOK, BackupPCs
    <3> QED BY <3>1, <3>2 DEF BackupRLock, BackupConn, BackupVersions, BackupPublic,
         BackupNamed
  <2>3. backups' = [backups EXCEPT ![b] = FreeBackup]
    BY <2>2 DEF BackupFails
  <2> QED BY <1>1, <1>2, <2>3 DEF TypeInv, SharedOK
<1>3. CASE BackupReturn(p)
  <2>1. backups' = [backups EXCEPT ![b].state = "taken"] /\ pc'[p] = "idle"
    BY <1>3 DEF BackupReturn, Return, Goto, TypeInv, ControlOK
  <2>2. /\ backups'[b].names = backups[b].names
        /\ backups'[b].images = backups[b].images
        /\ backups'[b].state = "taken"
    BY <1>1, <2>1 DEF TypeInv, SharedOK, BackupRecords
  <2> QED BY <2>1, <2>2
<1>4. CASE Cancel(p)
  <2>1. call'[p].backup = b
    BY <1>4 DEF Cancel, TypeInv, ControlOK, Calls
  <2> QED BY <1>4, <2>1 DEF Cancel, saved
<1>5. CASE pc'[p] # "idle" /\ (BackupTopology(p) \/ BackupRLock(p) \/ BackupConn(p))
  BY <1>5 DEF BackupTopology, BackupRLock, BackupConn, BackupFails, Return, Goto,
     TypeInv, ControlOK, saved
<1>6. CASE pc'[p] # "idle" /\ BackupVersions(p)
  <2> DEFINE new == [backups[b] EXCEPT !.names = schemas,
                       !.versions = [s \in Schemas |-> IF s \in schemas
                                                       THEN live[s].version ELSE 0]]
  <2>1. ~BackupFails(p, Refusal(p))
    BY <1>6 DEF BackupFails, Return, Goto, TypeInv, ControlOK
  <2>2. backups' = [backups EXCEPT ![b] = new]
    BY <1>6, <2>1 DEF BackupVersions
  <2>3. new.images = backups[b].images /\ new.state = "building"
    BY <1>1 DEF BackupRecords
  <2> HIDE DEF new
  <2> QED BY <1>1, <1>6, <2>2, <2>3, BackupVersionsEffect DEF TypeInv, SharedOK
<1>7. CASE pc'[p] # "idle" /\ BackupPublic(p)
  <2>1. ~BackupFails(p, "error")
    BY <1>7 DEF BackupFails, Return, Goto, TypeInv, ControlOK
  <2>2. backups' = [backups EXCEPT ![b].images[Public] = live[Public]]
    BY <1>7, <2>1 DEF BackupPublic
  <2>3. backups'[b].state = "building"
    BY <1>1, <2>2 DEF TypeInv, SharedOK, BackupRecords
  <2>4. /\ pc[p] = "backup_public" /\ pc'[p] = "backup_named"
        /\ backups'[b].names = backups[b].names
        /\ backups'[b].images = [backups[b].images EXCEPT ![Public] = live[Public]]
    BY <1>7, BackupPublicEffect
  <2>5. schemas = backups[b].names
    BY <2>4 DEF BackupExcludesTopology
  <2> QED BY <1>1, <2>3, <2>4, <2>5
<1>8. CASE pc'[p] # "idle" /\ BackupNamed(p)
  <2>1. ~BackupFails(p, Refusal(p))
    BY <1>8 DEF BackupFails, Return, Goto, TypeInv, ControlOK
  <2>2. PICK n \in call[p].todo :
           backups' = [backups EXCEPT ![b].images[n] = Vacuumed(live[n])]
    BY <1>8, <2>1 DEF BackupNamed
  <2>3. pc[p] = "backup_named" /\ pc'[p] = "backup_named"
    BY <1>8, <2>1 DEF BackupNamed
  <2>4. n \in schemas /\ schemas = backups[b].names
    BY <2>3 DEF HandleInv, BackupExcludesTopology
  <2>5. Vacuumed(live[n]) \in Contents
    BY <1>1, <2>4 DEF Vacuumed, Contents
  <2>6. /\ backups'[b].state = "building" /\ backups'[b].names = backups[b].names
        /\ backups'[b].images = [backups[b].images EXCEPT ![n] = Vacuumed(live[n])]
    BY <1>1, <2>2 DEF TypeInv, SharedOK, BackupRecords
  <2> QED BY <2>3, <2>4, <2>5, <2>6
<1> QED BY <1>2, <1>3, <1>4, <1>5, <1>6, <1>7, <1>8, BackupSteps

\* A Backup that has recorded its names does not go back.
LEMMA BackupForward ==
    ASSUME TypeInv, NEW p \in Procs, pc[p] \in {"backup_public", "backup_named"},
           Invoke(p) \/ Cancel(p) \/ Step(p) \/ Finish(p)
    PROVE  pc'[p] \in {"backup_public", "backup_named", "idle"}
<1>1. BackupPublic(p) \/ BackupNamed(p) \/ BackupReturn(p) \/ Cancel(p)
  BY BackupSteps DEF BackupPCs, BackupTopology, BackupRLock, BackupConn, BackupVersions
<1> QED BY <1>1 DEF BackupPublic, BackupNamed, BackupReturn, BackupFails, Cancel,
     Return, Goto, TypeInv, ControlOK

\* Every step keeps what Backups hold to what they name.
LEMMA ImagesStep ==
    ASSUME PublicInv, HandleInv, ImagesAreNamed, NEW p \in Procs,
           Invoke(p) \/ Cancel(p) \/ Step(p) \/ Finish(p)
    PROVE  ImagesAreNamed'
<1> USE DEF PublicInv, SnapshotInv, LockInv
<1>1. \A q \in Procs \ {p} : pc'[q] = pc[q] /\ call'[q] = call[q]
  BY OthersKept
<1>2. \A b \in BackupIds : backups[b].images \in [Schemas -> Contents]
  BY DEF TypeInv, SharedOK, BackupRecords
<1>3. CASE InvokeBackup(p)
  <2>1. PICK d \in BackupIds : /\ backups[d].state = "free"
                               /\ backups' = [backups EXCEPT ![d].state = "building"]
                               /\ \E c \in Contexts : Start(p, "backup_topology", c, None, d)
    BY <1>3 DEF InvokeBackup
  <2>2. pc'[p] = "backup_topology" /\ call'[p].backup = d
    BY <2>1 DEF Start, Goto, IdleCall, TypeInv, ControlOK
  <2>3. \A b \in BackupIds : /\ backups'[b].names = backups[b].names
                             /\ backups'[b].images = backups[b].images
                             /\ b # d => backups'[b] = backups[b]
    BY <2>1 DEF TypeInv, SharedOK, BackupRecords
  <2>4. backups'[d].state = "building" /\ backups[d].names = {}
    BY <2>1 DEF TypeInv, SharedOK, BackupRecords, ImagesAreNamed, FreeBackup
  <2>5. \A q \in Procs : pc[q] \in BackupPCs => call[q].backup \in BackupIds
    BY DEF TypeInv, ControlOK
  <2>6. \A b \in BackupIds : /\ \A s \in Schemas \ backups'[b].names :
                                  Datum(backups'[b].images[s]) = Datum(Empty)
                             /\ backups'[b].state = "free" => backups'[b] = FreeBackup
    BY <2>3, <2>4 DEF ImagesAreNamed
  <2>7. ASSUME NEW q \in Procs, pc'[q] \in BackupPCs \ {"backup_public", "backup_named"}
        PROVE  backups'[call'[q].backup].names = {}
    BY <1>1, <2>2, <2>3, <2>4, <2>5, <2>7 DEF ImagesAreNamed
  <2> QED BY <2>6, <2>7 DEF ImagesAreNamed, Datum
<1>4. CASE pc[p] \notin BackupPCs /\ ~InvokeBackup(p)
  <2>1. UNCHANGED backups
    BY <1>4, BackupsWrites
  <2>2. pc'[p] \notin BackupPCs
    BY <1>4, BackupEntries
  <2> QED BY <1>1, <2>1, <2>2 DEF ImagesAreNamed, Datum
<1>5. CASE pc[p] \in BackupPCs /\ ~InvokeBackup(p)
  <2> DEFINE b == call[p].backup
  <2>1. b \in BackupIds /\ backups[b].state = "building"
    BY <1>5 DEF TypeInv, ControlOK, BackupsOwned
  <2>2. \A d \in BackupIds \ {b} : backups'[d] = backups[d]
    BY <1>5, <2>1, BackupsWrites
  <2>3. \A q \in Procs \ {p} : pc[q] \in BackupPCs =>
           call[q].backup \in BackupIds \ {b}
    BY <1>5 DEF TypeInv, ControlOK, BackupsOwned
  <2>4. \A q \in Procs \ {p} : pc'[q] \in BackupPCs \ {"backup_public", "backup_named"} =>
           backups'[call'[q].backup].names = {}
    BY <1>1, <2>2, <2>3 DEF ImagesAreNamed
  <2>5. \A d \in BackupIds \ {b} :
           /\ \A s \in Schemas \ backups'[d].names :
                Datum(backups'[d].images[s]) = Datum(Empty)
           /\ backups'[d].state = "free" => backups'[d] = FreeBackup
    BY <2>2 DEF ImagesAreNamed
  <2>6. /\ \A s \in Schemas \ backups'[b].names :
             Datum(backups'[b].images[s]) = Datum(Empty)
        /\ backups'[b].state = "free" => backups'[b] = FreeBackup
        /\ pc'[p] \in BackupPCs \ {"backup_public", "backup_named"} =>
             backups'[call'[p].backup].names = {}
    <3>1. CASE backups'[b] = FreeBackup /\ pc'[p] = "idle"
      BY <3>1 DEF FreeBackup, BackupPCs
    <3>2. CASE UNCHANGED backups /\ call'[p].backup = b
      <4>1. pc'[p] \in BackupPCs \ {"backup_public", "backup_named"} =>
               pc[p] \in BackupPCs \ {"backup_public", "backup_named"}
        BY <1>5, BackupForward DEF BackupPCs
      <4> QED BY <2>1, <3>2, <4>1 DEF ImagesAreNamed
    <3>3. CASE /\ backups'[b].images = backups[b].images
               /\ backups'[b].state = "building"
               /\ pc[p] = "backup_versions" /\ pc'[p] = "backup_public"
      <4>1. backups[b].names = {}
        BY <3>3 DEF ImagesAreNamed, BackupPCs
      <4> QED BY <2>1, <3>3, <4>1 DEF ImagesAreNamed
    <3>4. CASE /\ pc[p] \in {"backup_public", "backup_named"} /\ pc'[p] = "backup_named"
               /\ backups'[b].names = schemas /\ schemas = backups[b].names
               /\ backups'[b].state = "building"
               /\ \E n \in schemas, image \in Contents :
                    backups'[b].images = [backups[b].images EXCEPT ![n] = image]
      BY <1>2, <2>1, <3>4 DEF ImagesAreNamed
    <3>5. CASE /\ backups'[b].names = backups[b].names
               /\ backups'[b].images = backups[b].images
               /\ backups'[b].state = "taken" /\ pc'[p] = "idle"
      BY <2>1, <3>5 DEF ImagesAreNamed, BackupPCs
    <3> QED BY <1>5, <3>1, <3>2, <3>3, <3>4, <3>5, BackupEffect
  <2> QED BY <2>4, <2>5, <2>6 DEF ImagesAreNamed, Datum
<1> QED BY <1>3, <1>4, <1>5

-----------------------------------------------------------------------------
(* The abstract state *)

\* The places of every kind of call are distinct.
LEMMA StatusTable ==
    ASSUME NEW l, NEW r
    PROVE  /\ l = "idle" => StatusAt(l, r) = Reported(r)
           /\ l \in WritePCs => StatusAt(l, r) = "write"
           /\ l \in CreatePCs => StatusAt(l, r) = "create"
           /\ l \in BackupPCs => StatusAt(l, r) = "backup"
           /\ l \in SwapPCs => StatusAt(l, r) = "restored"
           /\ l \in RestorePCs \ SwapPCs => StatusAt(l, r) = "restore"
           /\ l = "close_pool" => StatusAt(l, r) = "closing"
           /\ l \in {"close_lock", "close_set"} => StatusAt(l, r) = "close"
BY DEF StatusAt, WritePCs, ExecPCs, CallbackPCs, ScriptPCs, TxPCs, CreatePCs, BackupPCs,
   RestorePCs, SwapPCs

\* The status of every caller before and after a step.
LEMMA StatusIsAt ==
    ASSUME NEW p
    PROVE  /\ StatusOf(p) = StatusAt(pc[p], call[p].result)
           /\ StatusOf(p)' = StatusAt(pc'[p], call'[p].result)
BY DEF StatusOf

\* A step changes the status of its own goroutine.
LEMMA StatusMove ==
    ASSUME TypeInv, NEW p \in Procs,
           Invoke(p) \/ Cancel(p) \/ Step(p) \/ Finish(p)
    PROVE  [q \in Procs |-> StatusOf(q)]' =
             [[q \in Procs |-> StatusOf(q)] EXCEPT ![p] =
                 StatusAt(pc'[p], call'[p].result)]
<1>1. \A q \in Procs : StatusOf(q)' = StatusAt(pc'[q], call'[q].result)
  BY StatusIsAt
<1>2. \A q \in Procs \ {p} : StatusOf(q) = StatusAt(pc'[q], call'[q].result)
  BY StatusIsAt, OthersKept
<1> QED BY <1>1, <1>2

\* The goroutine in the middle of a swap, if any, is the only one.
LEMMA SwappingView ==
    ASSUME LockInv, NEW q \in Procs, pc[q] \in SwapPCs
    PROVE  StoreView = Recorded(call[q].backup)
<1>1. q \in Swapping /\ \A p \in Swapping : p = q
  BY DEF Swapping, LockInv, LocksFollowCalls, TopologyPCs, SwapPCs, RestorePCs
<1>2. (CHOOSE p \in Swapping : TRUE) = q
  BY <1>1
<1> QED BY <1>1, <1>2 DEF StoreView

\* The same after a step.
LEMMA SwappingViewAfter ==
    ASSUME LockInv', NEW q \in Procs, pc'[q] \in SwapPCs
    PROVE  StoreView' = Recorded(call[q].backup)'
<1>1. q \in Swapping' /\ \A p \in Swapping' : p = q
  BY DEF Swapping, LockInv, LocksFollowCalls, TopologyPCs, SwapPCs, RestorePCs
<1>2. (CHOOSE p \in Swapping' : TRUE) = q
  BY <1>1
<1> QED BY <1>1, <1>2 DEF StoreView

\* Without a swap the abstract store is what is committed.
LEMMA SettledView ==
    /\ (\A q \in Procs : pc[q] \notin SwapPCs) =>
         StoreView = [s \in Schemas |-> Datum(committed[s])]
    /\ (\A q \in Procs : pc'[q] \notin SwapPCs) =>
         StoreView' = [s \in Schemas |-> Datum(committed'[s])]
BY DEF StoreView, Swapping

\* The abstract store has data for every schema.
LEMMA StoreType ==
    ASSUME LockInv
    PROVE  StoreView \in [Schemas -> [rows : Rows, shape : Shapes]]
<1>1. \A s \in Schemas : Datum(committed[s]) \in [rows : Rows, shape : Shapes]
  BY DEF LockInv, TypeInv, SharedOK, Contents, Datum
<1>2. CASE \E q \in Procs : pc[q] \in SwapPCs
  <2>1. PICK q \in Procs : pc[q] \in SwapPCs
    BY <1>2
  <2>2. call[q].backup \in BackupIds
    BY <2>1 DEF LockInv, TypeInv, ControlOK, SwapPCs, RestorePCs
  <2>3. \A s \in Schemas : Datum(backups[call[q].backup].images[s])
                             \in [rows : Rows, shape : Shapes]
    BY <2>2 DEF LockInv, TypeInv, SharedOK, BackupRecords, Contents, Datum
  <2> QED BY <2>1, <2>3, SwappingView DEF Recorded
<1>3. CASE \A q \in Procs : pc[q] \notin SwapPCs
  BY <1>1, <1>3, SettledView
<1> QED BY <1>2, <1>3

-----------------------------------------------------------------------------
(* What a step does to the abstract state *)

LinearInv ==
    /\ PublicInv
    /\ HandleInv
    /\ WritesStayHere
    /\ UnusedIsEmpty
    /\ ImagesAreNamed

\* What is committed and what a Backup recorded are the same data, once all its
\* schemas are.
LEMMA RecordedIsCommitted ==
    ASSUME LinearInv, NEW b \in BackupIds, backups[b].names = schemas,
           \A s \in schemas : SameData(committed[s], backups[b].images[s])
    PROVE  Recorded(b) = [s \in Schemas |-> Datum(committed[s])]
<1>1. \A s \in Schemas \ schemas : Datum(backups[b].images[s]) = Datum(committed[s])
  BY DEF LinearInv, UnusedIsEmpty, ImagesAreNamed
<1>2. \A s \in schemas : Datum(backups[b].images[s]) = Datum(committed[s])
  BY DEF SameData, Datum
<1> QED BY <1>1, <1>2 DEF Recorded

\* A Backup appears in the abstract state when its call returns, and never changes.
LEMMA SavedKept ==
    ASSUME SnapshotInv, NEW p \in Procs,
           Invoke(p) \/ Cancel(p) \/ Step(p) \/ Finish(p), ~BackupReturn(p)
    PROVE  SavedView' = SavedView
<1>1. ASSUME NEW b \in BackupIds, backups[b].state = "taken"
      PROVE  backups'[b] = backups[b]
  BY <1>1, TakenKept DEF Next
<1>2. ASSUME NEW b \in BackupIds, backups[b].state # "taken"
      PROVE  backups'[b].state # "taken"
  BY <1>2, TakenOnReturn DEF SnapshotInv, LockInv
<1> QED BY <1>1, <1>2 DEF SavedView, Recorded

\* A Backup that returns records the whole abstract store.
LEMMA SavedReturned ==
    ASSUME LinearInv, NEW p \in Procs, BackupReturn(p),
           NEW b, b = call[p].backup
    PROVE  /\ b \in BackupIds /\ ~SavedView[b].taken
           /\ SavedView' = [SavedView EXCEPT ![b] =
                [taken |-> TRUE, names |-> schemas, store |-> StoreView]]
<1> USE DEF LinearInv, PublicInv, SnapshotInv, LockInv
<1>1. /\ pc[p] = "backup_named" /\ call[p].todo = {}
      /\ backups' = [backups EXCEPT ![b].state = "taken"]
  BY DEF BackupReturn
<1>2. b \in BackupIds /\ backups[b].state = "building"
  BY <1>1 DEF TypeInv, ControlOK, BackupPCs, BackupsOwned
<1>3. \A q \in Procs : pc[q] \notin SwapPCs
  BY <1>1 DEF LocksFollowCalls, TopologyPCs, BackupPCs, RestorePCs, SwapPCs
<1>4. StoreView = [s \in Schemas |-> Datum(committed[s])]
  BY <1>3, SettledView
<1>5. backups[b].names = schemas
  BY <1>1 DEF BackupExcludesTopology, ReaderPCs, BackupPCs
<1>6. \A s \in schemas : SameData(committed[s], backups[b].images[s])
  BY <1>1 DEF BackupIsConsistent, SameData
<1>7. Recorded(b) = StoreView
  BY <1>2, <1>4, <1>5, <1>6, RecordedIsCommitted
<1>8. /\ backups'[b].state = "taken" /\ backups'[b].names = schemas
      /\ backups'[b].images = backups[b].images
      /\ \A d \in BackupIds \ {b} : backups'[d] = backups[d]
  BY <1>1, <1>2, <1>5 DEF TypeInv, SharedOK, BackupRecords
<1>9. Recorded(b)' = Recorded(b)
         /\ \A d \in BackupIds \ {b} : Recorded(d)' = Recorded(d)
  BY <1>8 DEF Recorded
<1>10. ~SavedView[b].taken
  BY <1>2 DEF SavedView
<1>11. SavedView' = [d \in BackupIds |->
          IF d = b THEN [taken |-> TRUE, names |-> schemas, store |-> StoreView]
                   ELSE SavedView[d]]
  BY <1>7, <1>8, <1>9 DEF SavedView
<1> QED BY <1>2, <1>10, <1>11 DEF SavedView

\* How a goroutine gets into a swap, stays there and gets out, as long as the
\* engine does not fail.
LEMMA SwapSteps ==
    ASSUME TypeInv, ~EngineFaults, NEW p \in Procs,
           Invoke(p) \/ Cancel(p) \/ Step(p) \/ Finish(p)
    PROVE  \/ pc[p] \notin SwapPCs /\ pc'[p] \notin SwapPCs
           \/ RestorePublic(p) /\ pc[p] \notin SwapPCs /\ pc'[p] = "restore_named"
           \/ /\ pc[p] \in SwapPCs /\ pc'[p] \in SwapPCs
              /\ call'[p].backup = call[p].backup /\ UNCHANGED backups
           \/ RestoreReturn(p) /\ pc'[p] \notin SwapPCs
<1> USE DEF TypeInv, ControlOK, Goto, Return, Start, SwapPCs, OpenTxPCs, saved
<1>1. CASE InvokeStatement(p) \/ InvokeCreateSchema(p) \/ InvokeBackup(p)
           \/ InvokeRestore(p) \/ InvokeClose(p)
  BY <1>1 DEF InvokeStatement, InvokeCreateSchema, InvokeBackup,
    InvokeRestore, InvokeClose
<1>2. CASE Cancel(p)
  <2>1. call'[p].backup = call[p].backup
    BY <1>2 DEF Cancel, Calls
  <2> QED BY <1>2, <2>1 DEF Cancel
<1>3. CASE ExecCheck(p) \/ ExecRun(p) \/ CallbackCheck(p) \/ CallbackConn(p)
           \/ CallbackRegister(p) \/ ScriptCheck(p) \/ ScriptBegin(p)
           \/ ScriptStatement(p) \/ ScriptCommit(p) \/ ScriptAbort(p)
  BY <1>3 DEF ExecCheck, ExecRun, CallbackCheck, CallbackConn,
    CallbackRegister, ScriptCheck, ScriptBegin, ScriptStatement, ScriptCommit,
    ScriptAbort, Undo
<1>4. CASE BeginCheck(p) \/ BeginConn(p) \/ TxExec(p) \/ TxCheck(p)
           \/ TxStatement(p) \/ TxAbort(p) \/ TxCommit(p) \/ TxRollback(p)
  BY <1>4 DEF BeginCheck, BeginConn, TxExec, TxCheck, TxStatement, TxAbort,
    TxCommit, TxRollback, Undo
<1>5. CASE CreateTopology(p) \/ CreateCheck(p) \/ CreateAttach(p)
           \/ CreateLock(p) \/ CreatePublish(p)
  BY <1>5 DEF CreateTopology, CreateCheck, CreateAttach, CreateLock,
    CreatePublish
<1>6. CASE BackupTopology(p) \/ BackupRLock(p) \/ BackupConn(p)
           \/ BackupVersions(p) \/ BackupPublic(p) \/ BackupNamed(p)
           \/ BackupReturn(p)
  BY <1>6 DEF BackupTopology, BackupRLock, BackupConn, BackupVersions,
    BackupPublic, BackupNamed, BackupReturn, BackupFails
<1>7. CASE RestoreTopology(p) \/ RestoreRLock(p) \/ RestoreConn(p)
           \/ RestoreVersions(p) \/ RestorePrepare(p) \/ RestoreAttach(p)
           \/ RestoreReturn(p)
  BY <1>7 DEF RestoreTopology, RestoreRLock, RestoreConn, RestoreVersions,
    RestorePrepare, RestoreAttach, RestoreReturn, RestoreFails
<1>8. CASE RestorePublic(p)
  BY <1>8 DEF RestorePublic
<1>9. CASE RestoreDetach(p)
  <2>1. PICK n \in call[p].todo :
          /\ pc[p] = "restore_named" /\ Goto(p, "restore_attach") /\ UNCHANGED backups
          /\ call' = [call EXCEPT ![p].schema = n, ![p].todo = @ \ {n}]
    BY <1>9 DEF RestoreDetach
  <2>2. call'[p].backup = call[p].backup
    BY <2>1 DEF Calls
  <2> QED BY <2>1, <2>2
<1>10. CASE CloseLock(p) \/ CloseSet(p) \/ ClosePool(p)
  BY <1>10 DEF CloseLock, CloseSet, ClosePool
<1> QED BY <1>1, <1>2, <1>3, <1>4, <1>5, <1>6, <1>7, <1>8, <1>9, <1>10
  DEF Invoke, Step, Finish

\* The swap is invisible, and so is everything but the steps that commit.
LEMMA StoreKept ==
    ASSUME LinearInv, LinearInv', ~EngineFaults, NEW p \in Procs,
           Invoke(p) \/ Cancel(p) \/ Step(p) \/ Finish(p),
           ~RestorePublic(p),
           UNCHANGED committed \/ ~(ExecRun(p) \/ ScriptCommit(p) \/ TxCommit(p))
    PROVE  StoreView' = StoreView
<1> USE DEF LinearInv, PublicInv, SnapshotInv, LockInv
<1>1. \A q \in Procs \ {p} : pc'[q] = pc[q] /\ call'[q] = call[q]
  BY OthersKept
<1>2. CASE \E q \in Procs : pc[q] \in SwapPCs /\ pc'[q] \in SwapPCs
  <2>1. PICK q \in Procs : pc[q] \in SwapPCs /\ pc'[q] \in SwapPCs
    BY <1>2
  <2>2. PICK b : b = call[q].backup
    OBVIOUS
  <2>3. b \in BackupIds /\ backups[b].state = "taken"
    BY <2>1, <2>2 DEF TypeInv, ControlOK, BackupsOwned, SwapPCs, RestorePCs
  <2>4. call'[q].backup = b
    BY <1>1, <2>1, <2>2, SwapSteps DEF RestorePublic
  <2>5. backups'[b] = backups[b]
    BY <2>3, TakenKept DEF Next
  <2>6. StoreView = Recorded(call[q].backup)
    BY <2>1, SwappingView
  <2>7. StoreView' = Recorded(call[q].backup)'
    BY <2>1, SwappingViewAfter
  <2> QED BY <2>2, <2>4, <2>5, <2>6, <2>7 DEF Recorded
<1>3. CASE pc[p] \in SwapPCs /\ pc'[p] \notin SwapPCs
  <2>1. RestoreReturn(p)
    BY <1>3, SwapSteps
  <2>2. PICK b : b = call[p].backup
    OBVIOUS
  <2>3. /\ pc[p] = "restore_named" /\ call[p].todo = {} /\ UNCHANGED committed
        /\ b \in BackupIds
    BY <2>1, <2>2 DEF RestoreReturn, engine, TypeInv, ControlOK, RestorePCs
  <2>4. backups[b].names = schemas
    BY <2>2, <2>3 DEF BackupExcludesTopology, ReaderPCs, RestorePCs
  <2>5. \A s \in schemas : SameData(committed[s], backups[b].images[s])
    BY <2>2, <2>3 DEF RestoreIsExact
  <2>6. StoreView = [s \in Schemas |-> Datum(committed[s])]
    BY <1>3, <2>2, <2>3, <2>4, <2>5, SwappingView, RecordedIsCommitted
  <2>7. \A q \in Procs : pc'[q] \notin SwapPCs
    BY <1>1, <1>3 DEF LocksFollowCalls, TopologyPCs, SwapPCs, RestorePCs
  <2> QED BY <2>3, <2>6, <2>7, SettledView
<1>4. CASE \A q \in Procs : pc[q] \notin SwapPCs
  <2>1. \A q \in Procs : pc'[q] \notin SwapPCs
    BY <1>1, <1>4, SwapSteps DEF RestoreReturn, SwapPCs
  <2>2. ~RestoreDetach(p) /\ ~RestoreAttach(p)
    BY <1>4 DEF RestoreDetach, RestoreAttach, SwapPCs
  <2>3. UNCHANGED committed \/ CreateAttach(p)
    BY <2>2, CommitSteps
  <2>4. ASSUME NEW s \in Schemas PROVE Datum(committed'[s]) = Datum(committed[s])
    <3>1. CASE UNCHANGED committed
      BY <3>1
    <3>2. CASE CreateAttach(p) /\ ~UNCHANGED committed
      <4>1. committed' = [committed EXCEPT ![call[p].schema] = Empty]
        BY <3>2 DEF CreateAttach
      <4>2. s = call[p].schema => Datum(committed[s]) = Datum(Empty)
        BY <3>2 DEF CreateAttach, HandleInv, UnusedIsEmpty
      <4> QED BY <4>1, <4>2 DEF TypeInv, SharedOK
    <3> QED BY <2>3, <3>1, <3>2
  <2> QED BY <1>4, <2>1, <2>4, SettledView
<1> QED BY <1>1, <1>2, <1>3, <1>4

\* A statement, a script or a transaction that commits writes one schema of the
\* abstract store.
LEMMA StoreWritten ==
    ASSUME LinearInv, LinearInv', ~EngineFaults, NEW p \in Procs,
           ExecRun(p) \/ ScriptCommit(p) \/ TxCommit(p), ~UNCHANGED committed
    PROVE  \E s \in schemas, d \in [rows : Rows, shape : Shapes] :
              StoreView' = [StoreView EXCEPT ![s] = d]
<1> USE DEF LinearInv, PublicInv, SnapshotInv, LockInv
<1>1. \A q \in Procs \ {p} : pc'[q] = pc[q] /\ call'[q] = call[q]
  BY OthersKept DEF Step, Finish
<1>2. pc[p] \in WritePCs /\ pc[p] \notin SwapPCs /\ pc'[p] \notin SwapPCs
  <2>1. pc'[p] = "idle"
    BY DEF ExecRun, ScriptCommit, TxCommit, Undo, Return, Goto, TypeInv, ControlOK
  <2>2. pc[p] \in {"exec_run", "script_stmt", "tx_open"}
    BY DEF ExecRun, ScriptCommit, TxCommit
  <2> QED BY <2>1, <2>2 DEF WritePCs, ExecPCs, ScriptPCs, TxPCs, SwapPCs
<1>3. conn = None \/ conn = p
  BY DEF ExecRun, ScriptCommit, TxCommit, LocksFollowCalls, PinnedPCs, OpenTxPCs
<1>4. \A q \in Procs : pc[q] \notin SwapPCs
  BY <1>2, <1>3, ConstantsAssumption DEF LocksFollowCalls, PinnedPCs, SnapshotPCs,
     ReaderPCs, RestorePCs, SwapPCs
<1>5. \A q \in Procs : pc'[q] \notin SwapPCs
  BY <1>1, <1>2, <1>4
<1>6. PICK s : s = call[p].schema
  OBVIOUS
<1>7. s \in schemas /\ s \in Schemas
  BY <1>2, <1>6 DEF HandleInv, TypeInv, SharedOK
<1>8. \A u \in Schemas \ {s} : committed'[u] = committed[u]
  BY <1>6, CommitEffect
<1>9. Datum(committed'[s]) \in [rows : Rows, shape : Shapes]
  BY <1>7 DEF TypeInv, SharedOK, Contents, Datum
<1>10. StoreView' = [StoreView EXCEPT ![s] = Datum(committed'[s])]
  BY <1>4, <1>5, <1>7, <1>8, SettledView
<1> QED BY <1>7, <1>9, <1>10

\* A Restore puts the whole abstract store back when it replaces public.
LEMMA StoreRestored ==
    ASSUME LinearInv, LinearInv', ~EngineFaults, NEW p \in Procs, RestorePublic(p)
    PROVE  \E b \in BackupIds :
              /\ SavedView[b].taken /\ SavedView[b].names = schemas
              /\ StoreView' = SavedView[b].store
<1> USE DEF LinearInv, PublicInv, SnapshotInv, LockInv
<1>1. PICK b : b = call[p].backup
  OBVIOUS
<1>2. pc[p] = "restore_public" /\ pc'[p] = "restore_named" /\ UNCHANGED backups
         /\ call' = [call EXCEPT ![p].todo = schemas \ {Public}]
  BY DEF RestorePublic, Goto, TypeInv, ControlOK, saved
<1>3. call'[p].backup = b
  BY <1>1, <1>2 DEF TypeInv, ControlOK, Calls
<1>4. b \in BackupIds /\ backups[b].state = "taken" /\ backups[b].names = schemas
  BY <1>1, <1>2 DEF TypeInv, ControlOK, BackupsOwned, BackupExcludesTopology, ReaderPCs,
     RestorePCs
<1>5. StoreView' = Recorded(call[p].backup)'
  BY <1>2, SwappingViewAfter DEF SwapPCs
<1>6. StoreView' = Recorded(b)
  BY <1>2, <1>3, <1>5 DEF Recorded
<1>7. /\ SavedView[b].taken /\ SavedView[b].names = schemas
      /\ SavedView[b].store = Recorded(b)
  BY <1>4 DEF SavedView
<1> QED BY <1>4, <1>6, <1>7

\* Where a call goes on, and how it ends.
LEMMA Landing ==
    ASSUME TypeInv, NEW p \in Procs
    PROVE  /\ \A l : Goto(p, l) => pc'[p] = l
           /\ \A r : Return(p, r) => pc'[p] = "idle" /\ call'[p].result = r
           /\ \A l, c, s, b : Start(p, l, c, s, b) => pc'[p] = l
BY DEF TypeInv, ControlOK, Goto, Return, Start, IdleCall

\* What callers are told.
LEMMA ReportedTable ==
    /\ Reported("none") = "none" /\ Reported("ok") = "ok"
    /\ Reported("canceled") = "canceled"
    /\ \A r \in {"rolledback", "closed", "exists", "changed", "error"} :
         Reported(r) = "failed"
    /\ \A r : Reported(r) \in {"none", "ok", "failed", "canceled"}
BY DEF Reported

\* How statements, scripts and transactions go on and end.
LEMMA StatementMoves ==
    ASSUME TypeInv, NEW p \in Procs,
           \/ ExecCheck(p) \/ ExecRun(p) \/ CallbackCheck(p) \/ CallbackConn(p)
           \/ CallbackRegister(p) \/ ScriptCheck(p) \/ ScriptBegin(p)
           \/ ScriptStatement(p) \/ ScriptCommit(p) \/ ScriptAbort(p)
           \/ BeginCheck(p) \/ BeginConn(p) \/ TxExec(p) \/ TxCheck(p)
           \/ TxStatement(p) \/ TxAbort(p) \/ TxCommit(p) \/ TxRollback(p)
    PROVE  /\ pc[p] \in WritePCs
           /\ \/ pc'[p] \in WritePCs
              \/ /\ pc'[p] = "idle"
                 /\ call'[p].result \in {"ok", "canceled", "rolledback", "closed", "error"}
<1> USE Landing DEF Refusal, WritePCs, ExecPCs, CallbackPCs, ScriptPCs, TxPCs, Undo
<1>1. CASE ExecCheck(p)
  BY <1>1 DEF ExecCheck
<1>2. CASE ExecRun(p)
  BY <1>2 DEF ExecRun
<1>3. CASE CallbackCheck(p)
  BY <1>3 DEF CallbackCheck
<1>4. CASE CallbackConn(p)
  BY <1>4 DEF CallbackConn
<1>5. CASE CallbackRegister(p)
  BY <1>5 DEF CallbackRegister
<1>6. CASE ScriptCheck(p)
  BY <1>6 DEF ScriptCheck
<1>7. CASE ScriptBegin(p)
  BY <1>7 DEF ScriptBegin
<1>8. CASE ScriptStatement(p)
  BY <1>8 DEF ScriptStatement
<1>9. CASE ScriptCommit(p)
  BY <1>9 DEF ScriptCommit
<1>10. CASE ScriptAbort(p)
  BY <1>10 DEF ScriptAbort
<1>11. CASE BeginCheck(p)
  BY <1>11 DEF BeginCheck
<1>12. CASE BeginConn(p)
  BY <1>12 DEF BeginConn
<1>13. CASE TxExec(p)
  BY <1>13 DEF TxExec
<1>14. CASE TxCheck(p)
  BY <1>14 DEF TxCheck
<1>15. CASE TxStatement(p)
  BY <1>15 DEF TxStatement
<1>16. CASE TxAbort(p)
  BY <1>16 DEF TxAbort
<1>17. CASE TxCommit(p)
  BY <1>17 DEF TxCommit
<1>18. CASE TxRollback(p)
  BY <1>18 DEF TxRollback
<1> QED BY <1>1, <1>2, <1>3, <1>4, <1>5, <1>6, <1>7, <1>8, <1>9, <1>10, <1>11,
  <1>12, <1>13, <1>14, <1>15, <1>16, <1>17, <1>18

\* How CreateSchema goes on and ends.
LEMMA CreateMoves ==
    ASSUME TypeInv, NEW p \in Procs,
           \/ CreateTopology(p) \/ CreateCheck(p) \/ CreateAttach(p) \/ CreateLock(p)
           \/ CreatePublish(p)
    PROVE  /\ pc[p] \in CreatePCs
           /\ \/ pc'[p] \in CreatePCs /\ UNCHANGED topo
              \/ /\ pc'[p] = "idle" /\ UNCHANGED topo
                 /\ call'[p].result \in {"exists", "canceled", "closed", "error"}
              \/ /\ CreatePublish(p) /\ pc'[p] = "idle" /\ call'[p].result = "ok"
                 /\ ~closed /\ UNCHANGED closed
                 /\ pc[p] = "create_publish" /\ schemas' = schemas \cup {call[p].schema}
<1> USE Landing DEF Refusal, CreatePCs, topo
<1>1. CASE CreateTopology(p)
  BY <1>1 DEF CreateTopology
<1>2. CASE CreateCheck(p)
  BY <1>2 DEF CreateCheck
<1>3. CASE CreateAttach(p)
  BY <1>3 DEF CreateAttach
<1>4. CASE CreateLock(p)
  BY <1>4 DEF CreateLock
<1>5. CASE CreatePublish(p)
  BY <1>5 DEF CreatePublish
<1> QED BY <1>1, <1>2, <1>3, <1>4, <1>5

\* How Backup goes on and ends.
LEMMA BackupMoves ==
    ASSUME TypeInv, NEW p \in Procs,
           \/ BackupTopology(p) \/ BackupRLock(p) \/ BackupConn(p) \/ BackupVersions(p)
           \/ BackupPublic(p) \/ BackupNamed(p) \/ BackupReturn(p)
    PROVE  /\ pc[p] \in BackupPCs
           /\ \/ pc'[p] \in BackupPCs /\ ~BackupReturn(p)
              \/ /\ pc'[p] = "idle" /\ ~BackupReturn(p)
                 /\ call'[p].result \in {"canceled", "closed", "error"}
              \/ /\ BackupReturn(p) /\ pc[p] = "backup_named"
                 /\ pc'[p] = "idle" /\ call'[p].result = "ok"
<1>a. BackupReturn(p) => pc[p] = "backup_named" /\ call[p].todo = {}
  BY DEF BackupReturn
<1> USE Landing, <1>a DEF Refusal, BackupPCs, BackupFails
<1>1. CASE BackupTopology(p)
  BY <1>1 DEF BackupTopology
<1>2. CASE BackupRLock(p)
  BY <1>2 DEF BackupRLock
<1>3. CASE BackupConn(p)
  BY <1>3 DEF BackupConn
<1>4. CASE BackupVersions(p)
  BY <1>4 DEF BackupVersions
<1>5. CASE BackupPublic(p)
  BY <1>5 DEF BackupPublic
<1>6. CASE BackupNamed(p)
  BY <1>6 DEF BackupNamed
<1>7. CASE BackupReturn(p)
  BY <1>7 DEF BackupReturn
<1> QED BY <1>1, <1>2, <1>3, <1>4, <1>5, <1>6, <1>7

\* How Restore goes on and ends, as long as the engine does not fail.
LEMMA RestoreMoves ==
    ASSUME TypeInv, ~EngineFaults, NEW p \in Procs,
           \/ RestoreTopology(p) \/ RestoreRLock(p) \/ RestoreConn(p)
           \/ RestoreVersions(p) \/ RestorePrepare(p) \/ RestorePublic(p)
           \/ RestoreDetach(p) \/ RestoreAttach(p) \/ RestoreReturn(p)
    PROVE  \/ /\ pc[p] \in RestorePCs \ SwapPCs /\ ~RestorePublic(p)
              /\ pc'[p] \in RestorePCs \ SwapPCs
           \/ /\ pc[p] \in RestorePCs \ SwapPCs /\ ~RestorePublic(p)
              /\ pc'[p] = "idle"
              /\ call'[p].result \in {"canceled", "closed", "changed", "error"}
           \/ RestorePublic(p) /\ pc[p] = "restore_public" /\ pc'[p] = "restore_named"
           \/ pc[p] \in SwapPCs /\ pc'[p] \in SwapPCs
           \/ pc[p] \in SwapPCs /\ pc'[p] = "idle" /\ call'[p].result = "ok"
<1>a. RestorePublic(p) => pc[p] = "restore_public"
  BY DEF RestorePublic
<1> USE Landing, <1>a DEF Refusal, RestorePCs, SwapPCs, RestoreFails
<1>1. CASE RestoreTopology(p)
  BY <1>1 DEF RestoreTopology
<1>2. CASE RestoreRLock(p)
  BY <1>2 DEF RestoreRLock
<1>3. CASE RestoreConn(p)
  BY <1>3 DEF RestoreConn
<1>4. CASE RestoreVersions(p)
  BY <1>4 DEF RestoreVersions
<1>5. CASE RestorePrepare(p)
  BY <1>5 DEF RestorePrepare
<1>6. CASE RestorePublic(p)
  BY <1>6 DEF RestorePublic
<1>7. CASE RestoreDetach(p)
  BY <1>7 DEF RestoreDetach
<1>8. CASE RestoreAttach(p)
  BY <1>8 DEF RestoreAttach
<1>9. CASE RestoreReturn(p)
  BY <1>9 DEF RestoreReturn
<1> QED BY <1>1, <1>2, <1>3, <1>4, <1>5, <1>6, <1>7, <1>8, <1>9

\* How Close goes on and ends.
LEMMA CloseMoves ==
    ASSUME TypeInv, NEW p \in Procs, CloseLock(p) \/ CloseSet(p) \/ ClosePool(p)
    PROVE  /\ UNCHANGED schemas
           /\ \/ /\ pc[p] = "close_lock" /\ pc'[p] = "close_set" /\ UNCHANGED closed
              \/ /\ pc[p] = "close_set" /\ closed'
                 /\ \/ closed /\ pc'[p] = "idle" /\ call'[p].result = "ok"
                    \/ ~closed /\ pc'[p] = "close_pool"
              \/ /\ pc[p] = "close_pool" /\ UNCHANGED closed
                 /\ pc'[p] = "idle" /\ call'[p].result = "ok"
<1> USE Landing DEF topo, TypeInv, SharedOK
<1>1. CASE CloseLock(p)
  BY <1>1 DEF CloseLock
<1>2. CASE CloseSet(p)
  BY <1>2 DEF CloseSet
<1>3. CASE ClosePool(p)
  BY <1>3 DEF ClosePool
<1> QED BY <1>1, <1>2, <1>3

-----------------------------------------------------------------------------
(* Every step is an abstract step *)

\* A step that moves a goroutine's status is the abstract caller's move.
LEMMA StatusBecomes ==
    ASSUME TypeInv, NEW p \in Procs,
           Invoke(p) \/ Cancel(p) \/ Step(p) \/ Finish(p),
           NEW from, from = StatusAt(pc[p], call[p].result),
           NEW to, to = StatusAt(pc'[p], call'[p].result)
    PROVE  Linear!Becomes(p, from, to)
BY StatusMove, StatusIsAt DEF Linear!Becomes

\* What is left alone by everything but commits, Restore, the return of Backup and
\* the calls that change the topology.
LEMMA AbstractKept ==
    ASSUME LinearInv, LinearInv', ~EngineFaults, NEW p \in Procs,
           Invoke(p) \/ Cancel(p) \/ Step(p) \/ Finish(p),
           ~RestorePublic(p), ~BackupReturn(p), UNCHANGED <<schemas, closed>>,
           UNCHANGED committed \/ ~(ExecRun(p) \/ ScriptCommit(p) \/ TxCommit(p))
    PROVE  UNCHANGED <<StoreView, schemas, SavedView, closed>>
BY StoreKept, SavedKept DEF LinearInv, PublicInv

\* A step that changes nothing else and does not end a call or begin one.
LEMMA StatusStays ==
    ASSUME TypeInv, NEW p \in Procs,
           Invoke(p) \/ Cancel(p) \/ Step(p) \/ Finish(p),
           UNCHANGED <<StoreView, schemas, SavedView, closed>>,
           StatusAt(pc'[p], call'[p].result) = StatusAt(pc[p], call[p].result)
    PROVE  UNCHANGED Linear!svars
BY StatusMove, StatusIsAt DEF Linear!svars

\* What tells the steps apart by where they start.
LEMMA StepLabels ==
    ASSUME NEW p
    PROVE  /\ RestorePublic(p) => pc[p] = "restore_public"
           /\ BackupReturn(p) => pc[p] = "backup_named"
           /\ CreatePublish(p) => pc[p] = "create_publish"
           /\ CloseSet(p) => pc[p] = "close_set"
           /\ ClosePool(p) => pc[p] = "close_pool"
           /\ ExecRun(p) \/ ScriptCommit(p) \/ TxCommit(p) => pc[p] \in WritePCs
BY DEF RestorePublic, BackupReturn, CreatePublish, CloseSet, ClosePool, ExecRun,
   ScriptCommit, TxCommit, WritePCs, ExecPCs, ScriptPCs, TxPCs

\* The places of different kinds of calls.
LEMMA PlacesDiffer ==
    /\ \A l \in WritePCs : l \notin CreatePCs \cup BackupPCs \cup RestorePCs \cup ClosePCs
    /\ \A l \in CreatePCs : l \notin BackupPCs \cup RestorePCs \cup ClosePCs
    /\ \A l \in BackupPCs : l \notin RestorePCs \cup ClosePCs
    /\ \A l \in RestorePCs : l \notin ClosePCs
    /\ "idle" \notin WritePCs \cup CreatePCs \cup BackupPCs \cup RestorePCs \cup ClosePCs
    /\ "restore_public" \in RestorePCs \ SwapPCs /\ "restore_named" \in SwapPCs
    /\ "backup_named" \in BackupPCs /\ "create_publish" \in CreatePCs
    /\ SwapPCs \subseteq RestorePCs
    /\ ClosePCs = {"close_lock", "close_set", "close_pool"}
BY DEF WritePCs, ExecPCs, CallbackPCs, ScriptPCs, TxPCs, CreatePCs, BackupPCs, RestorePCs,
   ClosePCs, SwapPCs

\* How a call begins.
LEMMA InvokeMoves ==
    ASSUME TypeInv, NEW p \in Procs, Invoke(p)
    PROVE  /\ pc[p] = "idle" /\ UNCHANGED <<topo, engine>>
           /\ pc'[p] \in WritePCs \cup {"create_topology", "backup_topology",
                                       "restore_topology", "close_lock"}
<1> USE Landing DEF WritePCs, ExecPCs, CallbackPCs, ScriptPCs, TxPCs
<1>1. CASE InvokeStatement(p)
  BY <1>1 DEF InvokeStatement
<1>2. CASE InvokeCreateSchema(p) \/ InvokeBackup(p) \/ InvokeRestore(p) \/ InvokeClose(p)
  BY <1>2 DEF InvokeCreateSchema, InvokeBackup, InvokeRestore, InvokeClose
<1> QED BY <1>1, <1>2 DEF Invoke

\* A call begins.
LEMMA BeginIsLinear ==
    ASSUME LinearInv, LinearInv', ~EngineFaults, NEW p \in Procs, Invoke(p)
    PROVE  Linear!Next
<1> USE DEF LinearInv, PublicInv, SnapshotInv, LockInv
<1>1. /\ pc[p] = "idle" /\ UNCHANGED <<topo, engine>>
      /\ pc'[p] \in WritePCs \cup {"create_topology", "backup_topology",
                                  "restore_topology", "close_lock"}
  BY InvokeMoves
<1>2. UNCHANGED <<StoreView, schemas, SavedView, closed>>
  BY <1>1, AbstractKept, StepLabels, PlacesDiffer DEF topo, engine
<1>3. PICK r : r = StatusAt(pc[p], call[p].result)
  OBVIOUS
<1>4. PICK k : k = StatusAt(pc'[p], call'[p].result)
  OBVIOUS
<1>5. r \in Linear!Returned
  BY <1>1, <1>3, StatusTable, ReportedTable DEF Linear!Returned
<1>6. k \in {"write", "create", "backup", "restore", "close"}
  <2>1. pc'[p] \in WritePCs \/ pc'[p] \in CreatePCs \/ pc'[p] \in BackupPCs
         \/ pc'[p] \in RestorePCs \ SwapPCs \/ pc'[p] = "close_lock"
    BY <1>1 DEF CreatePCs, BackupPCs, RestorePCs, SwapPCs
  <2> QED BY <1>4, <2>1, StatusTable
<1>7. Linear!Becomes(p, r, k)
  BY <1>3, <1>4, StatusBecomes
<1>8. Linear!Begin(p)
  BY <1>2, <1>5, <1>6, <1>7 DEF Linear!Begin
<1> QED BY <1>8 DEF Linear!Next

\* A call ends with an error and without an effect.
LEMMA FailIsLinear ==
    ASSUME LinearInv, LinearInv', ~EngineFaults, NEW p \in Procs,
           Step(p) \/ Finish(p),
           UNCHANGED <<StoreView, schemas, SavedView, closed>>,
           pc[p] \in WritePCs \/ pc[p] \in CreatePCs \/ pc[p] \in BackupPCs
             \/ pc[p] \in RestorePCs \ SwapPCs,
           pc'[p] = "idle",
           call'[p].result \in {"canceled", "rolledback", "closed", "exists", "changed",
                                "error"}
    PROVE  Linear!Next
<1>1. PICK k : k = StatusAt(pc[p], call[p].result)
  OBVIOUS
<1>2. PICK r : r = StatusAt(pc'[p], call'[p].result)
  OBVIOUS
<1>3. k \in {"write", "create", "backup", "restore"}
  BY <1>1, StatusTable
<1>4. r \in {"failed", "canceled"}
  BY <1>2, StatusTable, ReportedTable
<1>5. Linear!Becomes(p, k, r)
  BY <1>1, <1>2, StatusBecomes DEF LinearInv, PublicInv, SnapshotInv, LockInv
<1>6. Linear!Fail(p)
  BY <1>3, <1>4, <1>5 DEF Linear!Fail
<1> QED BY <1>6 DEF Linear!Next

\* A step of a statement, a script or a transaction.
LEMMA StatementIsLinear ==
    ASSUME LinearInv, LinearInv', ~EngineFaults, NEW p \in Procs,
           \/ ExecCheck(p) \/ ExecRun(p) \/ CallbackCheck(p) \/ CallbackConn(p)
           \/ CallbackRegister(p) \/ ScriptCheck(p) \/ ScriptBegin(p)
           \/ ScriptStatement(p) \/ ScriptCommit(p) \/ ScriptAbort(p)
           \/ BeginCheck(p) \/ BeginConn(p) \/ TxExec(p) \/ TxCheck(p)
           \/ TxStatement(p) \/ TxAbort(p) \/ TxCommit(p) \/ TxRollback(p)
    PROVE  Linear!Next \/ UNCHANGED Linear!svars
<1> USE DEF LinearInv, PublicInv, SnapshotInv, LockInv
<1>1. Step(p) \/ Finish(p)
  BY DEF Step, Finish
<1>2. /\ pc[p] \in WritePCs
      /\ \/ pc'[p] \in WritePCs
         \/ /\ pc'[p] = "idle"
            /\ call'[p].result \in {"ok", "canceled", "rolledback", "closed", "error"}
  BY StatementMoves
<1>3. /\ ~RestorePublic(p) /\ ~BackupReturn(p) /\ ~CreatePublish(p) /\ ~CloseSet(p)
      /\ ~ClosePool(p)
  BY <1>2, StepLabels, PlacesDiffer
<1>4. UNCHANGED <<schemas, closed>>
  BY <1>1, <1>3, TopologyWrites DEF topo
<1>5. CASE UNCHANGED committed \/ ~(ExecRun(p) \/ ScriptCommit(p) \/ TxCommit(p))
  <2>1. UNCHANGED <<StoreView, schemas, SavedView, closed>>
    BY <1>1, <1>3, <1>4, <1>5, AbstractKept
  <2>2. CASE pc'[p] \in WritePCs
    BY <1>1, <1>2, <2>1, <2>2, StatusStays, StatusTable
  <2>3. CASE pc'[p] = "idle" /\ call'[p].result = "ok"
    <3>1. Linear!Becomes(p, "write", "ok")
      BY <1>1, <1>2, <2>3, StatusBecomes, StatusTable, ReportedTable
    <3>2. Public \in schemas /\ Public \in Schemas
      BY DEF VersionInv, Schemas
    <3>3. StoreView' = [StoreView EXCEPT ![Public] = StoreView[Public]]
            /\ StoreView[Public] \in [rows : Rows, shape : Shapes]
      BY <2>1, <3>2, StoreType
    <3>4. Linear!Write(p)
      BY <2>1, <3>1, <3>2, <3>3 DEF Linear!Write
    <3> QED BY <3>4 DEF Linear!Next
  <2>4. CASE pc'[p] = "idle" /\ call'[p].result # "ok"
    BY <1>1, <1>2, <2>1, <2>4, FailIsLinear, PlacesDiffer
  <2> QED BY <1>2, <2>2, <2>3, <2>4
<1>6. CASE ~UNCHANGED committed /\ (ExecRun(p) \/ ScriptCommit(p) \/ TxCommit(p))
  <2>1. pc'[p] = "idle" /\ call'[p].result \in {"ok", "canceled"}
    <3>1. CASE ExecRun(p)
      BY <1>6, <3>1, Landing DEF ExecRun
    <3>2. CASE ScriptCommit(p)
      BY <3>2, Landing DEF ScriptCommit
    <3>3. CASE TxCommit(p)
      BY <3>3, Landing DEF TxCommit
    <3> QED BY <1>6, <3>1, <3>2, <3>3
  <2>2. PICK r : r = call'[p].result
    OBVIOUS
  <2>3. Linear!Becomes(p, "write", r) /\ r \in {"ok", "canceled"}
    BY <1>1, <1>2, <2>1, <2>2, StatusBecomes, StatusTable, ReportedTable
  <2>4. \E s \in schemas, d \in [rows : Rows, shape : Shapes] :
           StoreView' = [StoreView EXCEPT ![s] = d]
    BY <1>6, StoreWritten
  <2>5. SavedView' = SavedView
    BY <1>1, <1>3, SavedKept
  <2>6. Linear!Write(p)
    BY <1>4, <2>3, <2>4, <2>5 DEF Linear!Write
  <2> QED BY <2>6 DEF Linear!Next
<1> QED BY <1>5, <1>6

\* A step of CreateSchema.
LEMMA CreateIsLinear ==
    ASSUME LinearInv, LinearInv', ~EngineFaults, NEW p \in Procs,
           \/ CreateTopology(p) \/ CreateCheck(p) \/ CreateAttach(p) \/ CreateLock(p)
           \/ CreatePublish(p)
    PROVE  Linear!Next \/ UNCHANGED Linear!svars
<1> USE DEF LinearInv, PublicInv, SnapshotInv, LockInv
<1>1. Step(p)
  BY DEF Step
<1>2. /\ pc[p] \in CreatePCs
      /\ \/ pc'[p] \in CreatePCs /\ UNCHANGED topo
         \/ /\ pc'[p] = "idle" /\ UNCHANGED topo
            /\ call'[p].result \in {"exists", "canceled", "closed", "error"}
         \/ /\ CreatePublish(p) /\ pc'[p] = "idle" /\ call'[p].result = "ok"
            /\ ~closed /\ UNCHANGED closed
            /\ pc[p] = "create_publish" /\ schemas' = schemas \cup {call[p].schema}
  BY CreateMoves
<1>3. ~RestorePublic(p) /\ ~BackupReturn(p)
         /\ ~(ExecRun(p) \/ ScriptCommit(p) \/ TxCommit(p))
  BY <1>2, StepLabels, PlacesDiffer
<1>4. StoreView' = StoreView /\ SavedView' = SavedView
  BY <1>1, <1>3, StoreKept, SavedKept
<1>5. CASE pc'[p] \in CreatePCs /\ UNCHANGED topo
  BY <1>1, <1>2, <1>4, <1>5, StatusStays, StatusTable DEF topo
<1>6. CASE /\ pc'[p] = "idle" /\ UNCHANGED topo
           /\ call'[p].result \in {"exists", "canceled", "closed", "error"}
  BY <1>1, <1>2, <1>4, <1>6, FailIsLinear DEF topo
<1>7. CASE /\ CreatePublish(p) /\ pc'[p] = "idle" /\ call'[p].result = "ok"
           /\ ~closed /\ UNCHANGED closed
           /\ pc[p] = "create_publish" /\ schemas' = schemas \cup {call[p].schema}
  <2>1. Linear!Becomes(p, "create", "ok")
    BY <1>1, <1>2, <1>7, StatusBecomes, StatusTable, ReportedTable
  <2>2. call[p].schema \in Schemas \ schemas
    BY <1>7 DEF HandleInv, TypeInv, ControlOK, CreatePCs, Schemas
  <2>3. Linear!Create(p)
    BY <1>4, <1>7, <2>1, <2>2 DEF Linear!Create
  <2> QED BY <2>3 DEF Linear!Next
<1> QED BY <1>2, <1>5, <1>6, <1>7

\* A step of Backup.
LEMMA BackupIsLinear ==
    ASSUME LinearInv, LinearInv', ~EngineFaults, NEW p \in Procs,
           \/ BackupTopology(p) \/ BackupRLock(p) \/ BackupConn(p) \/ BackupVersions(p)
           \/ BackupPublic(p) \/ BackupNamed(p) \/ BackupReturn(p)
    PROVE  Linear!Next \/ UNCHANGED Linear!svars
<1> USE DEF LinearInv, PublicInv, SnapshotInv, LockInv
<1>1. Step(p)
  BY DEF Step
<1>2. /\ pc[p] \in BackupPCs
      /\ \/ pc'[p] \in BackupPCs /\ ~BackupReturn(p)
         \/ /\ pc'[p] = "idle" /\ ~BackupReturn(p)
            /\ call'[p].result \in {"canceled", "closed", "error"}
         \/ /\ BackupReturn(p) /\ pc[p] = "backup_named"
            /\ pc'[p] = "idle" /\ call'[p].result = "ok"
  BY BackupMoves
<1>3. /\ ~RestorePublic(p) /\ ~CreatePublish(p) /\ ~CloseSet(p) /\ ~ClosePool(p)
      /\ ~(ExecRun(p) \/ ScriptCommit(p) \/ TxCommit(p))
  BY <1>2, StepLabels, PlacesDiffer
<1>4. StoreView' = StoreView /\ UNCHANGED <<schemas, closed>>
  BY <1>1, <1>3, StoreKept, TopologyWrites DEF topo
<1>5. CASE pc'[p] \in BackupPCs /\ ~BackupReturn(p)
  BY <1>1, <1>2, <1>4, <1>5, SavedKept, StatusStays, StatusTable
<1>6. CASE /\ pc'[p] = "idle" /\ ~BackupReturn(p)
           /\ call'[p].result \in {"canceled", "closed", "error"}
  BY <1>1, <1>2, <1>4, <1>6, SavedKept, FailIsLinear
<1>7. CASE /\ BackupReturn(p) /\ pc[p] = "backup_named"
           /\ pc'[p] = "idle" /\ call'[p].result = "ok"
  <2>1. Linear!Becomes(p, "backup", "ok")
    BY <1>1, <1>2, <1>7, StatusBecomes, StatusTable, ReportedTable
  <2>2. ~closed
    BY <1>7 DEF BackupExcludesTopology, ReaderPCs, BackupPCs
  <2>3. PICK b : b = call[p].backup
    OBVIOUS
  <2>4. /\ b \in BackupIds /\ ~SavedView[b].taken
        /\ SavedView' = [SavedView EXCEPT ![b] =
             [taken |-> TRUE, names |-> schemas, store |-> StoreView]]
    BY <1>7, <2>3, SavedReturned
  <2>5. Linear!Backup(p)
    BY <1>4, <2>1, <2>2, <2>4 DEF Linear!Backup
  <2> QED BY <2>5 DEF Linear!Next
<1> QED BY <1>2, <1>5, <1>6, <1>7

\* A step of Restore.
LEMMA RestoreIsLinear ==
    ASSUME LinearInv, LinearInv', ~EngineFaults, NEW p \in Procs,
           \/ RestoreTopology(p) \/ RestoreRLock(p) \/ RestoreConn(p)
           \/ RestoreVersions(p) \/ RestorePrepare(p) \/ RestorePublic(p)
           \/ RestoreDetach(p) \/ RestoreAttach(p) \/ RestoreReturn(p)
    PROVE  Linear!Next \/ UNCHANGED Linear!svars
<1> USE DEF LinearInv, PublicInv, SnapshotInv, LockInv
<1>1. Step(p)
  BY DEF Step
<1>2. \/ /\ pc[p] \in RestorePCs \ SwapPCs /\ ~RestorePublic(p)
         /\ pc'[p] \in RestorePCs \ SwapPCs
      \/ /\ pc[p] \in RestorePCs \ SwapPCs /\ ~RestorePublic(p)
         /\ pc'[p] = "idle"
         /\ call'[p].result \in {"canceled", "closed", "changed", "error"}
      \/ RestorePublic(p) /\ pc[p] = "restore_public" /\ pc'[p] = "restore_named"
      \/ pc[p] \in SwapPCs /\ pc'[p] \in SwapPCs
      \/ pc[p] \in SwapPCs /\ pc'[p] = "idle" /\ call'[p].result = "ok"
  BY RestoreMoves
<1>3. pc[p] \in RestorePCs
  BY <1>2, PlacesDiffer
<1>4. /\ ~BackupReturn(p) /\ ~CreatePublish(p) /\ ~CloseSet(p) /\ ~ClosePool(p)
      /\ ~(ExecRun(p) \/ ScriptCommit(p) \/ TxCommit(p))
  BY <1>3, StepLabels, PlacesDiffer
<1>5. SavedView' = SavedView /\ UNCHANGED <<schemas, closed>>
  BY <1>1, <1>4, SavedKept, TopologyWrites DEF topo
<1>6. pc[p] \in SwapPCs => ~RestorePublic(p)
  BY StepLabels, PlacesDiffer
<1>7. ~RestorePublic(p) => UNCHANGED <<StoreView, schemas, SavedView, closed>>
  BY <1>1, <1>4, <1>5, AbstractKept
<1>8. CASE /\ pc[p] \in RestorePCs \ SwapPCs /\ ~RestorePublic(p)
           /\ pc'[p] \in RestorePCs \ SwapPCs
  BY <1>1, <1>7, <1>8, StatusStays, StatusTable
<1>9. CASE /\ pc[p] \in RestorePCs \ SwapPCs /\ ~RestorePublic(p)
           /\ pc'[p] = "idle"
           /\ call'[p].result \in {"canceled", "closed", "changed", "error"}
  BY <1>1, <1>7, <1>9, FailIsLinear
<1>10. CASE RestorePublic(p) /\ pc[p] = "restore_public" /\ pc'[p] = "restore_named"
  <2>1. Linear!Becomes(p, "restore", "restored")
    BY <1>1, <1>10, StatusBecomes, StatusTable, PlacesDiffer
  <2>2. ~closed
    BY <1>10 DEF BackupExcludesTopology, ReaderPCs, RestorePCs
  <2>3. \E b \in BackupIds :
           /\ SavedView[b].taken /\ SavedView[b].names = schemas
           /\ StoreView' = SavedView[b].store
    BY <1>10, StoreRestored
  <2>4. Linear!Restore(p)
    BY <1>5, <2>1, <2>2, <2>3 DEF Linear!Restore
  <2> QED BY <2>4 DEF Linear!Next
<1>11. CASE pc[p] \in SwapPCs /\ pc'[p] \in SwapPCs
  BY <1>1, <1>6, <1>7, <1>11, StatusStays, StatusTable
<1>12. CASE pc[p] \in SwapPCs /\ pc'[p] = "idle" /\ call'[p].result = "ok"
  <2>1. Linear!Becomes(p, "restored", "ok")
    BY <1>1, <1>12, StatusBecomes, StatusTable, ReportedTable
  <2>2. Linear!RestoreReturns(p)
    BY <1>6, <1>7, <1>12, <2>1 DEF Linear!RestoreReturns
  <2> QED BY <2>2 DEF Linear!Next
<1> QED BY <1>2, <1>8, <1>9, <1>10, <1>11, <1>12

\* A step of Close.
LEMMA CloseIsLinear ==
    ASSUME LinearInv, LinearInv', ~EngineFaults, NEW p \in Procs,
           CloseLock(p) \/ CloseSet(p) \/ ClosePool(p)
    PROVE  Linear!Next \/ UNCHANGED Linear!svars
<1> USE DEF LinearInv, PublicInv, SnapshotInv, LockInv
<1>1. Step(p)
  BY DEF Step
<1>2. /\ UNCHANGED schemas
      /\ \/ /\ pc[p] = "close_lock" /\ pc'[p] = "close_set" /\ UNCHANGED closed
         \/ /\ pc[p] = "close_set" /\ closed'
            /\ \/ closed /\ pc'[p] = "idle" /\ call'[p].result = "ok"
               \/ ~closed /\ pc'[p] = "close_pool"
         \/ /\ pc[p] = "close_pool" /\ UNCHANGED closed
            /\ pc'[p] = "idle" /\ call'[p].result = "ok"
  BY CloseMoves
<1>3. /\ ~RestorePublic(p) /\ ~BackupReturn(p)
      /\ ~(ExecRun(p) \/ ScriptCommit(p) \/ TxCommit(p))
  BY <1>2, StepLabels, PlacesDiffer
<1>4. StoreView' = StoreView /\ SavedView' = SavedView /\ closed' \in BOOLEAN
  BY <1>1, <1>3, StoreKept, SavedKept DEF TypeInv, SharedOK
<1>5. CASE pc[p] = "close_lock" /\ pc'[p] = "close_set" /\ UNCHANGED closed
  BY <1>1, <1>2, <1>4, <1>5, StatusStays, StatusTable
<1>6. CASE pc[p] = "close_set" /\ closed' /\ closed /\ pc'[p] = "idle"
           /\ call'[p].result = "ok"
  <2>1. Linear!Becomes(p, "close", "ok")
    BY <1>1, <1>6, StatusBecomes, StatusTable, ReportedTable
  <2>2. Linear!Close(p)
    BY <1>2, <1>4, <1>6, <2>1 DEF Linear!Close
  <2> QED BY <2>2 DEF Linear!Next
<1>7. CASE pc[p] = "close_set" /\ closed' /\ ~closed /\ pc'[p] = "close_pool"
  <2>1. Linear!Becomes(p, "close", "closing")
    BY <1>1, <1>7, StatusBecomes, StatusTable
  <2>2. Linear!Close(p)
    BY <1>2, <1>4, <1>7, <2>1 DEF Linear!Close
  <2> QED BY <2>2 DEF Linear!Next
<1>8. CASE pc[p] = "close_pool" /\ UNCHANGED closed /\ pc'[p] = "idle"
           /\ call'[p].result = "ok"
  <2>1. Linear!Becomes(p, "closing", "ok")
    BY <1>1, <1>8, StatusBecomes, StatusTable, ReportedTable
  <2>2. Linear!CloseReturns(p)
    BY <1>2, <1>4, <1>8, <2>1 DEF Linear!CloseReturns
  <2> QED BY <2>2 DEF Linear!Next
<1> QED BY <1>2, <1>5, <1>6, <1>7, <1>8

\* The context of a call is canceled: nobody sees it yet.
LEMMA CancelIsLinear ==
    ASSUME LinearInv, LinearInv', ~EngineFaults, NEW p \in Procs, Cancel(p)
    PROVE  UNCHANGED Linear!svars
<1> USE DEF LinearInv, PublicInv, SnapshotInv, LockInv
<1>1. /\ pc[p] # "idle" /\ UNCHANGED <<topo, engine, saved, pc>>
      /\ call' = [call EXCEPT ![p].ctx = "canceled"]
  BY DEF Cancel
<1>2. call'[p].backup = call[p].backup /\ call'[p].result = call[p].result
  BY <1>1 DEF TypeInv, ControlOK, Calls
<1>3. ~BackupReturn(p) /\ ~RestorePublic(p)
  <2>1. pc'[p] = pc[p]
    BY <1>1
  <2> QED BY <2>1, Landing DEF BackupReturn, RestorePublic
<1>4. UNCHANGED <<StoreView, schemas, SavedView, closed>>
  BY <1>1, <1>3, AbstractKept DEF topo, engine
<1> QED BY <1>1, <1>2, <1>4, StatusStays

\* Every step of the DB is a step of the store, or none.
LEMMA LinearStep ==
    ASSUME LinearInv, LinearInv', ~EngineFaults, [Next]_vars
    PROVE  [Linear!Next]_(Linear!svars)
<1>1. CASE UNCHANGED vars
  <2>1. UNCHANGED <<StoreView, schemas, SavedView, closed>>
    BY <1>1 DEF vars, topo, engine, saved, StoreView, SavedView, Swapping, Recorded
  <2>2. [q \in Procs |-> StatusOf(q)]' = [q \in Procs |-> StatusOf(q)]
    BY <1>1 DEF vars, StatusOf
  <2> QED BY <2>1, <2>2 DEF Linear!svars
<1>2. ASSUME NEW p \in Procs, Invoke(p) PROVE Linear!Next
  BY <1>2, BeginIsLinear
<1>3. ASSUME NEW p \in Procs, Cancel(p) PROVE UNCHANGED Linear!svars
  BY <1>3, CancelIsLinear
<1>4. ASSUME NEW p \in Procs, Step(p) \/ Finish(p)
      PROVE  Linear!Next \/ UNCHANGED Linear!svars
  BY <1>4, StatementIsLinear, CreateIsLinear, BackupIsLinear, RestoreIsLinear,
     CloseIsLinear DEF Step, Finish
<1> QED BY <1>1, <1>2, <1>3, <1>4 DEF Next

-----------------------------------------------------------------------------
(* The DB implements the store *)

\* The invariant of the refinement holds initially, and the store is empty, ...
LEMMA LinearInvInit == Init => LinearInv /\ Linear!Init
<1> SUFFICES ASSUME Init PROVE LinearInv /\ Linear!Init
  OBVIOUS
<1>1. /\ schemas = {Public} /\ closed = FALSE /\ txn = None
      /\ live = [s \in Schemas |-> Empty] /\ committed = [s \in Schemas |-> Empty]
      /\ backups = [b \in BackupIds |-> FreeBackup]
      /\ \A p \in Procs : pc[p] = "idle" /\ call[p] = IdleCall
  BY DEF Init
<1>2. PublicInv
  BY PublicInit
<1>3. HandleInv
  BY <1>1 DEF HandleInv, WritePCs, ExecPCs, CallbackPCs, ScriptPCs, TxPCs
<1>4. WritesStayHere /\ UnusedIsEmpty
  BY <1>1, ConstantsAssumption DEF WritesStayHere, UnusedIsEmpty
<1>5. \A b \in BackupIds : \A s \in Schemas : backups[b].images[s] = Empty
  BY <1>1 DEF FreeBackup
<1>6. ImagesAreNamed
  BY <1>1, <1>5 DEF ImagesAreNamed, BackupPCs
<1>7. \A q \in Procs : pc[q] \notin SwapPCs
  BY <1>1 DEF SwapPCs
<1>8. StoreView = [s \in Schemas |-> Datum(Empty)]
  BY <1>1, <1>7, SettledView
<1>9. SavedView = [b \in BackupIds |-> Linear!NotSaved]
  BY <1>1 DEF SavedView, FreeBackup, Linear!NotSaved
<1>10. \A q \in Procs : StatusOf(q) = "none"
  BY <1>1, StatusIsAt, StatusTable, ReportedTable DEF IdleCall
<1>11. Linear!Init
  BY <1>1, <1>8, <1>9, <1>10 DEF Linear!Init
<1> QED BY <1>2, <1>3, <1>4, <1>6, <1>11 DEF LinearInv

\* ... every step keeps the invariant, ...
LEMMA LinearInvStep == LinearInv /\ [Next]_vars => LinearInv'
<1> SUFFICES ASSUME LinearInv, [Next]_vars PROVE LinearInv'
  OBVIOUS
<1>1. PublicInv'
  BY PublicStep DEF LinearInv
<1>2. CASE UNCHANGED vars
  BY <1>1, <1>2 DEF LinearInv, HandleInv, WritesStayHere, UnusedIsEmpty, ImagesAreNamed,
     vars, topo, engine, saved
<1>3. CASE Next
  BY <1>1, <1>3, HandleStep, HomeStep, UnusedStep, ImagesStep
     DEF Next, LinearInv, PublicInv, SnapshotInv
<1> QED BY <1>2, <1>3

\* ... so it holds of every reachable state.
LEMMA LinearAlways == Spec => []LinearInv
BY LinearInvInit, LinearInvStep, PTL DEF Spec

\* The DB is a linearizable store: under every interleaving of locks, engine calls
\* and cancellations, a call takes effect at one instant of its own or not at all,
\* a Backup reads every schema at one instant and a Restore writes every schema at
\* one instant.  (An engine that fails in the middle of a swap leaves one schema
\* empty: FaultContainment says what is promised then.)
THEOREM Linearizability == ASSUME ~EngineFaults PROVE Spec => LinearizableStore
<1>1. Init => Linear!Init
  BY LinearInvInit
<1>2. LinearInv /\ LinearInv' /\ [Next]_vars => [Linear!Next]_(Linear!svars)
  BY LinearStep
<1> QED BY <1>1, <1>2, LinearAlways, PTL DEF Spec, LinearizableStore, Linear!Spec

=============================================================================
