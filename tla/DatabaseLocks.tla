--------------------------- MODULE DatabaseLocks ----------------------------
(***************************************************************************)
(* Theorems about Database, for every set of goroutines, schemas, backups  *)
(* and contents, every assignment of calls to goroutines, with and without *)
(* canceled contexts and failing engine calls: its types, and that its     *)
(* locks and the connection are taken and given back in pairs and          *)
(* transactions stay on the connection their goroutine has pinned          *)
(* (LocksFollowCalls, TransactionsArePinned).                              *)
(***************************************************************************)
EXTENDS Database, TLAPS

\* TypeOK in two halves.  Where a call is, with what its local variables refer
\* to at the program points that use them ...
ControlOK ==
    /\ pc \in [Procs -> PCs]
    /\ call \in [Procs -> Calls]
    /\ \A p \in Procs :
         /\ pc[p] \in CreatePCs \cup {"restore_attach"} => call[p].schema \in Names
         /\ pc[p] \in BackupPCs \cup RestorePCs => call[p].backup \in BackupIds

\* ... and the state the calls share.
SharedOK ==
    /\ closed \in BOOLEAN /\ poolClosed \in BOOLEAN
    /\ schemas \subseteq Schemas
    /\ topologyMu \in Procs \cup {None}
    /\ readers \subseteq Procs
    /\ writer \in Procs \cup {None}
    /\ conn \in Procs \cup {None}
    /\ attached \subseteq Schemas
    /\ live \in [Schemas -> Contents]
    /\ committed \in [Schemas -> Contents]
    /\ txn \in Procs \cup {None}
    /\ backups \in [BackupIds -> BackupRecords]
    /\ outdated \subseteq BackupIds

TypeInv == ControlOK /\ SharedOK

-----------------------------------------------------------------------------
(* The operators the actions are built from keep the types *)

\* A fresh schema, an unused Backup slot and an idle goroutine are well typed.
LEMMA InitialTypes ==
    Empty \in Contents /\ FreeBackup \in BackupRecords /\ IdleCall \in Calls
<1>1. Empty \in Contents
  BY ConstantsAssumption DEF Empty, Contents
<1>2. FreeBackup \in BackupRecords
  BY <1>1 DEF FreeBackup, BackupRecords
<1>3. IdleCall \in Calls
  BY DEF IdleCall, Calls, Results
<1> QED BY <1>1, <1>2, <1>3

\* A call that goes to another place of the same operation keeps its local
\* variables meaningful.
LEMMA GotoControl ==
    ASSUME ControlOK, NEW p \in Procs, NEW label \in PCs,
           Goto(p, label), UNCHANGED call,
           label \in CreatePCs => pc[p] \in CreatePCs,
           label \in BackupPCs \cup RestorePCs => pc[p] \in BackupPCs \cup RestorePCs,
           label # "restore_attach"
    PROVE  ControlOK'
BY DEF ControlOK, Goto

\* A call that returns has none.
LEMMA ReturnControl ==
    ASSUME ControlOK, NEW p \in Procs, NEW r \in Results, Return(p, r)
    PROVE  ControlOK'
<1> DEFINE new == [IdleCall EXCEPT !.result = r]
<1>1. new \in Calls
  BY InitialTypes DEF Calls
<1>2. "idle" \in PCs /\ "idle" \notin CreatePCs \cup BackupPCs \cup RestorePCs
  BY DEF PCs, CreatePCs, BackupPCs, RestorePCs
<1>3. pc' = [pc EXCEPT ![p] = "idle"] /\ call' = [call EXCEPT ![p] = new]
  BY DEF Return, Goto
<1> HIDE DEF new
<1> QED BY <1>1, <1>2, <1>3 DEF ControlOK

\* A call starts with the schema and the Backup it is about.
LEMMA StartControl ==
    ASSUME ControlOK, NEW p \in Procs, NEW label \in PCs,
           NEW c \in Contexts \cup {"background"},
           NEW s \in Schemas \cup {None}, NEW b \in BackupIds \cup {None},
           Start(p, label, c, s, b),
           label \in CreatePCs => s \in Names,
           label \in BackupPCs \cup RestorePCs => b \in BackupIds,
           label # "restore_attach"
    PROVE  ControlOK'
<1> DEFINE new == [IdleCall EXCEPT !.ctx = c, !.schema = s, !.backup = b]
<1>1. new \in Calls /\ new.schema = s /\ new.backup = b
  BY InitialTypes, ConstantsAssumption DEF Calls, IdleCall
<1>2. call' = [call EXCEPT ![p] = new] /\ pc' = [pc EXCEPT ![p] = label]
  BY DEF Start, Goto
<1> HIDE DEF new
<1> QED BY <1>1, <1>2 DEF ControlOK

\* Nothing changes for a call that stays where it is.
LEMMA SameControl ==
    ASSUME ControlOK, UNCHANGED <<pc, call>>
    PROVE  ControlOK'
BY DEF ControlOK

\* Backup and Restore keep in todo the named schemas they have still to visit.
LEMMA TodoControl ==
    ASSUME ControlOK, NEW p \in Procs, NEW label \in PCs, NEW names \in SUBSET Names,
           Goto(p, label), call' = [call EXCEPT ![p].todo = names],
           label \notin CreatePCs, label # "restore_attach",
           pc[p] \in BackupPCs \cup RestorePCs
    PROVE  ControlOK'
<1> DEFINE new == [call[p] EXCEPT !.todo = names]
<1>1. new \in Calls /\ new.schema = call[p].schema /\ new.backup = call[p].backup
  BY DEF ControlOK, Calls
<1>2. call' = [call EXCEPT ![p] = new]
  BY DEF ControlOK
<1> HIDE DEF new
<1> QED BY <1>1, <1>2 DEF ControlOK, Goto

\* A Backup may get a new image.
LEMMA ImageType ==
    ASSUME SharedOK, NEW b \in BackupIds, NEW s \in Schemas, NEW image \in Contents
    PROVE  [backups[b] EXCEPT !.images = [backups[b].images EXCEPT ![s] = image]]
             \in BackupRecords
BY DEF SharedOK, BackupRecords

\* A statement leaves well-typed contents behind.
LEMMA OutcomesType ==
    ASSUME SharedOK, NEW s, NEW after \in Outcomes(s)
    PROVE  after \in [Schemas -> Contents] /\ s \in attached
             /\ \A u \in Schemas \ {s} : after[u] = live[u]
<1>1. s \in attached /\ s \in Schemas
  BY DEF Outcomes, SharedOK
<1>2. CASE \E r \in Rows : after = [live EXCEPT ![s].rows = r]
  BY <1>1, <1>2 DEF SharedOK, Contents
<1>3. CASE \E h \in Shapes : after = [live EXCEPT ![s] =
              [rows |-> live[s].rows, shape |-> h, version |-> live[s].version + 1]]
  BY <1>1, <1>3 DEF SharedOK, Contents
<1> QED BY <1>1, <1>2, <1>3 DEF Outcomes

-----------------------------------------------------------------------------
(* Types *)

\* Every step of every call keeps the calls' local variables meaningful.
LEMMA ControlStep ==
    ASSUME ControlOK, SharedOK, NEW p \in Procs,
           Invoke(p) \/ Cancel(p) \/ Step(p) \/ Finish(p)
    PROVE  ControlOK'
<1> USE GotoControl, ReturnControl DEF PCs, CreatePCs, BackupPCs, RestorePCs
<1>1. CASE InvokeStatement(p)
  <2>1. PICK c \in Contexts, s \in schemas :
           \/ Start(p, "exec_check", c, s, None)
           \/ Start(p, "callback_check", c, s, None)
           \/ Start(p, "script_check", c, s, None)
           \/ Start(p, "begin_check", c, s, None)
    BY <1>1 DEF InvokeStatement
  <2>2. s \in Schemas
    BY DEF SharedOK
  <2> QED BY <2>1, <2>2, StartControl DEF ExecPCs, CallbackPCs, ScriptPCs, TxPCs
<1>2. CASE InvokeCreateSchema(p)
  BY <1>2, StartControl DEF InvokeCreateSchema, Schemas
<1>3. CASE InvokeBackup(p)
  BY <1>3, StartControl DEF InvokeBackup
<1>4. CASE InvokeRestore(p)
  BY <1>4, StartControl DEF InvokeRestore, Taken
<1>5. CASE InvokeClose(p)
  BY <1>5, StartControl DEF InvokeClose, ClosePCs
<1>6. CASE Cancel(p)
  <2> DEFINE new == [call[p] EXCEPT !.ctx = "canceled"]
  <2>1. call' = [call EXCEPT ![p] = new] /\ pc' = pc
    BY <1>6 DEF Cancel
  <2>2. new \in Calls /\ new.schema = call[p].schema /\ new.backup = call[p].backup
    BY DEF ControlOK, Calls
  <2> HIDE DEF new
  <2> QED BY <2>1, <2>2 DEF ControlOK
<1>7. CASE ExecCheck(p)
  BY <1>7 DEF ExecCheck, Results, ExecPCs
<1>8. CASE ExecRun(p)
  BY <1>8 DEF ExecRun, Refusal, Results, ExecPCs
<1>9. CASE CallbackCheck(p)
  BY <1>9 DEF CallbackCheck, Results, CallbackPCs
<1>10. CASE CallbackConn(p)
  BY <1>10 DEF CallbackConn, Refusal, Results, CallbackPCs
<1>11. CASE CallbackRegister(p)
  BY <1>11 DEF CallbackRegister, Results, CallbackPCs
<1>12. CASE ScriptCheck(p)
  BY <1>12 DEF ScriptCheck, Results, ScriptPCs
<1>13. CASE ScriptBegin(p)
  BY <1>13 DEF ScriptBegin, Refusal, Results, ScriptPCs
<1>14. CASE ScriptStatement(p)
  BY <1>14, SameControl DEF ScriptStatement, Results
<1>15. CASE BeginCheck(p)
  BY <1>15 DEF BeginCheck, Results, TxPCs
<1>16. CASE BeginConn(p)
  BY <1>16 DEF BeginConn, Refusal, Results, TxPCs
<1>17. CASE TxExec(p)
  BY <1>17 DEF TxExec, TxPCs
<1>18. CASE TxCheck(p)
  BY <1>18 DEF TxCheck, TxPCs
<1>19. CASE TxStatement(p)
  BY <1>19 DEF TxStatement, TxPCs
<1>20. CASE TxAbort(p)
  BY <1>20, SameControl DEF TxAbort
<1>21. CASE CreateTopology(p)
  BY <1>21 DEF CreateTopology
<1>22. CASE CreateCheck(p)
  BY <1>22 DEF CreateCheck, Results
<1>23. CASE CreateAttach(p)
  BY <1>23 DEF CreateAttach, Refusal, Results
<1>24. CASE CreateLock(p)
  BY <1>24 DEF CreateLock
<1>25. CASE CreatePublish(p)
  BY <1>25 DEF CreatePublish, Results
<1>26. CASE BackupTopology(p)
  BY <1>26 DEF BackupTopology
<1>27. CASE BackupRLock(p)
  BY <1>27 DEF BackupRLock, BackupFails, Results
<1>28. CASE BackupConn(p)
  BY <1>28 DEF BackupConn, BackupFails, Refusal, Results
<1>29. CASE BackupVersions(p)
  BY <1>29 DEF BackupVersions, BackupFails, Refusal, Results
<1>30. CASE BackupPublic(p)
  <2>1. CASE /\ Goto(p, "backup_named")
              /\ call' = [call EXCEPT ![p].todo = schemas \ {Public}]
    BY <1>30, <2>1, TodoControl DEF BackupPublic, SharedOK, Schemas
  <2>2. CASE Return(p, "error")
    BY <2>2 DEF Results
  <2> QED BY <1>30, <2>1, <2>2 DEF BackupPublic, BackupFails
<1>31. CASE BackupNamed(p)
  <2>1. CASE \E n \in call[p].todo :
                call' = [call EXCEPT ![p].todo = @ \ {n}] /\ pc' = pc
    <3>1. PICK n \in call[p].todo : call' = [call EXCEPT ![p].todo = call[p].todo \ {n}]
      BY <2>1
    <3>2. call[p].todo \ {n} \in SUBSET Names
      BY DEF ControlOK, Calls
    <3>3. pc' = [pc EXCEPT ![p] = "backup_named"]
      BY <1>31, <2>1 DEF BackupNamed, ControlOK
    <3> QED BY <1>31, <3>1, <3>2, <3>3, TodoControl DEF BackupNamed, Goto
  <2>2. CASE Return(p, Refusal(p))
    BY <2>2 DEF Results, Refusal
  <2> QED BY <1>31, <2>1, <2>2 DEF BackupNamed, BackupFails
<1>32. CASE BackupReturn(p)
  BY <1>32 DEF BackupReturn, Results
<1>33. CASE RestoreTopology(p)
  BY <1>33 DEF RestoreTopology
<1>34. CASE RestoreRLock(p)
  BY <1>34 DEF RestoreRLock, RestoreFails, Results
<1>35. CASE RestoreConn(p)
  BY <1>35 DEF RestoreConn, RestoreFails, Refusal, Results
<1>36. CASE RestoreVersions(p)
  BY <1>36 DEF RestoreVersions, RestoreFails, Refusal, Results
<1>37. CASE RestorePrepare(p)
  BY <1>37 DEF RestorePrepare, RestoreFails, Refusal, Results
<1>38. CASE RestorePublic(p)
  <2>1. CASE /\ Goto(p, "restore_named")
              /\ call' = [call EXCEPT ![p].todo = schemas \ {Public}]
    BY <1>38, <2>1, TodoControl DEF RestorePublic, SharedOK, Schemas
  <2>2. CASE Return(p, "error")
    BY <2>2 DEF Results
  <2> QED BY <1>38, <2>1, <2>2 DEF RestorePublic, RestoreFails
<1>39. CASE RestoreDetach(p)
  <2>1. CASE \E n \in call[p].todo :
                /\ Goto(p, "restore_attach")
                /\ call' = [call EXCEPT ![p].schema = n, ![p].todo = @ \ {n}]
    <3>1. PICK n \in call[p].todo :
             /\ Goto(p, "restore_attach")
             /\ call' = [call EXCEPT ![p].schema = n, ![p].todo = @ \ {n}]
      BY <2>1
    <3> DEFINE new == [call[p] EXCEPT !.schema = n, !.todo = call[p].todo \ {n}]
    <3>2. new \in Calls /\ new.schema \in Names /\ new.backup = call[p].backup
      BY DEF ControlOK, Calls, Schemas
    <3>3. call' = [call EXCEPT ![p] = new]
      BY <3>1 DEF ControlOK
    <3>4. call[p].backup \in BackupIds
      BY <1>39 DEF RestoreDetach, ControlOK
    <3> HIDE DEF new
    <3> QED BY <3>1, <3>2, <3>3, <3>4 DEF ControlOK, Goto
  <2>2. CASE Return(p, "error")
    BY <2>2 DEF Results
  <2> QED BY <1>39, <2>1, <2>2 DEF RestoreDetach, RestoreFails
<1>40. CASE RestoreAttach(p)
  BY <1>40 DEF RestoreAttach, RestoreFails, Results
<1>41. CASE RestoreReturn(p)
  BY <1>41 DEF RestoreReturn, Results
<1>42. CASE CloseLock(p)
  BY <1>42 DEF CloseLock, ClosePCs
<1>43. CASE CloseSet(p)
  BY <1>43 DEF CloseSet, Results, ClosePCs
<1>44. CASE ClosePool(p)
  BY <1>44 DEF ClosePool, Results, ClosePCs
<1>45. CASE ScriptCommit(p)
  BY <1>45 DEF ScriptCommit, Results, ScriptPCs
<1>46. CASE ScriptAbort(p)
  BY <1>46, SameControl DEF ScriptAbort
<1>47. CASE TxCommit(p)
  BY <1>47 DEF TxCommit, Results, TxPCs
<1>48. CASE TxRollback(p)
  BY <1>48 DEF TxRollback, Results, TxPCs
<1> QED BY <1>1, <1>2, <1>3, <1>4, <1>5, <1>6, <1>7, <1>8, <1>9, <1>10, <1>11,
     <1>12, <1>13, <1>14, <1>15, <1>16, <1>17, <1>18, <1>19, <1>20, <1>21,
     <1>22, <1>23, <1>24, <1>25, <1>26, <1>27, <1>28, <1>29, <1>30, <1>31,
     <1>32, <1>33, <1>34, <1>35, <1>36, <1>37, <1>38, <1>39, <1>40, <1>41,
     <1>42, <1>43, <1>44, <1>45, <1>46, <1>47, <1>48
  DEF Invoke, Step, Finish

\* Every step of every call keeps the shared state well typed.
LEMMA SharedStep ==
    ASSUME ControlOK, SharedOK, NEW p \in Procs,
           Invoke(p) \/ Cancel(p) \/ Step(p) \/ Finish(p)
    PROVE  SharedOK'
<1> USE ConstantsAssumption, InitialTypes DEF SharedOK, topo, locks, engine, saved
<1>1. CASE InvokeStatement(p)
  BY <1>1 DEF InvokeStatement
<1>2. CASE InvokeCreateSchema(p)
  BY <1>2 DEF InvokeCreateSchema
<1>3. CASE InvokeBackup(p)
  <2>1. PICK b \in BackupIds : backups' = [backups EXCEPT ![b].state = "building"]
    BY <1>3 DEF InvokeBackup
  <2>2. [backups[b] EXCEPT !.state = "building"] \in BackupRecords
    BY DEF BackupRecords
  <2> QED BY <1>3, <2>1, <2>2 DEF InvokeBackup
<1>4. CASE InvokeRestore(p)
  BY <1>4 DEF InvokeRestore, Taken
<1>5. CASE InvokeClose(p)
  BY <1>5 DEF InvokeClose
<1>6. CASE Cancel(p)
  BY <1>6 DEF Cancel
<1>7. CASE ExecCheck(p)
  BY <1>7 DEF ExecCheck
<1>8. CASE ExecRun(p)
  BY <1>8, OutcomesType DEF ExecRun, OutdatedBy, Taken
<1>9. CASE CallbackCheck(p)
  BY <1>9 DEF CallbackCheck
<1>10. CASE CallbackConn(p)
  BY <1>10 DEF CallbackConn
<1>11. CASE CallbackRegister(p)
  BY <1>11 DEF CallbackRegister
<1>12. CASE ScriptCheck(p)
  BY <1>12 DEF ScriptCheck
<1>13. CASE ScriptBegin(p)
  BY <1>13 DEF ScriptBegin
<1>14. CASE ScriptStatement(p)
  BY <1>14, OutcomesType DEF ScriptStatement, Undo
<1>15. CASE BeginCheck(p)
  BY <1>15 DEF BeginCheck
<1>16. CASE BeginConn(p)
  BY <1>16 DEF BeginConn
<1>17. CASE TxExec(p)
  BY <1>17 DEF TxExec
<1>18. CASE TxCheck(p)
  BY <1>18 DEF TxCheck
<1>19. CASE TxStatement(p)
  BY <1>19, OutcomesType DEF TxStatement
<1>20. CASE TxAbort(p)
  BY <1>20 DEF TxAbort, Undo
<1>21. CASE CreateTopology(p)
  BY <1>21 DEF CreateTopology
<1>22. CASE CreateCheck(p)
  BY <1>22 DEF CreateCheck
<1>23. CASE CreateAttach(p)
  BY <1>23 DEF CreateAttach, ControlOK, CreatePCs, Schemas
<1>24. CASE CreateLock(p)
  BY <1>24 DEF CreateLock
<1>25. CASE CreatePublish(p)
  BY <1>25 DEF CreatePublish, ControlOK, CreatePCs, Schemas, Taken
<1>26. CASE BackupTopology(p)
  BY <1>26 DEF BackupTopology
<1>27. CASE BackupRLock(p)
  BY <1>27 DEF BackupRLock, BackupFails, ReleaseAll
<1>28. CASE BackupConn(p)
  BY <1>28 DEF BackupConn, BackupFails, ReleaseAll
<1>29. CASE BackupVersions(p)
  <2> DEFINE b == call[p].backup
             vs == [s \in Schemas |-> IF s \in schemas THEN live[s].version ELSE 0]
             new == [backups[b] EXCEPT !.names = schemas, !.versions = vs]
  <2>1. b \in BackupIds
    BY <1>29 DEF BackupVersions, ControlOK, BackupPCs
  <2>2. new \in BackupRecords
    <3>1. vs \in [Schemas -> Nat]
      BY DEF Contents
    <3> HIDE DEF vs
    <3> QED BY <2>1, <3>1 DEF BackupRecords
  <2>3. backups' = [backups EXCEPT ![b] = new] \/ backups' = [backups EXCEPT ![b] = FreeBackup]
    BY <1>29 DEF BackupVersions, BackupFails
  <2> HIDE DEF new
  <2>4. backups' \in [BackupIds -> BackupRecords]
    BY <2>2, <2>3
  <2> QED BY <1>29, <2>4 DEF BackupVersions, BackupFails, ReleaseAll
<1>30. CASE BackupPublic(p)
  <2> DEFINE b == call[p].backup
             new == [backups[b] EXCEPT !.images = [backups[b].images EXCEPT ![Public] = live[Public]]]
  <2>1. b \in BackupIds
    BY <1>30 DEF BackupPublic, ControlOK, BackupPCs
  <2>2. new \in BackupRecords
    BY <2>1, ImageType DEF Schemas
  <2>3. backups' = [backups EXCEPT ![b] = new] \/ backups' = [backups EXCEPT ![b] = FreeBackup]
    BY <1>30, <2>1 DEF BackupPublic, BackupFails
  <2> HIDE DEF new
  <2>4. backups' \in [BackupIds -> BackupRecords]
    BY <2>2, <2>3
  <2> QED BY <1>30, <2>4 DEF BackupPublic, BackupFails, ReleaseAll
<1>31. CASE BackupNamed(p)
  <2> DEFINE b == call[p].backup
             new(n) == [backups[b] EXCEPT !.images =
                          [backups[b].images EXCEPT ![n] = Vacuumed(live[n])]]
  <2>1. b \in BackupIds /\ call[p].todo \subseteq Schemas
    BY <1>31 DEF BackupNamed, ControlOK, BackupPCs, Calls, Schemas
  <2>2. \A n \in call[p].todo : new(n) \in BackupRecords
    <3> TAKE n \in call[p].todo
    <3>1. Vacuumed(live[n]) \in Contents
      BY <2>1 DEF Vacuumed, Contents
    <3> QED BY <2>1, <3>1, ImageType
  <2>3. \/ \E n \in call[p].todo : backups' = [backups EXCEPT ![b] = new(n)]
        \/ backups' = [backups EXCEPT ![b] = FreeBackup]
    BY <1>31, <2>1 DEF BackupNamed, BackupFails
  <2> HIDE DEF new
  <2>4. backups' \in [BackupIds -> BackupRecords]
    BY <2>2, <2>3
  <2> QED BY <1>31, <2>4 DEF BackupNamed, BackupFails, ReleaseAll
<1>32. CASE BackupReturn(p)
  <2> DEFINE b == call[p].backup
  <2>1. b \in BackupIds
    BY <1>32 DEF BackupReturn, ControlOK, BackupPCs
  <2>2. [backups[b] EXCEPT !.state = "taken"] \in BackupRecords
    BY <2>1 DEF BackupRecords
  <2> QED BY <1>32, <2>1, <2>2 DEF BackupReturn, ReleaseAll
<1>33. CASE RestoreTopology(p)
  BY <1>33 DEF RestoreTopology
<1>34. CASE RestoreRLock(p)
  BY <1>34 DEF RestoreRLock, RestoreFails, ReleaseAll
<1>35. CASE RestoreConn(p)
  BY <1>35 DEF RestoreConn, RestoreFails, ReleaseAll
<1>36. CASE RestoreVersions(p)
  BY <1>36 DEF RestoreVersions, RestoreFails, ReleaseAll
<1>37. CASE RestorePrepare(p)
  BY <1>37 DEF RestorePrepare, RestoreFails, ReleaseAll
<1>38. CASE RestorePublic(p)
  <2>1. backups[call[p].backup].images[Public] \in Contents
    BY <1>38 DEF RestorePublic, ControlOK, RestorePCs, BackupRecords, Schemas
  <2> QED BY <1>38, <2>1 DEF RestorePublic, RestoreFails, ReleaseAll
<1>39. CASE RestoreDetach(p)
  <2>1. call[p].todo \subseteq Schemas
    BY DEF ControlOK, Calls, Schemas
  <2>2. CASE \E n \in call[p].todo :
               /\ attached' = attached \ {n} /\ live' = [live EXCEPT ![n] = Empty]
               /\ committed' = [committed EXCEPT ![n] = Empty] /\ UNCHANGED locks
    BY <1>39, <2>1, <2>2 DEF RestoreDetach
  <2>3. CASE RestoreFails(p, "error") /\ UNCHANGED <<attached, live, committed>>
    BY <1>39, <2>3 DEF RestoreDetach, RestoreFails, ReleaseAll
  <2> QED BY <1>39, <2>2, <2>3 DEF RestoreDetach
<1>40. CASE RestoreAttach(p)
  <2> DEFINE n == call[p].schema
             image == OnlineRestored(backups[call[p].backup].images[n])
  <2>1. n \in Schemas /\ backups[call[p].backup].images[n] \in Contents
    BY <1>40 DEF RestoreAttach, ControlOK, RestorePCs, BackupRecords, Schemas
  <2>2. image \in Contents
    BY <2>1 DEF OnlineRestored, Contents
  <2> HIDE DEF image
  <2>3. \/ attached' = attached \cup {n} /\ live' = [live EXCEPT ![n] = image]
             /\ committed' = [committed EXCEPT ![n] = image] /\ UNCHANGED locks
        \/ RestoreFails(p, "error") /\ UNCHANGED <<attached, live, committed>>
    BY <1>40 DEF RestoreAttach, image
  <2>4. UNCHANGED <<topo, txn, saved>>
    BY <1>40 DEF RestoreAttach
  <2> QED BY <2>1, <2>2, <2>3, <2>4 DEF RestoreFails, ReleaseAll
<1>41. CASE RestoreReturn(p)
  BY <1>41 DEF RestoreReturn, ReleaseAll
<1>42. CASE CloseLock(p)
  BY <1>42 DEF CloseLock
<1>43. CASE CloseSet(p)
  BY <1>43 DEF CloseSet
<1>44. CASE ClosePool(p)
  BY <1>44 DEF ClosePool
<1>45. CASE ScriptCommit(p)
  BY <1>45 DEF ScriptCommit, OutdatedBy, Taken
<1>46. CASE ScriptAbort(p)
  BY <1>46 DEF ScriptAbort, Undo
<1>47. CASE TxCommit(p)
  BY <1>47 DEF TxCommit, OutdatedBy, Taken, Undo
<1>48. CASE TxRollback(p)
  BY <1>48 DEF TxRollback, Undo
<1> QED BY <1>1, <1>2, <1>3, <1>4, <1>5, <1>6, <1>7, <1>8, <1>9, <1>10, <1>11,
     <1>12, <1>13, <1>14, <1>15, <1>16, <1>17, <1>18, <1>19, <1>20, <1>21,
     <1>22, <1>23, <1>24, <1>25, <1>26, <1>27, <1>28, <1>29, <1>30, <1>31,
     <1>32, <1>33, <1>34, <1>35, <1>36, <1>37, <1>38, <1>39, <1>40, <1>41,
     <1>42, <1>43, <1>44, <1>45, <1>46, <1>47, <1>48
  DEF Invoke, Step, Finish

\* The initial state is well typed.
LEMMA TypeInit == Init => TypeInv
<1> SUFFICES ASSUME Init PROVE TypeInv
  OBVIOUS
<1>1. ControlOK
  BY InitialTypes DEF Init, ControlOK, PCs, CreatePCs, BackupPCs, RestorePCs
<1>2. SharedOK
  BY InitialTypes DEF Init, SharedOK, Schemas
<1> QED BY <1>1, <1>2 DEF TypeInv

\* TypeOK holds in every reachable state of every instance: no action leaves a
\* goroutine at an unknown program point, a lock with an unknown owner, or a
\* Backup or a schema with contents of the wrong kind.
THEOREM TypeCorrect == Spec => []TypeOK
<1>1. Init => TypeInv
  BY TypeInit
<1>2. TypeInv /\ [Next]_vars => TypeInv'
  <2> SUFFICES ASSUME TypeInv, [Next]_vars PROVE TypeInv'
    OBVIOUS
  <2>1. CASE Next
    BY <2>1, ControlStep, SharedStep DEF Next, TypeInv
  <2>2. CASE UNCHANGED vars
    BY <2>2 DEF TypeInv, ControlOK, SharedOK, vars, topo, locks, engine, saved
  <2> QED BY <2>1, <2>2
<1>3. TypeInv => TypeOK
  BY DEF TypeInv, ControlOK, SharedOK, TypeOK
<1> QED BY <1>1, <1>2, <1>3, PTL DEF Spec

-----------------------------------------------------------------------------
(* The locks and the connection *)

\* Working off todo changes no context.
LEMMA ContextKept ==
    ASSUME ControlOK, NEW p \in Procs, NEW n,
           \/ call' = [call EXCEPT ![p].todo = @ \ {n}]
           \/ call' = [call EXCEPT ![p].schema = n, ![p].todo = @ \ {n}]
    PROVE  \A q \in Procs : call'[q].ctx = call[q].ctx
BY DEF ControlOK, Calls

\* Every step takes and gives back the locks its new program point calls for.
LEMMA LocksStep ==
    ASSUME TypeInv, LocksFollowCalls, NEW p \in Procs,
           Invoke(p) \/ Cancel(p) \/ Step(p) \/ Finish(p)
    PROVE  LocksFollowCalls'
<1> USE ConstantsAssumption
    DEF TypeInv, ControlOK, SharedOK, LocksFollowCalls, locks, Goto, Return, Start,
       Canceled, TopologyPCs, ReaderPCs, WriterPCs, PinnedPCs, OpenTxPCs, SnapshotPCs,
       CreatePCs, BackupPCs, RestorePCs
<1>1. CASE InvokeStatement(p)
  BY <1>1 DEF InvokeStatement
<1>2. CASE InvokeCreateSchema(p)
  BY <1>2 DEF InvokeCreateSchema
<1>3. CASE InvokeBackup(p)
  BY <1>3 DEF InvokeBackup
<1>4. CASE InvokeRestore(p)
  BY <1>4 DEF InvokeRestore
<1>5. CASE InvokeClose(p)
  BY <1>5 DEF InvokeClose
<1>6. CASE Cancel(p)
  BY <1>6 DEF Cancel
<1>7. CASE ExecCheck(p)
  BY <1>7 DEF ExecCheck
<1>8. CASE ExecRun(p)
  BY <1>8 DEF ExecRun
<1>9. CASE CallbackCheck(p)
  BY <1>9 DEF CallbackCheck
<1>10. CASE CallbackConn(p)
  BY <1>10 DEF CallbackConn
<1>11. CASE CallbackRegister(p)
  BY <1>11 DEF CallbackRegister
<1>12. CASE ScriptCheck(p)
  BY <1>12 DEF ScriptCheck
<1>13. CASE ScriptBegin(p)
  BY <1>13 DEF ScriptBegin
<1>14. CASE ScriptStatement(p)
  BY <1>14 DEF ScriptStatement
<1>15. CASE BeginCheck(p)
  BY <1>15 DEF BeginCheck
<1>16. CASE BeginConn(p)
  BY <1>16 DEF BeginConn
<1>17. CASE TxExec(p)
  BY <1>17 DEF TxExec
<1>18. CASE TxCheck(p)
  BY <1>18 DEF TxCheck
<1>19. CASE TxStatement(p)
  BY <1>19 DEF TxStatement
<1>20. CASE TxAbort(p)
  BY <1>20 DEF TxAbort
<1>21. CASE CreateTopology(p)
  BY <1>21 DEF CreateTopology
<1>22. CASE CreateCheck(p)
  BY <1>22 DEF CreateCheck
<1>23. CASE CreateAttach(p)
  BY <1>23 DEF CreateAttach
<1>24. CASE CreateLock(p)
  BY <1>24 DEF CreateLock
<1>25. CASE CreatePublish(p)
  BY <1>25 DEF CreatePublish
<1>26. CASE BackupTopology(p)
  BY <1>26 DEF BackupTopology
<1>27. CASE BackupRLock(p)
  BY <1>27 DEF BackupRLock, BackupFails, ReleaseAll
<1>28. CASE BackupConn(p)
  BY <1>28 DEF BackupConn, BackupFails, ReleaseAll
<1>29. CASE BackupVersions(p)
  BY <1>29 DEF BackupVersions, BackupFails, ReleaseAll
<1>30. CASE BackupPublic(p)
  BY <1>30 DEF BackupPublic, BackupFails, ReleaseAll
<1>31. CASE BackupNamed(p)
  <2>1. CASE \E n \in call[p].todo : /\ call' = [call EXCEPT ![p].todo = @ \ {n}]
                                     /\ UNCHANGED <<locks, pc>>
    <3>1. \A q \in Procs : call'[q].ctx = call[q].ctx
      BY <2>1, ContextKept
    <3> QED BY <1>31, <2>1, <3>1 DEF BackupNamed
  <2>2. CASE BackupFails(p, Refusal(p))
    BY <1>31, <2>2 DEF BackupNamed, BackupFails, ReleaseAll
  <2> QED BY <1>31, <2>1, <2>2 DEF BackupNamed
<1>32. CASE BackupReturn(p)
  BY <1>32 DEF BackupReturn, ReleaseAll
<1>33. CASE RestoreTopology(p)
  BY <1>33 DEF RestoreTopology
<1>34. CASE RestoreRLock(p)
  BY <1>34 DEF RestoreRLock, RestoreFails, ReleaseAll
<1>35. CASE RestoreConn(p)
  BY <1>35 DEF RestoreConn, RestoreFails, ReleaseAll
<1>36. CASE RestoreVersions(p)
  BY <1>36 DEF RestoreVersions, RestoreFails, ReleaseAll
<1>37. CASE RestorePrepare(p)
  BY <1>37 DEF RestorePrepare, RestoreFails, ReleaseAll
<1>38. CASE RestorePublic(p)
  BY <1>38 DEF RestorePublic, RestoreFails, ReleaseAll
<1>39. CASE RestoreDetach(p)
  <2>1. /\ pc[p] = "restore_named"
        /\ \/ \E n \in call[p].todo :
                /\ call' = [call EXCEPT ![p].schema = n, ![p].todo = @ \ {n}]
                /\ Goto(p, "restore_attach") /\ UNCHANGED locks
           \/ RestoreFails(p, "error")
    BY <1>39 DEF RestoreDetach
  <2>2. CASE \E n \in call[p].todo :
               /\ call' = [call EXCEPT ![p].schema = n, ![p].todo = @ \ {n}]
               /\ Goto(p, "restore_attach") /\ UNCHANGED locks
    <3>1. \A q \in Procs : call'[q].ctx = call[q].ctx
      BY <2>2, ContextKept
    <3>2. pc' = [pc EXCEPT ![p] = "restore_attach"] /\ UNCHANGED locks
      BY <2>2
    <3> QED BY <2>1, <3>1, <3>2
  <2>3. CASE RestoreFails(p, "error")
    BY <2>1, <2>3 DEF RestoreFails, ReleaseAll
  <2> QED BY <2>1, <2>2, <2>3
<1>40. CASE RestoreAttach(p)
  BY <1>40 DEF RestoreAttach, RestoreFails, ReleaseAll
<1>41. CASE RestoreReturn(p)
  BY <1>41 DEF RestoreReturn, ReleaseAll
<1>42. CASE CloseLock(p)
  BY <1>42 DEF CloseLock
<1>43. CASE CloseSet(p)
  BY <1>43 DEF CloseSet
<1>44. CASE ClosePool(p)
  BY <1>44 DEF ClosePool
<1>45. CASE ScriptCommit(p)
  BY <1>45 DEF ScriptCommit
<1>46. CASE ScriptAbort(p)
  BY <1>46 DEF ScriptAbort
<1>47. CASE TxCommit(p)
  BY <1>47 DEF TxCommit
<1>48. CASE TxRollback(p)
  BY <1>48 DEF TxRollback
<1> QED BY <1>1, <1>2, <1>3, <1>4, <1>5, <1>6, <1>7, <1>8, <1>9, <1>10, <1>11,
     <1>12, <1>13, <1>14, <1>15, <1>16, <1>17, <1>18, <1>19, <1>20, <1>21,
     <1>22, <1>23, <1>24, <1>25, <1>26, <1>27, <1>28, <1>29, <1>30, <1>31,
     <1>32, <1>33, <1>34, <1>35, <1>36, <1>37, <1>38, <1>39, <1>40, <1>41,
     <1>42, <1>43, <1>44, <1>45, <1>46, <1>47, <1>48
  DEF Invoke, Step, Finish

\* Every step keeps transactions on the connection their goroutine pins.
LEMMA TransactionsStep ==
    ASSUME TypeInv, LocksFollowCalls, TransactionsArePinned, NEW p \in Procs,
           Invoke(p) \/ Cancel(p) \/ Step(p) \/ Finish(p)
    PROVE  TransactionsArePinned'
<1> USE ConstantsAssumption
    DEF TypeInv, ControlOK, SharedOK, LocksFollowCalls, TransactionsArePinned,
       locks, engine, Goto, Return, Start, Canceled, TopologyPCs, ReaderPCs,
       WriterPCs, PinnedPCs, OpenTxPCs, SnapshotPCs, CreatePCs, BackupPCs, RestorePCs
<1>1. CASE InvokeStatement(p)
  BY <1>1 DEF InvokeStatement
<1>2. CASE InvokeCreateSchema(p)
  BY <1>2 DEF InvokeCreateSchema
<1>3. CASE InvokeBackup(p)
  BY <1>3 DEF InvokeBackup
<1>4. CASE InvokeRestore(p)
  BY <1>4 DEF InvokeRestore
<1>5. CASE InvokeClose(p)
  BY <1>5 DEF InvokeClose
<1>6. CASE Cancel(p)
  BY <1>6 DEF Cancel
<1>7. CASE ExecCheck(p)
  BY <1>7 DEF ExecCheck
<1>8. CASE ExecRun(p)
  BY <1>8 DEF ExecRun
<1>9. CASE CallbackCheck(p)
  BY <1>9 DEF CallbackCheck
<1>10. CASE CallbackConn(p)
  BY <1>10 DEF CallbackConn
<1>11. CASE CallbackRegister(p)
  BY <1>11 DEF CallbackRegister
<1>12. CASE ScriptCheck(p)
  BY <1>12 DEF ScriptCheck
<1>13. CASE ScriptBegin(p)
  BY <1>13 DEF ScriptBegin
<1>14. CASE ScriptStatement(p)
  BY <1>14 DEF ScriptStatement, Undo
<1>15. CASE BeginCheck(p)
  BY <1>15 DEF BeginCheck
<1>16. CASE BeginConn(p)
  BY <1>16 DEF BeginConn
<1>17. CASE TxExec(p)
  BY <1>17 DEF TxExec
<1>18. CASE TxCheck(p)
  BY <1>18 DEF TxCheck
<1>19. CASE TxStatement(p)
  BY <1>19 DEF TxStatement
<1>20. CASE TxAbort(p)
  BY <1>20 DEF TxAbort, Undo
<1>21. CASE CreateTopology(p)
  BY <1>21 DEF CreateTopology
<1>22. CASE CreateCheck(p)
  BY <1>22 DEF CreateCheck
<1>23. CASE CreateAttach(p)
  BY <1>23 DEF CreateAttach
<1>24. CASE CreateLock(p)
  BY <1>24 DEF CreateLock
<1>25. CASE CreatePublish(p)
  BY <1>25 DEF CreatePublish
<1>26. CASE BackupTopology(p)
  BY <1>26 DEF BackupTopology
<1>27. CASE BackupRLock(p)
  BY <1>27 DEF BackupRLock, BackupFails, ReleaseAll
<1>28. CASE BackupConn(p)
  BY <1>28 DEF BackupConn, BackupFails, ReleaseAll
<1>29. CASE BackupVersions(p)
  BY <1>29 DEF BackupVersions, BackupFails, ReleaseAll
<1>30. CASE BackupPublic(p)
  BY <1>30 DEF BackupPublic, BackupFails, ReleaseAll
<1>31. CASE BackupNamed(p)
  <2>1. /\ pc[p] = "backup_named" /\ UNCHANGED engine
        /\ \/ \E n \in call[p].todo : /\ call' = [call EXCEPT ![p].todo = @ \ {n}]
                                      /\ UNCHANGED <<locks, pc>>
           \/ BackupFails(p, Refusal(p))
    BY <1>31 DEF BackupNamed
  <2>2. CASE \E n \in call[p].todo : /\ call' = [call EXCEPT ![p].todo = @ \ {n}]
                                     /\ UNCHANGED <<locks, pc>>
    <3>1. \A q \in Procs : call'[q].ctx = call[q].ctx
      BY <2>2, ContextKept
    <3>2. UNCHANGED <<locks, pc>>
      BY <2>2
    <3> QED BY <2>1, <3>1, <3>2
  <2>3. CASE BackupFails(p, Refusal(p))
    BY <2>1, <2>3 DEF BackupFails, ReleaseAll
  <2> QED BY <2>1, <2>2, <2>3
<1>32. CASE BackupReturn(p)
  BY <1>32 DEF BackupReturn, ReleaseAll
<1>33. CASE RestoreTopology(p)
  BY <1>33 DEF RestoreTopology
<1>34. CASE RestoreRLock(p)
  BY <1>34 DEF RestoreRLock, RestoreFails, ReleaseAll
<1>35. CASE RestoreConn(p)
  BY <1>35 DEF RestoreConn, RestoreFails, ReleaseAll
<1>36. CASE RestoreVersions(p)
  BY <1>36 DEF RestoreVersions, RestoreFails, ReleaseAll
<1>37. CASE RestorePrepare(p)
  BY <1>37 DEF RestorePrepare, RestoreFails, ReleaseAll
<1>38. CASE RestorePublic(p)
  BY <1>38 DEF RestorePublic, RestoreFails, ReleaseAll
<1>39. CASE RestoreDetach(p)
  <2>1. /\ pc[p] = "restore_named"
        /\ UNCHANGED txn
        /\ \/ \E n \in call[p].todo :
                /\ live' = [live EXCEPT ![n] = Empty]
                /\ committed' = [committed EXCEPT ![n] = Empty]
                /\ call' = [call EXCEPT ![p].schema = n, ![p].todo = @ \ {n}]
                /\ Goto(p, "restore_attach") /\ UNCHANGED locks
           \/ RestoreFails(p, "error") /\ UNCHANGED <<live, committed>>
    BY <1>39 DEF RestoreDetach
  <2>2. CASE \E n \in call[p].todo :
               /\ live' = [live EXCEPT ![n] = Empty]
               /\ committed' = [committed EXCEPT ![n] = Empty]
               /\ call' = [call EXCEPT ![p].schema = n, ![p].todo = @ \ {n}]
               /\ Goto(p, "restore_attach") /\ UNCHANGED locks
    <3>1. \A q \in Procs : call'[q].ctx = call[q].ctx
      BY <2>2, ContextKept
    <3>2. pc' = [pc EXCEPT ![p] = "restore_attach"] /\ UNCHANGED locks
      BY <2>2
    <3>3. live = committed => live' = committed'
      BY <2>2
    <3> QED BY <2>1, <3>1, <3>2, <3>3
  <2>3. CASE RestoreFails(p, "error") /\ UNCHANGED <<live, committed>>
    BY <2>1, <2>3 DEF RestoreFails, ReleaseAll
  <2> QED BY <2>1, <2>2, <2>3
<1>40. CASE RestoreAttach(p)
  BY <1>40 DEF RestoreAttach, RestoreFails, ReleaseAll
<1>41. CASE RestoreReturn(p)
  BY <1>41 DEF RestoreReturn, ReleaseAll
<1>42. CASE CloseLock(p)
  BY <1>42 DEF CloseLock
<1>43. CASE CloseSet(p)
  BY <1>43 DEF CloseSet
<1>44. CASE ClosePool(p)
  BY <1>44 DEF ClosePool
<1>45. CASE ScriptCommit(p)
  BY <1>45 DEF ScriptCommit
<1>46. CASE ScriptAbort(p)
  BY <1>46 DEF ScriptAbort, Undo
<1>47. CASE TxCommit(p)
  BY <1>47 DEF TxCommit, Undo
<1>48. CASE TxRollback(p)
  BY <1>48 DEF TxRollback, Undo
<1> QED BY <1>1, <1>2, <1>3, <1>4, <1>5, <1>6, <1>7, <1>8, <1>9, <1>10, <1>11,
     <1>12, <1>13, <1>14, <1>15, <1>16, <1>17, <1>18, <1>19, <1>20, <1>21,
     <1>22, <1>23, <1>24, <1>25, <1>26, <1>27, <1>28, <1>29, <1>30, <1>31,
     <1>32, <1>33, <1>34, <1>35, <1>36, <1>37, <1>38, <1>39, <1>40, <1>41,
     <1>42, <1>43, <1>44, <1>45, <1>46, <1>47, <1>48
  DEF Invoke, Step, Finish

-----------------------------------------------------------------------------
(* The inductive invariant and its theorems *)

\* LocksFollowCalls is inductive with the types, TransactionsArePinned with both.
LockInv == TypeInv /\ LocksFollowCalls /\ TransactionsArePinned

\* The initial state satisfies the invariant: nobody is in a call.
LEMMA LockInit == Init => LockInv
<1> SUFFICES ASSUME Init PROVE LockInv
  OBVIOUS
<1>1. \A p \in Procs : pc[p] = "idle"
  BY DEF Init
<1>2. LocksFollowCalls
  BY <1>1, ConstantsAssumption
  DEF Init, LocksFollowCalls, TopologyPCs, ReaderPCs, WriterPCs, PinnedPCs,
      OpenTxPCs, SnapshotPCs, CreatePCs, BackupPCs, RestorePCs
<1>3. TransactionsArePinned
  BY <1>1, ConstantsAssumption DEF Init, TransactionsArePinned, OpenTxPCs
<1> QED BY <1>2, <1>3, TypeInit DEF LockInv

\* Every step preserves it.
LEMMA LockStep == LockInv /\ [Next]_vars => LockInv'
<1> SUFFICES ASSUME LockInv, [Next]_vars PROVE LockInv'
  OBVIOUS
<1>1. CASE Next
  BY <1>1, ControlStep, SharedStep, LocksStep, TransactionsStep
  DEF Next, LockInv, TypeInv
<1>2. CASE UNCHANGED vars
  BY <1>2 DEF vars, topo, locks, engine, saved, LockInv, TypeInv, ControlOK, SharedOK,
     LocksFollowCalls, TransactionsArePinned, Canceled
<1> QED BY <1>1, <1>2

\* Every early return of every operation releases exactly what it acquired, for
\* any number of goroutines.
THEOREM LocksBalanced == Spec => []LocksFollowCalls
<1>1. LockInv => LocksFollowCalls
  BY DEF LockInv
<1> QED BY <1>1, LockInit, LockStep, PTL DEF Spec

\* No goroutine ever sees another's uncommitted work, and a transaction is open
\* only on the connection its goroutine has pinned.
THEOREM Isolation == Spec => []TransactionsArePinned
<1>1. LockInv => TransactionsArePinned
  BY DEF LockInv
<1> QED BY <1>1, LockInit, LockStep, PTL DEF Spec

=============================================================================
