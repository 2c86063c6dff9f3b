------------------------- MODULE DatabaseSnapshots --------------------------
(***************************************************************************)
(* Theorems about the snapshots of Database, for every instance: Backups   *)
(* are consistent snapshots of an open DB, restores put them back exactly, *)
(* and nothing changes a Backup that was returned; the attached schemas    *)
(* stay in step with the DB; and schema_version of public tells its        *)
(* definitions apart, so that Restore neither undoes DDL of public nor     *)
(* refuses without any.                                                    *)
(***************************************************************************)
EXTENDS DatabaseLocks, DatabaseMemory, FiniteSetTheorems

(* The state the read lock protects, and the ownership of Backups *)

\* Close sets db.closed before it closes the pool.
CloseOrder ==
    /\ poolClosed => closed
    /\ \A p \in Procs : pc[p] = "close_pool" => closed

\* A Backup under construction belongs to one goroutine; Restore works from a
\* Backup that was returned.
BackupsOwned ==
    /\ \A p \in Procs : pc[p] \in BackupPCs =>
         backups[call[p].backup].state = "building"
    /\ \A p, q \in Procs :
         pc[p] \in BackupPCs /\ pc[q] \in BackupPCs /\ p # q =>
             call[p].backup # call[q].backup
    /\ \A p \in Procs : pc[p] \in RestorePCs =>
         backups[call[p].backup].state = "taken"

\* RestoreIsExact while a named schema is detached: all others are done.
SwapSoFar ==
    \A p \in Procs : pc[p] = "restore_attach" =>
        \A s \in schemas \ (call[p].todo \cup {call[p].schema}) :
            SameData(committed[s], backups[call[p].backup].images[s])

\* No step closes the pool of an open DB.
LEMMA CloseStep ==
    ASSUME TypeInv, CloseOrder, NEW p \in Procs,
           Invoke(p) \/ Cancel(p) \/ Step(p) \/ Finish(p)
    PROVE  CloseOrder'
<1> USE ConstantsAssumption
    DEF TypeInv, ControlOK, CloseOrder, topo, Goto, Return, Start
<1>1. CASE InvokeStatement(p)
  BY <1>1 DEF InvokeStatement
<1>2. CASE InvokeCreateSchema(p)
  BY <1>2 DEF InvokeCreateSchema
<1>3. CASE InvokeBackup(p)
  BY <1>3 DEF InvokeBackup
<1>4. CASE InvokeRestore(p)
  BY <1>4 DEF InvokeRestore
<1>5. CASE InvokeClose(p)
  BY <1>5 DEF InvokeClose
<1>6. CASE Cancel(p)
  BY <1>6 DEF Cancel
<1>7. CASE ExecCheck(p)
  BY <1>7 DEF ExecCheck
<1>8. CASE ExecRun(p)
  BY <1>8 DEF ExecRun
<1>9. CASE CallbackCheck(p)
  BY <1>9 DEF CallbackCheck
<1>10. CASE CallbackConn(p)
  BY <1>10 DEF CallbackConn
<1>11. CASE CallbackRegister(p)
  BY <1>11 DEF CallbackRegister
<1>12. CASE ScriptCheck(p)
  BY <1>12 DEF ScriptCheck
<1>13. CASE ScriptBegin(p)
  BY <1>13 DEF ScriptBegin
<1>14. CASE ScriptStatement(p)
  BY <1>14 DEF ScriptStatement
<1>15. CASE BeginCheck(p)
  BY <1>15 DEF BeginCheck
<1>16. CASE BeginConn(p)
  BY <1>16 DEF BeginConn
<1>17. CASE TxExec(p)
  BY <1>17 DEF TxExec
<1>18. CASE TxCheck(p)
  BY <1>18 DEF TxCheck
<1>19. CASE TxStatement(p)
  BY <1>19 DEF TxStatement
<1>20. CASE TxAbort(p)
  BY <1>20 DEF TxAbort
<1>21. CASE CreateTopology(p)
  BY <1>21 DEF CreateTopology
<1>22. CASE CreateCheck(p)
  BY <1>22 DEF CreateCheck
<1>23. CASE CreateAttach(p)
  BY <1>23 DEF CreateAttach
<1>24. CASE CreateLock(p)
  BY <1>24 DEF CreateLock
<1>25. CASE CreatePublish(p)
  BY <1>25 DEF CreatePublish
<1>26. CASE BackupTopology(p)
  BY <1>26 DEF BackupTopology
<1>27. CASE BackupRLock(p)
  BY <1>27 DEF BackupRLock, BackupFails
<1>28. CASE BackupConn(p)
  BY <1>28 DEF BackupConn, BackupFails
<1>29. CASE BackupVersions(p)
  BY <1>29 DEF BackupVersions, BackupFails
<1>30. CASE BackupPublic(p)
  BY <1>30 DEF BackupPublic, BackupFails
<1>31. CASE BackupNamed(p)
  BY <1>31 DEF BackupNamed, BackupFails
<1>32. CASE BackupReturn(p)
  BY <1>32 DEF BackupReturn
<1>33. CASE RestoreTopology(p)
  BY <1>33 DEF RestoreTopology
<1>34. CASE RestoreRLock(p)
  BY <1>34 DEF RestoreRLock, RestoreFails
<1>35. CASE RestoreConn(p)
  BY <1>35 DEF RestoreConn, RestoreFails
<1>36. CASE RestoreVersions(p)
  BY <1>36 DEF RestoreVersions, RestoreFails
<1>37. CASE RestorePrepare(p)
  BY <1>37 DEF RestorePrepare, RestoreFails
<1>38. CASE RestorePublic(p)
  BY <1>38 DEF RestorePublic, RestoreFails
<1>39. CASE RestoreDetach(p)
  <2>1. UNCHANGED topo /\ \A q \in Procs : pc'[q] = "close_pool" => pc[q] = "close_pool"
    BY <1>39 DEF RestoreDetach, RestoreFails
  <2> QED BY <2>1
<1>40. CASE RestoreAttach(p)
  BY <1>40 DEF RestoreAttach, RestoreFails
<1>41. CASE RestoreReturn(p)
  BY <1>41 DEF RestoreReturn
<1>42. CASE CloseLock(p)
  BY <1>42 DEF CloseLock
<1>43. CASE CloseSet(p)
  BY <1>43 DEF CloseSet
<1>44. CASE ClosePool(p)
  BY <1>44 DEF ClosePool
<1>45. CASE ScriptCommit(p)
  BY <1>45 DEF ScriptCommit
<1>46. CASE ScriptAbort(p)
  BY <1>46 DEF ScriptAbort
<1>47. CASE TxCommit(p)
  BY <1>47 DEF TxCommit
<1>48. CASE TxRollback(p)
  BY <1>48 DEF TxRollback
<1> QED BY <1>1, <1>2, <1>3, <1>4, <1>5, <1>6, <1>7, <1>8, <1>9, <1>10, <1>11,
     <1>12, <1>13, <1>14, <1>15, <1>16, <1>17, <1>18, <1>19, <1>20, <1>21,
     <1>22, <1>23, <1>24, <1>25, <1>26, <1>27, <1>28, <1>29, <1>30, <1>31,
     <1>32, <1>33, <1>34, <1>35, <1>36, <1>37, <1>38, <1>39, <1>40, <1>41,
     <1>42, <1>43, <1>44, <1>45, <1>46, <1>47, <1>48
  DEF Invoke, Step, Finish

\* A call that is no part of Backup and Restore, or returns, or goes on in the
\* same operation, owns no other Backup than before.
LEMMA OwnedKept ==
    ASSUME TypeInv, BackupsOwned, NEW p \in Procs, UNCHANGED backups,
           \A q \in Procs \ {p} : pc'[q] = pc[q] /\ call'[q].backup = call[q].backup,
           pc'[p] \in BackupPCs => pc[p] \in BackupPCs,
           pc'[p] \in RestorePCs => pc[p] \in RestorePCs,
           pc'[p] \in BackupPCs \cup RestorePCs => call'[p].backup = call[p].backup
    PROVE  BackupsOwned'
BY DEF BackupsOwned

\* A call that returns owns nothing.
LEMMA OwnedReturn ==
    ASSUME TypeInv, BackupsOwned, NEW p \in Procs, NEW r, UNCHANGED backups,
           Return(p, r)
    PROVE  BackupsOwned'
<1>1. pc'[p] = "idle" /\ "idle" \notin BackupPCs \cup RestorePCs
  BY DEF TypeInv, ControlOK, Return, Goto, BackupPCs, RestorePCs
<1>2. \A q \in Procs \ {p} : pc'[q] = pc[q] /\ call'[q] = call[q]
  BY DEF TypeInv, ControlOK, Return, Goto
<1> QED BY <1>1, <1>2, OwnedKept

\* A call that goes on in the same operation owns what it did.
LEMMA OwnedGoto ==
    ASSUME TypeInv, BackupsOwned, NEW p \in Procs, NEW label, UNCHANGED <<backups, call>>,
           Goto(p, label),
           label \in BackupPCs => pc[p] \in BackupPCs,
           label \in RestorePCs => pc[p] \in RestorePCs
    PROVE  BackupsOwned'
<1>1. pc'[p] = label /\ \A q \in Procs \ {p} : pc'[q] = pc[q]
  BY DEF TypeInv, ControlOK, Goto
<1> QED BY <1>1, OwnedKept

\* A Backup that fails gives up its own slot only.
LEMMA OwnedFails ==
    ASSUME TypeInv, BackupsOwned, NEW p \in Procs, NEW r, pc[p] \in BackupPCs,
           BackupFails(p, r)
    PROVE  BackupsOwned'
<1>1. pc'[p] = "idle" /\ "idle" \notin BackupPCs \cup RestorePCs
  BY DEF TypeInv, ControlOK, BackupFails, Return, Goto, BackupPCs, RestorePCs
<1>2. \A q \in Procs \ {p} : pc'[q] = pc[q] /\ call'[q] = call[q]
  BY DEF TypeInv, ControlOK, BackupFails, Return, Goto
<1>3. \A b \in BackupIds \ {call[p].backup} : backups'[b] = backups[b]
  BY DEF TypeInv, SharedOK, BackupFails
<1> QED BY <1>1, <1>2, <1>3 DEF TypeInv, ControlOK, BackupsOwned

\* A Backup under construction changes nobody else's.
LEMMA OwnedUpdate ==
    ASSUME TypeInv, BackupsOwned, NEW p \in Procs, pc[p] \in BackupPCs,
           \A b \in BackupIds \ {call[p].backup} : backups'[b] = backups[b],
           backups'[call[p].backup].state = "building",
           \A q \in Procs : call'[q].backup = call[q].backup,
           \A q \in Procs \ {p} : pc'[q] = pc[q],
           pc'[p] \in BackupPCs, pc'[p] \notin RestorePCs
    PROVE  BackupsOwned'
BY DEF TypeInv, ControlOK, BackupsOwned

\* Every step leaves a Backup under construction with its goroutine, and one that
\* was returned as it is.
LEMMA OwnedStep ==
    ASSUME TypeInv, BackupsOwned, NEW p \in Procs,
           Invoke(p) \/ Cancel(p) \/ Step(p) \/ Finish(p)
    PROVE  BackupsOwned'
<1> USE OwnedReturn, OwnedGoto DEF BackupPCs, RestorePCs, saved
<1>1. CASE InvokeStatement(p)
  <2>1. UNCHANGED backups /\ \A q \in Procs \ {p} : pc'[q] = pc[q] /\ call'[q] = call[q]
    BY <1>1 DEF InvokeStatement, Start, Goto, TypeInv, ControlOK
  <2>2. pc'[p] \in {"exec_check", "callback_check", "script_check", "begin_check"}
    BY <1>1 DEF InvokeStatement, Start, Goto, TypeInv, ControlOK
  <2> QED BY <2>1, <2>2, OwnedKept
<1>2. CASE InvokeCreateSchema(p)
  <2>1. UNCHANGED backups /\ \A q \in Procs \ {p} : pc'[q] = pc[q] /\ call'[q] = call[q]
    BY <1>2 DEF InvokeCreateSchema, Start, Goto, TypeInv, ControlOK
  <2>2. pc'[p] = "create_topology"
    BY <1>2 DEF InvokeCreateSchema, Start, Goto, TypeInv, ControlOK
  <2> QED BY <2>1, <2>2, OwnedKept
<1>3. CASE InvokeBackup(p)
  <2>1. PICK b \in BackupIds : /\ backups[b].state = "free"
                               /\ backups' = [backups EXCEPT ![b].state = "building"]
                               /\ \E c \in Contexts : Start(p, "backup_topology", c, None, b)
    BY <1>3 DEF InvokeBackup
  <2>2. pc'[p] = "backup_topology" /\ call'[p].backup = b
    BY <2>1 DEF Start, Goto, IdleCall, TypeInv, ControlOK
  <2>3. \A q \in Procs \ {p} : pc'[q] = pc[q] /\ call'[q] = call[q]
    BY <2>1 DEF Start, Goto, TypeInv, ControlOK
  <2>4. backups'[b].state = "building" /\ \A d \in BackupIds \ {b} : backups'[d] = backups[d]
    BY <2>1 DEF TypeInv, SharedOK, BackupRecords
  <2> QED BY <2>1, <2>2, <2>3, <2>4 DEF BackupsOwned, TypeInv, ControlOK
<1>4. CASE InvokeRestore(p)
  <2>1. PICK b \in Taken : \E c \in Contexts : Start(p, "restore_topology", c, None, b)
    BY <1>4 DEF InvokeRestore
  <2>2. pc'[p] = "restore_topology" /\ call'[p].backup = b
    BY <2>1 DEF Start, Goto, IdleCall, TypeInv, ControlOK
  <2>3. \A q \in Procs \ {p} : pc'[q] = pc[q] /\ call'[q] = call[q]
    BY <2>1 DEF Start, Goto, TypeInv, ControlOK
  <2>4. UNCHANGED backups
    BY <1>4 DEF InvokeRestore
  <2> QED BY <2>1, <2>2, <2>3, <2>4 DEF BackupsOwned, Taken
<1>5. CASE InvokeClose(p)
  <2>1. UNCHANGED backups /\ \A q \in Procs \ {p} : pc'[q] = pc[q] /\ call'[q] = call[q]
    BY <1>5 DEF InvokeClose, Start, Goto, TypeInv, ControlOK
  <2>2. pc'[p] = "close_lock"
    BY <1>5 DEF InvokeClose, Start, Goto, TypeInv, ControlOK
  <2> QED BY <2>1, <2>2, OwnedKept
<1>6. CASE Cancel(p)
  <2>1. \A q \in Procs : call'[q].backup = call[q].backup
    BY <1>6 DEF Cancel, TypeInv, ControlOK, Calls
  <2> QED BY <1>6, <2>1, OwnedKept DEF Cancel
<1>7. CASE ExecCheck(p)
  BY <1>7 DEF ExecCheck
<1>8. CASE ExecRun(p)
  BY <1>8 DEF ExecRun
<1>9. CASE CallbackCheck(p)
  BY <1>9 DEF CallbackCheck
<1>10. CASE CallbackConn(p)
  BY <1>10 DEF CallbackConn
<1>11. CASE CallbackRegister(p)
  BY <1>11 DEF CallbackRegister
<1>12. CASE ScriptCheck(p)
  BY <1>12 DEF ScriptCheck
<1>13. CASE ScriptBegin(p)
  BY <1>13 DEF ScriptBegin
<1>14. CASE ScriptStatement(p)
  BY <1>14, OwnedKept DEF ScriptStatement
<1>15. CASE BeginCheck(p)
  BY <1>15 DEF BeginCheck
<1>16. CASE BeginConn(p)
  BY <1>16 DEF BeginConn
<1>17. CASE TxExec(p)
  BY <1>17 DEF TxExec
<1>18. CASE TxCheck(p)
  BY <1>18 DEF TxCheck
<1>19. CASE TxStatement(p)
  BY <1>19 DEF TxStatement
<1>20. CASE TxAbort(p)
  BY <1>20, OwnedKept DEF TxAbort
<1>21. CASE CreateTopology(p)
  BY <1>21 DEF CreateTopology
<1>22. CASE CreateCheck(p)
  BY <1>22 DEF CreateCheck
<1>23. CASE CreateAttach(p)
  BY <1>23 DEF CreateAttach
<1>24. CASE CreateLock(p)
  BY <1>24 DEF CreateLock
<1>25. CASE CreatePublish(p)
  BY <1>25 DEF CreatePublish
<1>26. CASE BackupTopology(p)
  BY <1>26 DEF BackupTopology
<1>27. CASE BackupRLock(p)
  BY <1>27, OwnedFails DEF BackupRLock
<1>28. CASE BackupConn(p)
  BY <1>28, OwnedFails DEF BackupConn
<1>29. CASE BackupVersions(p)
  <2> DEFINE b == call[p].backup
  <2>1. pc[p] \in BackupPCs /\ b \in BackupIds /\ backups[b].state = "building"
    BY <1>29 DEF BackupVersions, TypeInv, ControlOK, BackupsOwned
  <2>2. CASE BackupFails(p, Refusal(p))
    BY <2>1, <2>2, OwnedFails
  <2>3. CASE ~BackupFails(p, Refusal(p))
    <3> DEFINE new == [backups[b] EXCEPT !.names = schemas,
                         !.versions = [s \in Schemas |-> IF s \in schemas
                                                         THEN live[s].version ELSE 0]]
    <3>1. backups' = [backups EXCEPT ![b] = new] /\ Goto(p, "backup_public") /\ UNCHANGED call
      BY <1>29, <2>3 DEF BackupVersions
    <3>2. new.state = "building"
      BY <2>1 DEF TypeInv, SharedOK, BackupRecords
    <3> HIDE DEF new
    <3> QED BY <2>1, <3>1, <3>2, OwnedUpdate DEF TypeInv, ControlOK, SharedOK, Goto
  <2> QED BY <2>2, <2>3
<1>30. CASE BackupPublic(p)
  <2> DEFINE b == call[p].backup
  <2>1. pc[p] \in BackupPCs /\ b \in BackupIds /\ backups[b].state = "building"
    BY <1>30 DEF BackupPublic, TypeInv, ControlOK, BackupsOwned
  <2>2. CASE BackupFails(p, "error")
    BY <2>1, <2>2, OwnedFails
  <2>3. CASE ~BackupFails(p, "error")
    <3>1. /\ backups' = [backups EXCEPT ![b].images[Public] = live[Public]]
          /\ Goto(p, "backup_named")
          /\ call' = [call EXCEPT ![p].todo = schemas \ {Public}]
      BY <1>30, <2>3 DEF BackupPublic
    <3>2. /\ backups'[b].state = "building"
          /\ \A d \in BackupIds \ {b} : backups'[d] = backups[d]
      BY <2>1, <3>1 DEF TypeInv, SharedOK, BackupRecords
    <3>3. \A q \in Procs : call'[q].backup = call[q].backup
      BY <3>1 DEF TypeInv, ControlOK, Calls
    <3>4. pc'[p] = "backup_named" /\ \A q \in Procs \ {p} : pc'[q] = pc[q]
      BY <3>1 DEF TypeInv, ControlOK, Goto
    <3> QED BY <2>1, <3>2, <3>3, <3>4, OwnedUpdate
  <2> QED BY <2>2, <2>3
<1>31. CASE BackupNamed(p)
  <2> DEFINE b == call[p].backup
  <2>1. pc[p] \in BackupPCs /\ b \in BackupIds /\ backups[b].state = "building"
    BY <1>31 DEF BackupNamed, TypeInv, ControlOK, BackupsOwned
  <2>2. CASE BackupFails(p, Refusal(p))
    BY <2>1, <2>2, OwnedFails
  <2>3. CASE ~BackupFails(p, Refusal(p))
    <3>1. PICK n \in call[p].todo :
             /\ backups' = [backups EXCEPT ![b].images[n] = Vacuumed(live[n])]
             /\ call' = [call EXCEPT ![p].todo = @ \ {n}]
             /\ pc' = pc
      BY <1>31, <2>3 DEF BackupNamed
    <3>2. /\ backups'[b].state = "building"
          /\ \A d \in BackupIds \ {b} : backups'[d] = backups[d]
      BY <2>1, <3>1 DEF TypeInv, SharedOK, BackupRecords
    <3>3. \A q \in Procs : call'[q].backup = call[q].backup
      BY <3>1 DEF TypeInv, ControlOK, Calls
    <3>4. pc[p] = "backup_named"
      BY <1>31 DEF BackupNamed
    <3> QED BY <2>1, <3>1, <3>2, <3>3, <3>4, OwnedUpdate
  <2> QED BY <2>2, <2>3
<1>32. CASE BackupReturn(p)
  <2> DEFINE b == call[p].backup
  <2>1. pc[p] \in BackupPCs /\ b \in BackupIds /\ backups[b].state = "building"
    BY <1>32 DEF BackupReturn, TypeInv, ControlOK, BackupsOwned
  <2>2. backups' = [backups EXCEPT ![b].state = "taken"] /\ Return(p, "ok")
    BY <1>32 DEF BackupReturn
  <2>3. pc'[p] = "idle" /\ \A q \in Procs \ {p} : pc'[q] = pc[q] /\ call'[q] = call[q]
    BY <2>2 DEF TypeInv, ControlOK, Return, Goto
  <2>4. /\ backups'[b].state = "taken"
        /\ \A d \in BackupIds \ {b} : backups'[d] = backups[d]
    BY <2>1, <2>2 DEF TypeInv, SharedOK, BackupRecords
  <2> QED BY <2>1, <2>3, <2>4 DEF TypeInv, ControlOK, BackupsOwned
<1>33. CASE RestoreTopology(p)
  BY <1>33 DEF RestoreTopology
<1>34. CASE RestoreRLock(p)
  BY <1>34 DEF RestoreRLock, RestoreFails
<1>35. CASE RestoreConn(p)
  BY <1>35 DEF RestoreConn, RestoreFails
<1>36. CASE RestoreVersions(p)
  BY <1>36 DEF RestoreVersions, RestoreFails
<1>37. CASE RestorePrepare(p)
  BY <1>37 DEF RestorePrepare, RestoreFails
<1>38. CASE RestorePublic(p)
  <2>1. UNCHANGED backups /\ (RestoreFails(p, "error") \/
             (/\ Goto(p, "restore_named")
              /\ call' = [call EXCEPT ![p].todo = schemas \ {Public}]))
    BY <1>38 DEF RestorePublic
  <2>2. CASE RestoreFails(p, "error")
    BY <2>1, <2>2 DEF RestoreFails
  <2>3. CASE Goto(p, "restore_named") /\ call' = [call EXCEPT ![p].todo = schemas \ {Public}]
    <3>1. \A q \in Procs : call'[q].backup = call[q].backup
      BY <2>3 DEF TypeInv, ControlOK, Calls
    <3>2. pc[p] = "restore_public" /\ pc'[p] = "restore_named"
             /\ \A q \in Procs \ {p} : pc'[q] = pc[q]
      BY <1>38, <2>3 DEF RestorePublic, TypeInv, ControlOK, Goto
    <3> QED BY <2>1, <3>1, <3>2, OwnedKept
  <2> QED BY <2>1, <2>2, <2>3
<1>39. CASE RestoreDetach(p)
  <2>1. UNCHANGED backups /\ (RestoreFails(p, "error") \/ \E n \in call[p].todo :
              /\ Goto(p, "restore_attach")
              /\ call' = [call EXCEPT ![p].schema = n, ![p].todo = @ \ {n}])
    BY <1>39 DEF RestoreDetach
  <2>2. CASE RestoreFails(p, "error")
    BY <2>1, <2>2 DEF RestoreFails
  <2>3. CASE \E n \in call[p].todo :
               /\ Goto(p, "restore_attach")
               /\ call' = [call EXCEPT ![p].schema = n, ![p].todo = @ \ {n}]
    <3>1. \A q \in Procs : call'[q].backup = call[q].backup
      BY <2>3 DEF TypeInv, ControlOK, Calls
    <3>2. pc[p] = "restore_named" /\ pc'[p] = "restore_attach"
             /\ \A q \in Procs \ {p} : pc'[q] = pc[q]
      BY <1>39, <2>3 DEF RestoreDetach, TypeInv, ControlOK, Goto
    <3> QED BY <2>1, <3>1, <3>2, OwnedKept
  <2> QED BY <2>1, <2>2, <2>3
<1>40. CASE RestoreAttach(p)
  BY <1>40 DEF RestoreAttach, RestoreFails
<1>41. CASE RestoreReturn(p)
  BY <1>41 DEF RestoreReturn
<1>42. CASE CloseLock(p)
  BY <1>42 DEF CloseLock
<1>43. CASE CloseSet(p)
  BY <1>43 DEF CloseSet
<1>44. CASE ClosePool(p)
  BY <1>44 DEF ClosePool
<1>45. CASE ScriptCommit(p)
  BY <1>45 DEF ScriptCommit
<1>46. CASE ScriptAbort(p)
  BY <1>46, OwnedKept DEF ScriptAbort
<1>47. CASE TxCommit(p)
  BY <1>47 DEF TxCommit
<1>48. CASE TxRollback(p)
  BY <1>48 DEF TxRollback
<1> QED BY <1>1, <1>2, <1>3, <1>4, <1>5, <1>6, <1>7, <1>8, <1>9, <1>10, <1>11,
     <1>12, <1>13, <1>14, <1>15, <1>16, <1>17, <1>18, <1>19, <1>20, <1>21,
     <1>22, <1>23, <1>24, <1>25, <1>26, <1>27, <1>28, <1>29, <1>30, <1>31,
     <1>32, <1>33, <1>34, <1>35, <1>36, <1>37, <1>38, <1>39, <1>40, <1>41,
     <1>42, <1>43, <1>44, <1>45, <1>46, <1>47, <1>48
  DEF Invoke, Step, Finish

-----------------------------------------------------------------------------
(* What a step can touch *)

\* A goroutine moves itself only.
LEMMA OthersKept ==
    ASSUME TypeInv, NEW p \in Procs,
           Invoke(p) \/ Cancel(p) \/ Step(p) \/ Finish(p)
    PROVE  \A q \in Procs \ {p} : pc'[q] = pc[q] /\ call'[q] = call[q]
<1> USE DEF TypeInv, ControlOK, Goto, Return, Start
<1>1. CASE InvokeStatement(p) \/ InvokeCreateSchema(p) \/ InvokeBackup(p)
           \/ InvokeRestore(p) \/ InvokeClose(p) \/ Cancel(p)
  BY <1>1 DEF InvokeStatement, InvokeCreateSchema, InvokeBackup, InvokeRestore,
       InvokeClose, Cancel
<1>2. CASE ExecCheck(p) \/ ExecRun(p) \/ CallbackCheck(p) \/ CallbackConn(p)
           \/ CallbackRegister(p) \/ ScriptCheck(p) \/ ScriptBegin(p)
           \/ ScriptStatement(p) \/ ScriptCommit(p) \/ ScriptAbort(p)
  BY <1>2 DEF ExecCheck, ExecRun, CallbackCheck, CallbackConn,
       CallbackRegister, ScriptCheck, ScriptBegin, ScriptStatement,
       ScriptCommit, ScriptAbort
<1>3. CASE BeginCheck(p) \/ BeginConn(p) \/ TxExec(p) \/ TxCheck(p)
           \/ TxStatement(p) \/ TxAbort(p) \/ TxCommit(p) \/ TxRollback(p)
  BY <1>3 DEF BeginCheck, BeginConn, TxExec, TxCheck, TxStatement, TxAbort,
       TxCommit, TxRollback
<1>4. CASE CreateTopology(p) \/ CreateCheck(p) \/ CreateAttach(p)
           \/ CreateLock(p) \/ CreatePublish(p)
  BY <1>4 DEF CreateTopology, CreateCheck, CreateAttach, CreateLock,
       CreatePublish
<1>5. CASE BackupTopology(p)
  BY <1>5 DEF BackupTopology
<1>6. CASE BackupRLock(p)
  BY <1>6 DEF BackupRLock, BackupFails
<1>7. CASE BackupConn(p)
  BY <1>7 DEF BackupConn, BackupFails
<1>8. CASE BackupVersions(p)
  BY <1>8 DEF BackupVersions, BackupFails
<1>9. CASE BackupPublic(p)
  BY <1>9 DEF BackupPublic, BackupFails
<1>10. CASE BackupNamed(p)
  BY <1>10 DEF BackupNamed, BackupFails
<1>11. CASE BackupReturn(p)
  BY <1>11 DEF BackupReturn
<1>12. CASE RestoreTopology(p)
  BY <1>12 DEF RestoreTopology
<1>13. CASE RestoreRLock(p)
  BY <1>13 DEF RestoreRLock, RestoreFails
<1>14. CASE RestoreConn(p)
  BY <1>14 DEF RestoreConn, RestoreFails
<1>15. CASE RestoreVersions(p)
  BY <1>15 DEF RestoreVersions, RestoreFails
<1>16. CASE RestorePrepare(p)
  BY <1>16 DEF RestorePrepare, RestoreFails
<1>17. CASE RestorePublic(p)
  BY <1>17 DEF RestorePublic, RestoreFails
<1>18. CASE RestoreDetach(p)
  BY <1>18 DEF RestoreDetach, RestoreFails
<1>19. CASE RestoreAttach(p)
  BY <1>19 DEF RestoreAttach, RestoreFails
<1>20. CASE RestoreReturn(p)
  BY <1>20 DEF RestoreReturn
<1>21. CASE CloseLock(p) \/ CloseSet(p) \/ ClosePool(p)
  BY <1>21 DEF CloseLock, CloseSet, ClosePool
<1> QED BY <1>1, <1>2, <1>3, <1>4, <1>5, <1>6, <1>7, <1>8, <1>9, <1>10, <1>11,
     <1>12, <1>13, <1>14, <1>15, <1>16, <1>17, <1>18, <1>19, <1>20, <1>21
  DEF Invoke, Step, Finish

\* db.schemas and db.closed change under the write lock only, the pool is closed
\* after that.
LEMMA TopologyWrites ==
    ASSUME TypeInv, NEW p \in Procs,
           Invoke(p) \/ Cancel(p) \/ Step(p) \/ Finish(p)
    PROVE  UNCHANGED topo \/ CreatePublish(p) \/ CloseSet(p) \/ ClosePool(p)
<1> USE DEF topo
<1>1. CASE InvokeStatement(p) \/ InvokeCreateSchema(p) \/ InvokeBackup(p)
           \/ InvokeRestore(p) \/ InvokeClose(p) \/ Cancel(p)
  BY <1>1 DEF InvokeStatement, InvokeCreateSchema, InvokeBackup, InvokeRestore,
       InvokeClose, Cancel
<1>2. CASE ExecCheck(p) \/ ExecRun(p) \/ CallbackCheck(p) \/ CallbackConn(p)
           \/ CallbackRegister(p) \/ ScriptCheck(p) \/ ScriptBegin(p)
           \/ ScriptStatement(p) \/ ScriptCommit(p) \/ ScriptAbort(p)
  BY <1>2 DEF ExecCheck, ExecRun, CallbackCheck, CallbackConn,
       CallbackRegister, ScriptCheck, ScriptBegin, ScriptStatement,
       ScriptCommit, ScriptAbort
<1>3. CASE BeginCheck(p) \/ BeginConn(p) \/ TxExec(p) \/ TxCheck(p)
           \/ TxStatement(p) \/ TxAbort(p) \/ TxCommit(p) \/ TxRollback(p)
  BY <1>3 DEF BeginCheck, BeginConn, TxExec, TxCheck, TxStatement, TxAbort,
       TxCommit, TxRollback
<1>4. CASE CreateTopology(p) \/ CreateCheck(p) \/ CreateAttach(p)
           \/ CreateLock(p) \/ CreatePublish(p)
  BY <1>4 DEF CreateTopology, CreateCheck, CreateAttach, CreateLock,
       CreatePublish
<1>5. CASE BackupTopology(p) \/ BackupRLock(p) \/ BackupConn(p)
           \/ BackupVersions(p) \/ BackupPublic(p) \/ BackupNamed(p)
           \/ BackupReturn(p)
  BY <1>5 DEF BackupTopology, BackupRLock, BackupConn, BackupVersions,
       BackupPublic, BackupNamed, BackupReturn
<1>6. CASE RestoreTopology(p) \/ RestoreRLock(p) \/ RestoreConn(p)
           \/ RestoreVersions(p) \/ RestorePrepare(p) \/ RestorePublic(p)
           \/ RestoreDetach(p) \/ RestoreAttach(p) \/ RestoreReturn(p)
  BY <1>6 DEF RestoreTopology, RestoreRLock, RestoreConn, RestoreVersions,
       RestorePrepare, RestorePublic, RestoreDetach, RestoreAttach,
       RestoreReturn
<1>7. CASE CloseLock(p) \/ CloseSet(p) \/ ClosePool(p)
  BY <1>7 DEF CloseLock, CloseSet, ClosePool
<1> QED BY <1>1, <1>2, <1>3, <1>4, <1>5, <1>6, <1>7
  DEF Invoke, Step, Finish

\* Data changes through the engine connection only: it is free, or its holder
\* makes the change.
LEMMA ContentsWrites ==
    ASSUME LockInv, NEW p \in Procs,
           Invoke(p) \/ Cancel(p) \/ Step(p) \/ Finish(p)
    PROVE  UNCHANGED <<live, committed>> \/ conn = None \/ conn = p
<1> USE DEF LockInv, LocksFollowCalls,
       TransactionsArePinned, engine, PinnedPCs, OpenTxPCs, SnapshotPCs, ReaderPCs,
       BackupPCs, RestorePCs
<1>1. CASE InvokeStatement(p) \/ InvokeCreateSchema(p) \/ InvokeBackup(p)
           \/ InvokeRestore(p) \/ InvokeClose(p) \/ Cancel(p)
  BY <1>1 DEF InvokeStatement, InvokeCreateSchema, InvokeBackup, InvokeRestore,
       InvokeClose, Cancel
<1>2. CASE ExecCheck(p) \/ ExecRun(p) \/ CallbackCheck(p) \/ CallbackConn(p)
           \/ CallbackRegister(p) \/ ScriptCheck(p) \/ ScriptBegin(p)
           \/ ScriptStatement(p) \/ ScriptCommit(p) \/ ScriptAbort(p)
  BY <1>2 DEF ExecCheck, ExecRun, CallbackCheck, CallbackConn,
       CallbackRegister, ScriptCheck, ScriptBegin, ScriptStatement,
       ScriptCommit, ScriptAbort, Undo
<1>3. CASE BeginCheck(p) \/ BeginConn(p) \/ TxExec(p) \/ TxCheck(p)
           \/ TxStatement(p) \/ TxAbort(p) \/ TxCommit(p) \/ TxRollback(p)
  BY <1>3 DEF BeginCheck, BeginConn, TxExec, TxCheck, TxStatement, TxAbort,
       TxCommit, TxRollback, Undo
<1>4. CASE CreateTopology(p) \/ CreateCheck(p) \/ CreateAttach(p)
           \/ CreateLock(p) \/ CreatePublish(p)
  BY <1>4 DEF CreateTopology, CreateCheck, CreateAttach, CreateLock,
       CreatePublish
<1>5. CASE BackupTopology(p) \/ BackupRLock(p) \/ BackupConn(p)
           \/ BackupVersions(p) \/ BackupPublic(p) \/ BackupNamed(p)
           \/ BackupReturn(p)
  BY <1>5 DEF BackupTopology, BackupRLock, BackupConn, BackupVersions,
       BackupPublic, BackupNamed, BackupReturn
<1>6. CASE RestoreTopology(p) \/ RestoreRLock(p) \/ RestoreConn(p)
           \/ RestoreVersions(p) \/ RestorePrepare(p) \/ RestorePublic(p)
           \/ RestoreDetach(p) \/ RestoreAttach(p) \/ RestoreReturn(p)
  BY <1>6 DEF RestoreTopology, RestoreRLock, RestoreConn, RestoreVersions,
       RestorePrepare, RestorePublic, RestoreDetach, RestoreAttach,
       RestoreReturn
<1>7. CASE CloseLock(p) \/ CloseSet(p) \/ ClosePool(p)
  BY <1>7 DEF CloseLock, CloseSet, ClosePool
<1> QED BY <1>1, <1>2, <1>3, <1>4, <1>5, <1>6, <1>7
  DEF Invoke, Step, Finish

\* Backup calls alone write Backups, each its own.
LEMMA BackupsWrites ==
    ASSUME TypeInv, NEW p \in Procs,
           Invoke(p) \/ Cancel(p) \/ Step(p) \/ Finish(p)
    PROVE  \/ UNCHANGED backups
           \/ /\ InvokeBackup(p)
              /\ \E b \in BackupIds : /\ backups[b].state = "free"
                                     /\ backups' = [backups EXCEPT ![b].state = "building"]
           \/ /\ pc[p] \in BackupPCs \cap TopologyPCs
              /\ \A b \in BackupIds \ {call[p].backup} : backups'[b] = backups[b]
<1> USE DEF saved, TypeInv, SharedOK, TopologyPCs, BackupPCs
<1>1. CASE InvokeStatement(p) \/ InvokeCreateSchema(p) \/ InvokeBackup(p)
           \/ InvokeRestore(p) \/ InvokeClose(p) \/ Cancel(p)
  BY <1>1 DEF InvokeStatement, InvokeCreateSchema, InvokeBackup, InvokeRestore,
       InvokeClose, Cancel
<1>2. CASE ExecCheck(p) \/ ExecRun(p) \/ CallbackCheck(p) \/ CallbackConn(p)
           \/ CallbackRegister(p) \/ ScriptCheck(p) \/ ScriptBegin(p)
           \/ ScriptStatement(p) \/ ScriptCommit(p) \/ ScriptAbort(p)
  BY <1>2 DEF ExecCheck, ExecRun, CallbackCheck, CallbackConn,
       CallbackRegister, ScriptCheck, ScriptBegin, ScriptStatement,
       ScriptCommit, ScriptAbort
<1>3. CASE BeginCheck(p) \/ BeginConn(p) \/ TxExec(p) \/ TxCheck(p)
           \/ TxStatement(p) \/ TxAbort(p) \/ TxCommit(p) \/ TxRollback(p)
  BY <1>3 DEF BeginCheck, BeginConn, TxExec, TxCheck, TxStatement, TxAbort,
       TxCommit, TxRollback
<1>4. CASE CreateTopology(p) \/ CreateCheck(p) \/ CreateAttach(p)
           \/ CreateLock(p) \/ CreatePublish(p)
  BY <1>4 DEF CreateTopology, CreateCheck, CreateAttach, CreateLock,
       CreatePublish
<1>5. CASE BackupTopology(p)
  BY <1>5 DEF BackupTopology
<1>6. CASE BackupRLock(p)
  BY <1>6 DEF BackupRLock, BackupFails
<1>7. CASE BackupConn(p)
  BY <1>7 DEF BackupConn, BackupFails
<1>8. CASE BackupVersions(p)
  BY <1>8 DEF BackupVersions, BackupFails
<1>9. CASE BackupPublic(p)
  BY <1>9 DEF BackupPublic, BackupFails
<1>10. CASE BackupNamed(p)
  BY <1>10 DEF BackupNamed, BackupFails
<1>11. CASE BackupReturn(p)
  BY <1>11 DEF BackupReturn
<1>12. CASE RestoreTopology(p) \/ RestoreRLock(p) \/ RestoreConn(p)
            \/ RestoreVersions(p) \/ RestorePrepare(p) \/ RestorePublic(p)
            \/ RestoreDetach(p) \/ RestoreAttach(p) \/ RestoreReturn(p)
  BY <1>12 DEF RestoreTopology, RestoreRLock, RestoreConn, RestoreVersions,
       RestorePrepare, RestorePublic, RestoreDetach, RestoreAttach,
       RestoreReturn
<1>13. CASE CloseLock(p) \/ CloseSet(p) \/ ClosePool(p)
  BY <1>13 DEF CloseLock, CloseSet, ClosePool
<1> QED BY <1>1, <1>2, <1>3, <1>4, <1>5, <1>6, <1>7, <1>8, <1>9, <1>10, <1>11,
     <1>12, <1>13
  DEF Invoke, Step, Finish

\* What brings or keeps a goroutine where it holds the read lock.
LEMMA ReaderSteps ==
    ASSUME TypeInv, NEW p \in Procs,
           Invoke(p) \/ Cancel(p) \/ Step(p) \/ Finish(p)
    PROVE  \/ pc'[p] \notin ReaderPCs
           \/ Cancel(p)
           \/ BackupRLock(p) \/ BackupConn(p) \/ BackupVersions(p)
           \/ BackupPublic(p) \/ BackupNamed(p)
           \/ RestoreRLock(p) \/ RestoreConn(p) \/ RestoreVersions(p)
           \/ RestorePrepare(p) \/ RestorePublic(p) \/ RestoreDetach(p)
           \/ RestoreAttach(p)
<1> USE DEF TypeInv, ControlOK, Goto, Return, Start, ReaderPCs, BackupPCs, RestorePCs
<1>1. CASE InvokeStatement(p) \/ InvokeCreateSchema(p) \/ InvokeBackup(p)
           \/ InvokeRestore(p) \/ InvokeClose(p) \/ Cancel(p)
  BY <1>1 DEF InvokeStatement, InvokeCreateSchema, InvokeBackup, InvokeRestore,
       InvokeClose, Cancel
<1>2. CASE ExecCheck(p) \/ ExecRun(p) \/ CallbackCheck(p) \/ CallbackConn(p)
           \/ CallbackRegister(p) \/ ScriptCheck(p) \/ ScriptBegin(p)
           \/ ScriptStatement(p) \/ ScriptCommit(p) \/ ScriptAbort(p)
  BY <1>2 DEF ExecCheck, ExecRun, CallbackCheck, CallbackConn,
       CallbackRegister, ScriptCheck, ScriptBegin, ScriptStatement,
       ScriptCommit, ScriptAbort
<1>3. CASE BeginCheck(p) \/ BeginConn(p) \/ TxExec(p) \/ TxCheck(p)
           \/ TxStatement(p) \/ TxAbort(p) \/ TxCommit(p) \/ TxRollback(p)
  BY <1>3 DEF BeginCheck, BeginConn, TxExec, TxCheck, TxStatement, TxAbort,
       TxCommit, TxRollback
<1>4. CASE CreateTopology(p) \/ CreateCheck(p) \/ CreateAttach(p)
           \/ CreateLock(p) \/ CreatePublish(p)
  BY <1>4 DEF CreateTopology, CreateCheck, CreateAttach, CreateLock,
       CreatePublish
<1>5. CASE BackupTopology(p) \/ BackupRLock(p) \/ BackupConn(p)
           \/ BackupVersions(p) \/ BackupPublic(p) \/ BackupNamed(p)
           \/ BackupReturn(p)
  BY <1>5 DEF BackupTopology, BackupRLock, BackupConn, BackupVersions,
       BackupPublic, BackupNamed, BackupReturn
<1>6. CASE RestoreTopology(p) \/ RestoreRLock(p) \/ RestoreConn(p)
           \/ RestoreVersions(p) \/ RestorePrepare(p) \/ RestorePublic(p)
           \/ RestoreDetach(p) \/ RestoreAttach(p) \/ RestoreReturn(p)
  BY <1>6 DEF RestoreTopology, RestoreRLock, RestoreConn, RestoreVersions,
       RestorePrepare, RestorePublic, RestoreDetach, RestoreAttach,
       RestoreReturn
<1>7. CASE CloseLock(p) \/ CloseSet(p) \/ ClosePool(p)
  BY <1>7 DEF CloseLock, CloseSet, ClosePool
<1> QED BY <1>1, <1>2, <1>3, <1>4, <1>5, <1>6, <1>7
  DEF Invoke, Step, Finish

-----------------------------------------------------------------------------
(* Snapshots *)

\* While a goroutine holds the read lock, nobody else changes the set of schemas,
\* db.closed, the pool, or what a Backup recorded; once it has the connection,
\* nobody else changes data.
LEMMA ReaderFrame ==
    ASSUME LockInv, CloseOrder, BackupExcludesTopology,
           NEW q \in Procs, pc[q] \in ReaderPCs, NEW p \in Procs, p # q,
           Invoke(p) \/ Cancel(p) \/ Step(p) \/ Finish(p)
    PROVE  /\ pc'[q] = pc[q] /\ call'[q] = call[q]
           /\ UNCHANGED topo
           /\ \A b \in BackupIds : /\ backups'[b].names = backups[b].names
                                   /\ backups'[b].versions = backups[b].versions
                                   /\ backups'[b].images = backups[b].images
           /\ pc[q] \in SnapshotPCs => UNCHANGED <<live, committed>>
<1>1. q \in readers /\ topologyMu = q /\ ~closed
  BY DEF LockInv, LocksFollowCalls, BackupExcludesTopology, ReaderPCs, TopologyPCs,
         BackupPCs, RestorePCs
<1>2. pc'[q] = pc[q] /\ call'[q] = call[q]
  BY OthersKept DEF LockInv
<1>3. UNCHANGED topo
  <2>1. ~CreatePublish(p) /\ ~CloseSet(p)
    BY <1>1 DEF CreatePublish, CloseSet
  <2>2. ~ClosePool(p)
    BY <1>1 DEF ClosePool, CloseOrder
  <2> QED BY <2>1, <2>2, TopologyWrites DEF LockInv
<1>4. \A b \in BackupIds : /\ backups'[b].names = backups[b].names
                           /\ backups'[b].versions = backups[b].versions
                           /\ backups'[b].images = backups[b].images
  <2>1. pc[p] \notin BackupPCs \cap TopologyPCs
    BY <1>1 DEF LockInv, LocksFollowCalls
  <2>2. CASE UNCHANGED backups
    BY <2>2
  <2>3. CASE \E b \in BackupIds : backups' = [backups EXCEPT ![b].state = "building"]
    BY <2>3 DEF LockInv, TypeInv, SharedOK, BackupRecords
  <2> QED BY <2>1, <2>2, <2>3, BackupsWrites DEF LockInv
<1>5. ASSUME pc[q] \in SnapshotPCs PROVE UNCHANGED <<live, committed>>
  <2>1. conn = q /\ conn # None /\ conn # p
    BY <1>5, ConstantsAssumption DEF LockInv, LocksFollowCalls, PinnedPCs
  <2> QED BY <2>1, ContentsWrites
<1> QED BY <1>2, <1>3, <1>4, <1>5

\* The connection a snapshot has pinned shows committed data only.
LEMMA SnapshotSeesCommitted ==
    LockInv => \A p \in Procs : pc[p] \in SnapshotPCs => live = committed
<1> SUFFICES ASSUME LockInv, NEW p \in Procs, pc[p] \in SnapshotPCs
             PROVE  live = committed
  OBVIOUS
<1>1. conn = p
  BY DEF LockInv, LocksFollowCalls, PinnedPCs
<1>2. pc[p] \notin OpenTxPCs \cup {"script_stmt"}
  BY DEF SnapshotPCs, ReaderPCs, BackupPCs, RestorePCs, OpenTxPCs
<1>3. txn = None
  BY <1>1, <1>2 DEF LockInv, TransactionsArePinned, TypeInv, SharedOK
<1> QED BY <1>3 DEF LockInv, TransactionsArePinned

\* The same after a step.
LEMMA SnapshotCommittedAfter ==
    LockInv' => \A p \in Procs : pc'[p] \in SnapshotPCs => live' = committed'
<1> SUFFICES ASSUME LockInv', NEW p \in Procs, pc'[p] \in SnapshotPCs
             PROVE  live' = committed'
  OBVIOUS
<1>1. conn' = p
  BY DEF LockInv, LocksFollowCalls, PinnedPCs
<1>2. pc'[p] \notin OpenTxPCs \cup {"script_stmt"}
  BY DEF SnapshotPCs, ReaderPCs, BackupPCs, RestorePCs, OpenTxPCs
<1>3. txn' = None
  BY <1>1, <1>2 DEF LockInv, TransactionsArePinned, TypeInv, SharedOK
<1> QED BY <1>3 DEF LockInv, TransactionsArePinned

\* What the steps that go on do to the Backup and to todo: the versions and the
\* names are recorded.
LEMMA BackupVersionsEffect ==
    ASSUME TypeInv, NEW p \in Procs, BackupVersions(p), pc'[p] # "idle"
    PROVE  /\ pc[p] = "backup_versions" /\ pc'[p] = "backup_public"
           /\ call'[p] = call[p] /\ UNCHANGED <<topo, live, committed>>
           /\ backups'[call[p].backup].names = schemas
           /\ backups'[call[p].backup].versions =
                [s \in Schemas |-> IF s \in schemas THEN live[s].version ELSE 0]
<1> DEFINE b == call[p].backup
           new == [backups[b] EXCEPT !.names = schemas,
                     !.versions = [s \in Schemas |-> IF s \in schemas
                                                     THEN live[s].version ELSE 0]]
<1>1. pc[p] = "backup_versions" /\ b \in BackupIds
  BY DEF BackupVersions, TypeInv, ControlOK, BackupPCs
<1>2. ~BackupFails(p, Refusal(p))
  BY DEF BackupFails, Return, Goto, TypeInv, ControlOK
<1>3. /\ backups' = [backups EXCEPT ![b] = new]
      /\ Goto(p, "backup_public") /\ UNCHANGED <<call, topo, engine>>
  BY <1>2 DEF BackupVersions
<1>4. /\ new.names = schemas
      /\ new.versions = [s \in Schemas |-> IF s \in schemas THEN live[s].version ELSE 0]
  BY <1>1 DEF TypeInv, SharedOK, BackupRecords
<1> HIDE DEF new
<1> QED BY <1>1, <1>3, <1>4 DEF TypeInv, ControlOK, SharedOK, Goto, engine

\* The image of public is taken from what the connection sees.
LEMMA BackupPublicEffect ==
    ASSUME TypeInv, NEW p \in Procs, BackupPublic(p), pc'[p] # "idle"
    PROVE  LET b == call[p].backup IN
           /\ pc[p] = "backup_public" /\ pc'[p] = "backup_named"
           /\ call'[p].backup = b /\ call'[p].todo = schemas \ {Public}
           /\ UNCHANGED <<topo, live, committed>>
           /\ backups'[b].names = backups[b].names
           /\ backups'[b].versions = backups[b].versions
           /\ backups'[b].images = [backups[b].images EXCEPT ![Public] = live[Public]]
<1> DEFINE b == call[p].backup
<1>1. pc[p] = "backup_public" /\ b \in BackupIds
  BY DEF BackupPublic, TypeInv, ControlOK, BackupPCs
<1>2. ~BackupFails(p, "error")
  BY DEF BackupFails, Return, Goto, TypeInv, ControlOK
<1>3. /\ backups' = [backups EXCEPT ![b].images[Public] = live[Public]]
      /\ Goto(p, "backup_named")
      /\ call' = [call EXCEPT ![p].todo = schemas \ {Public}]
      /\ UNCHANGED <<topo, engine>>
  BY <1>2 DEF BackupPublic
<1>4. /\ backups'[b].names = backups[b].names
      /\ backups'[b].versions = backups[b].versions
      /\ backups'[b].images = [backups[b].images EXCEPT ![Public] = live[Public]]
  BY <1>1, <1>3 DEF TypeInv, SharedOK, BackupRecords
<1>5. call'[p].backup = b /\ call'[p].todo = schemas \ {Public}
  BY <1>3 DEF TypeInv, ControlOK, Calls
<1> QED BY <1>1, <1>3, <1>4, <1>5 DEF TypeInv, ControlOK, Goto, engine

\* One named schema after the other is visited and copied.
LEMMA BackupNamedEffect ==
    ASSUME TypeInv, NEW p \in Procs, BackupNamed(p), pc'[p] # "idle"
    PROVE  LET b == call[p].backup IN
           \E n \in call[p].todo :
             /\ pc[p] = "backup_named" /\ pc'[p] = "backup_named"
             /\ call'[p].backup = b /\ call'[p].todo = call[p].todo \ {n}
             /\ UNCHANGED <<topo, live, committed>>
             /\ backups'[b].names = backups[b].names
             /\ backups'[b].versions = backups[b].versions
             /\ backups'[b].images = [backups[b].images EXCEPT ![n] = Vacuumed(live[n])]
<1> DEFINE b == call[p].backup
<1>1. pc[p] = "backup_named" /\ b \in BackupIds
  BY DEF BackupNamed, TypeInv, ControlOK, BackupPCs
<1>2. ~BackupFails(p, Refusal(p))
  BY DEF BackupFails, Return, Goto, TypeInv, ControlOK
<1>3. PICK n \in call[p].todo :
         /\ backups' = [backups EXCEPT ![b].images[n] = Vacuumed(live[n])]
         /\ call' = [call EXCEPT ![p].todo = @ \ {n}]
         /\ UNCHANGED <<pc, topo, engine>>
  BY <1>2 DEF BackupNamed
<1>4. /\ backups'[b].names = backups[b].names
      /\ backups'[b].versions = backups[b].versions
      /\ backups'[b].images = [backups[b].images EXCEPT ![n] = Vacuumed(live[n])]
  BY <1>1, <1>3 DEF TypeInv, SharedOK, BackupRecords
<1>5. call'[p].backup = b /\ call'[p].todo = call[p].todo \ {n}
  BY <1>3 DEF TypeInv, ControlOK, Calls
<1> QED BY <1>1, <1>3, <1>4, <1>5 DEF engine

\* public is replaced, the named schemas are still to do.
LEMMA RestorePublicEffect ==
    ASSUME TypeInv, NEW p \in Procs, RestorePublic(p), pc'[p] # "idle"
    PROVE  LET b == call[p].backup IN
           /\ pc[p] = "restore_public" /\ pc'[p] = "restore_named"
           /\ call'[p].backup = b /\ call'[p].todo = schemas \ {Public}
           /\ UNCHANGED <<topo, saved>>
           /\ live' = [live EXCEPT ![Public] = backups[b].images[Public]]
           /\ committed' = [committed EXCEPT ![Public] = backups[b].images[Public]]
<1> DEFINE b == call[p].backup
<1>1. ~RestoreFails(p, "error")
  BY DEF RestoreFails, Return, Goto, TypeInv, ControlOK
<1>2. /\ pc[p] = "restore_public" /\ Goto(p, "restore_named")
      /\ call' = [call EXCEPT ![p].todo = schemas \ {Public}]
      /\ live' = [live EXCEPT ![Public] = backups[b].images[Public]]
      /\ committed' = [committed EXCEPT ![Public] = backups[b].images[Public]]
      /\ UNCHANGED <<topo, saved>>
  BY <1>1 DEF RestorePublic
<1>3. call'[p].backup = b /\ call'[p].todo = schemas \ {Public}
  BY <1>2 DEF TypeInv, ControlOK, Calls
<1> QED BY <1>2, <1>3 DEF TypeInv, ControlOK, Goto

\* A named schema is taken away ...
LEMMA RestoreDetachEffect ==
    ASSUME TypeInv, NEW p \in Procs, RestoreDetach(p), pc'[p] # "idle"
    PROVE  LET b == call[p].backup IN
           \E n \in call[p].todo :
             /\ pc[p] = "restore_named" /\ pc'[p] = "restore_attach"
             /\ call'[p].backup = b /\ call'[p].schema = n
             /\ call'[p].todo = call[p].todo \ {n}
             /\ UNCHANGED <<topo, backups>>
             /\ committed' = [committed EXCEPT ![n] = Empty]
<1> DEFINE b == call[p].backup
<1>1. ~RestoreFails(p, "error")
  BY DEF RestoreFails, Return, Goto, TypeInv, ControlOK
<1>2. PICK n \in call[p].todo :
         /\ pc[p] = "restore_named" /\ Goto(p, "restore_attach")
         /\ call' = [call EXCEPT ![p].schema = n, ![p].todo = @ \ {n}]
         /\ committed' = [committed EXCEPT ![n] = Empty]
         /\ UNCHANGED <<topo, backups>>
  BY <1>1 DEF RestoreDetach, saved
<1>3. call'[p].backup = b /\ call'[p].schema = n /\ call'[p].todo = call[p].todo \ {n}
  BY <1>2 DEF TypeInv, ControlOK, Calls
<1> QED BY <1>2, <1>3 DEF TypeInv, ControlOK, Goto

\* ... and comes back with the contents of its image.
LEMMA RestoreAttachEffect ==
    ASSUME TypeInv, NEW p \in Procs, RestoreAttach(p), pc'[p] # "idle"
    PROVE  LET b == call[p].backup
               n == call[p].schema
           IN  /\ pc[p] = "restore_attach" /\ pc'[p] = "restore_named"
               /\ call'[p] = call[p] /\ n \in Names
               /\ UNCHANGED <<topo, backups>>
               /\ committed' = [committed EXCEPT ![n] = OnlineRestored(backups[b].images[n])]
<1>1. ~RestoreFails(p, "error")
  BY DEF RestoreFails, Return, Goto, TypeInv, ControlOK
<1> QED BY <1>1 DEF RestoreAttach, TypeInv, ControlOK, RestorePCs, Goto, saved

\* The steps of Backup and Restore themselves, under the read lock.
LEMMA OwnTopology ==
    ASSUME LockInv, CloseOrder, BackupExcludesTopology,
           NEW p \in Procs, pc'[p] \in ReaderPCs,
           Invoke(p) \/ Cancel(p) \/ Step(p) \/ Finish(p)
    PROVE  /\ ~closed' /\ ~poolClosed'
           /\ pc'[p] \in {"backup_public", "backup_named"} \cup
                           (ReaderPCs \cap RestorePCs) =>
                schemas' = backups'[call'[p].backup].names
<1> USE DEF LockInv, TypeInv, ControlOK, SharedOK, CloseOrder, BackupExcludesTopology,
       topo, saved, Goto, Return, ReaderPCs, BackupPCs, RestorePCs
<1>1. CASE Cancel(p)
  <2>1. call'[p].backup = call[p].backup
    BY <1>1 DEF Cancel, Calls
  <2> QED BY <1>1, <2>1 DEF Cancel
<1>2. CASE BackupRLock(p)
  BY <1>2 DEF BackupRLock, BackupFails
<1>3. CASE BackupConn(p)
  BY <1>3 DEF BackupConn, BackupFails
<1>4. CASE BackupVersions(p)
  BY <1>4, BackupVersionsEffect
<1>5. CASE BackupPublic(p)
  BY <1>5, BackupPublicEffect
<1>6. CASE BackupNamed(p)
  BY <1>6, BackupNamedEffect
<1>7. CASE RestoreRLock(p)
  BY <1>7 DEF RestoreRLock, RestoreFails
<1>8. CASE RestoreConn(p)
  BY <1>8 DEF RestoreConn, RestoreFails
<1>9. CASE RestoreVersions(p)
  BY <1>9 DEF RestoreVersions, RestoreFails
<1>10. CASE RestorePrepare(p)
  BY <1>10 DEF RestorePrepare, RestoreFails
<1>11. CASE RestorePublic(p)
  BY <1>11, RestorePublicEffect
<1>12. CASE RestoreDetach(p)
  BY <1>12, RestoreDetachEffect
<1>13. CASE RestoreAttach(p)
  BY <1>13, RestoreAttachEffect
<1> QED BY <1>1, <1>2, <1>3, <1>4, <1>5, <1>6, <1>7, <1>8, <1>9, <1>10, <1>11,
     <1>12, <1>13, ReaderSteps

\* The images taken so far are copies of the committed data, and the schemas
\* swapped so far are copies of the images.
LEMMA OwnSnapshot ==
    ASSUME LockInv, BackupIsConsistent, RestoreIsExact, SwapSoFar,
           NEW p \in Procs, Invoke(p) \/ Cancel(p) \/ Step(p) \/ Finish(p)
    PROVE  LET c == call'[p]
               same(s) == SameData(backups'[c.backup].images[s], committed'[s])
           IN  /\ pc'[p] \in {"backup_named", "restore_named"} =>
                    \A s \in schemas' \ c.todo : same(s)
               /\ pc'[p] = "restore_attach" =>
                    \A s \in schemas' \ (c.todo \cup {c.schema}) : same(s)
<1> DEFINE c == call'[p]
           same(s) == SameData(backups'[c.backup].images[s], committed'[s])
<1> SUFFICES ASSUME pc'[p] \in {"backup_named", "restore_named", "restore_attach"}
             PROVE  /\ pc'[p] \in {"backup_named", "restore_named"} =>
                         \A s \in schemas' \ c.todo : same(s)
                    /\ pc'[p] = "restore_attach" =>
                         \A s \in schemas' \ (c.todo \cup {c.schema}) : same(s)
  OBVIOUS
<1> USE DEF topo
<1>1. pc'[p] \in ReaderPCs /\ pc'[p] # "idle" /\ TypeInv
  BY DEF ReaderPCs, BackupPCs, RestorePCs, LockInv
<1>2. \A b \in BackupIds : backups[b].images \in [Schemas -> Contents]
  BY DEF LockInv, TypeInv, SharedOK, BackupRecords
<1>3. pc[p] \in BackupPCs \cup RestorePCs => call[p].backup \in BackupIds
  BY DEF LockInv, TypeInv, ControlOK
<1>4. schemas \subseteq Schemas /\ committed \in [Schemas -> Contents] /\ Public \in Schemas
  BY DEF LockInv, TypeInv, SharedOK, Schemas
<1>5. CASE Cancel(p)
  <2>1. /\ c.backup = call[p].backup /\ c.todo = call[p].todo /\ c.schema = call[p].schema
        /\ pc' = pc /\ UNCHANGED <<topo, engine, saved>>
    BY <1>5 DEF Cancel, LockInv, TypeInv, ControlOK, Calls
  <2> QED BY <2>1 DEF BackupIsConsistent, RestoreIsExact, SwapSoFar, SameData, engine, saved
<1>6. CASE BackupPublic(p)
  <2>1. live = committed
    BY <1>1, <1>6, SnapshotSeesCommitted, BackupPublicEffect
       DEF SnapshotPCs, ReaderPCs, BackupPCs
  <2>2. /\ pc[p] = "backup_public" /\ pc'[p] = "backup_named"
        /\ c.backup = call[p].backup /\ c.todo = schemas \ {Public}
        /\ UNCHANGED <<topo, live, committed>>
        /\ backups'[c.backup].images =
             [backups[c.backup].images EXCEPT ![Public] = live[Public]]
    BY <1>1, <1>6, BackupPublicEffect
  <2>3. backups'[c.backup].images[Public] = committed'[Public]
    BY <1>2, <1>3, <1>4, <2>1, <2>2 DEF BackupPCs
  <2> QED BY <2>2, <2>3 DEF SameData
<1>7. CASE BackupNamed(p)
  <2>1. live = committed
    BY <1>1, <1>7, SnapshotSeesCommitted, BackupNamedEffect
       DEF SnapshotPCs, ReaderPCs, BackupPCs
  <2>2. PICK n \in call[p].todo :
          /\ pc[p] = "backup_named" /\ pc'[p] = "backup_named"
          /\ c.backup = call[p].backup /\ c.todo = call[p].todo \ {n}
          /\ UNCHANGED <<topo, live, committed>>
          /\ backups'[c.backup].images =
               [backups[c.backup].images EXCEPT ![n] = Vacuumed(live[n])]
    <3> DEFINE b == call[p].backup
    <3>1. \E n \in call[p].todo :
            /\ pc[p] = "backup_named" /\ pc'[p] = "backup_named"
            /\ call'[p].backup = b /\ call'[p].todo = call[p].todo \ {n}
            /\ UNCHANGED <<topo, live, committed>>
            /\ backups'[b].names = backups[b].names
            /\ backups'[b].versions = backups[b].versions
            /\ backups'[b].images = [backups[b].images EXCEPT ![n] = Vacuumed(live[n])]
      BY <1>1, <1>7, BackupNamedEffect, Zenon
    <3> QED BY <3>1
  <2>3. SameData(Vacuumed(committed[n]), committed[n])
    <3>1. n \in Schemas
      BY DEF LockInv, TypeInv, ControlOK, Calls, Schemas
    <3> QED BY <1>4, <3>1 DEF SameData, Vacuumed, Contents
  <2>4. ASSUME NEW s \in schemas' \ c.todo PROVE same(s)
    <3>1. s \in Schemas /\ c.backup \in BackupIds
      BY <1>3, <1>4, <2>2 DEF BackupPCs
    <3>2. CASE s = n
      BY <1>2, <2>1, <2>2, <2>3, <3>1, <3>2
    <3>3. CASE s # n
      <4>1. backups'[c.backup].images[s] = backups[call[p].backup].images[s]
        BY <1>2, <2>2, <3>1, <3>3
      <4>2. s \in schemas \ call[p].todo
        BY <2>2, <3>3
      <4> QED BY <2>2, <4>1, <4>2 DEF BackupIsConsistent
    <3> QED BY <3>2, <3>3
  <2> QED BY <2>2, <2>4
<1>8. CASE RestorePublic(p)
  BY <1>1, <1>2, <1>3, <1>4, <1>8, RestorePublicEffect DEF SameData, RestorePCs, saved
<1>9. CASE RestoreDetach(p)
  <2>1. PICK n \in call[p].todo :
          /\ pc[p] = "restore_named" /\ pc'[p] = "restore_attach"
          /\ c.backup = call[p].backup /\ c.schema = n /\ c.todo = call[p].todo \ {n}
          /\ UNCHANGED <<topo, backups>>
          /\ committed' = [committed EXCEPT ![n] = Empty]
    BY <1>1, <1>9, RestoreDetachEffect
  <2>2. ASSUME NEW s \in schemas' \ (c.todo \cup {c.schema}) PROVE same(s)
    <3>1. s \in schemas \ call[p].todo /\ s # n
      BY <2>1
    <3>2. committed'[s] = committed[s]
      BY <1>4, <2>1, <3>1
    <3> QED BY <2>1, <3>1, <3>2 DEF RestoreIsExact, SameData
  <2> QED BY <2>1, <2>2
<1>10. CASE RestoreAttach(p)
  <2> DEFINE n == call[p].schema
             image == backups[call[p].backup].images[n]
  <2>1. /\ pc[p] = "restore_attach" /\ pc'[p] = "restore_named"
        /\ c = call[p] /\ n \in Schemas
        /\ UNCHANGED <<topo, backups>>
        /\ committed' = [committed EXCEPT ![n] = OnlineRestored(image)]
    BY <1>1, <1>10, RestoreAttachEffect DEF Schemas
  <2>2. image \in Contents
    BY <1>2, <1>3, <2>1 DEF RestorePCs
  <2>3. SameData(image, OnlineRestored(image))
    BY <2>2 DEF SameData, OnlineRestored, Contents
  <2>4. ASSUME NEW s \in schemas' \ c.todo PROVE same(s)
    <3>1. CASE s = n
      BY <1>4, <2>1, <2>3, <3>1
    <3>2. CASE s # n
      <4>1. committed'[s] = committed[s] /\ s \in schemas \ (c.todo \cup {n})
        BY <1>4, <2>1, <3>2
      <4> QED BY <2>1, <4>1 DEF SwapSoFar, SameData
    <3> QED BY <3>1, <3>2
  <2> QED BY <2>1, <2>4
<1>11. CASE \/ BackupRLock(p) \/ BackupConn(p) \/ BackupVersions(p) \/ RestoreRLock(p)
            \/ RestoreConn(p) \/ RestoreVersions(p) \/ RestorePrepare(p)
  BY <1>11 DEF BackupRLock, BackupConn, BackupVersions, RestoreRLock, RestoreConn,
     RestoreVersions, RestorePrepare, BackupFails, RestoreFails, Return, Goto, LockInv,
     TypeInv, ControlOK
<1> QED BY <1>1, <1>5, <1>6, <1>7, <1>8, <1>9, <1>10, <1>11, ReaderSteps

-----------------------------------------------------------------------------
(* The inductive invariant and the theorems *)

SnapshotInv ==
    /\ LockInv
    /\ CloseOrder
    /\ BackupsOwned
    /\ BackupExcludesTopology
    /\ BackupIsConsistent
    /\ RestoreIsExact
    /\ SwapSoFar

\* The initial states satisfy the invariant: nobody is in a call.
LEMMA SnapshotInit == Init => SnapshotInv
<1> SUFFICES ASSUME Init PROVE SnapshotInv
  OBVIOUS
<1>1. \A p \in Procs : pc[p] = "idle"
  BY DEF Init
<1>2. LockInv
  BY LockInit
<1>3. CloseOrder /\ SwapSoFar /\ BackupIsConsistent /\ RestoreIsExact
  BY <1>1 DEF Init, CloseOrder, SwapSoFar, BackupIsConsistent, RestoreIsExact
<1>4. BackupsOwned /\ BackupExcludesTopology
  BY <1>1 DEF BackupsOwned, BackupExcludesTopology, ReaderPCs, BackupPCs, RestorePCs
<1> QED BY <1>2, <1>3, <1>4 DEF SnapshotInv

\* Every step preserves the invariant.  What a snapshot relies on is kept by the
\* other goroutines (ReaderFrame) and by its own steps (OwnTopology, OwnSnapshot).
LEMMA SnapshotStep == SnapshotInv /\ [Next]_vars => SnapshotInv'
<1> SUFFICES ASSUME SnapshotInv, [Next]_vars PROVE SnapshotInv'
  OBVIOUS
<1>1. CASE UNCHANGED vars
  <2> USE <1>1 DEF vars, topo, locks, engine, saved
  <2>1. LockInv'
    BY LockStep DEF SnapshotInv
  <2>2. CloseOrder' /\ BackupsOwned' /\ BackupExcludesTopology'
    BY DEF SnapshotInv, CloseOrder, BackupsOwned, BackupExcludesTopology
  <2>3. BackupIsConsistent' /\ RestoreIsExact' /\ SwapSoFar'
    BY DEF SnapshotInv, BackupIsConsistent, RestoreIsExact, SwapSoFar, SameData
  <2> QED BY <2>1, <2>2, <2>3 DEF SnapshotInv
<1>2. CASE Next
  <2> USE DEF SnapshotInv
  <2>1. PICK p \in Procs : Invoke(p) \/ Cancel(p) \/ Step(p) \/ Finish(p)
    BY <1>2 DEF Next
  <2>2. LockInv'
    BY LockStep
  <2>3. CloseOrder' /\ BackupsOwned'
    BY <2>1, CloseStep, OwnedStep DEF LockInv
  <2>4. ASSUME NEW q \in Procs, q # p, pc[q] \in ReaderPCs
        PROVE  /\ pc'[q] = pc[q] /\ call'[q] = call[q] /\ UNCHANGED topo
               /\ \A b \in BackupIds : /\ backups'[b].names = backups[b].names
                                       /\ backups'[b].images = backups[b].images
               /\ pc[q] \in SnapshotPCs => UNCHANGED <<live, committed>>
    BY <2>1, <2>4, ReaderFrame
  <2>5. \A q \in Procs \ {p} : pc'[q] = pc[q] /\ call'[q] = call[q]
    BY <2>1, OthersKept DEF LockInv
  <2>6. \A q \in Procs : pc[q] \in ReaderPCs => call[q].backup \in BackupIds
    BY DEF LockInv, TypeInv, ControlOK, ReaderPCs
  <2>7. BackupExcludesTopology'
    <3> SUFFICES ASSUME NEW q \in Procs, pc'[q] \in ReaderPCs
                 PROVE  /\ ~closed' /\ ~poolClosed'
                        /\ pc'[q] \in {"backup_public", "backup_named"} \cup
                                        (ReaderPCs \cap RestorePCs) =>
                             schemas' = backups'[call'[q].backup].names
      BY DEF BackupExcludesTopology, ReaderPCs, BackupPCs
    <3>1. CASE q = p
      BY <2>1, <3>1, OwnTopology
    <3>2. CASE q # p
      BY <2>4, <2>5, <2>6, <3>2 DEF BackupExcludesTopology, topo
    <3> QED BY <3>1, <3>2
  <2>8. BackupIsConsistent'
    <3> SUFFICES ASSUME NEW q \in Procs, pc'[q] = "backup_named"
                 PROVE  /\ live' = committed'
                        /\ \A s \in schemas' \ call'[q].todo :
                             SameData(backups'[call'[q].backup].images[s], committed'[s])
      BY DEF BackupIsConsistent, SameData
    <3>1. live' = committed'
      BY <2>2, SnapshotCommittedAfter DEF SnapshotPCs, ReaderPCs, BackupPCs
    <3>2. CASE q = p
      BY <2>1, <3>1, <3>2, OwnSnapshot
    <3>3. CASE q # p
      <4>1. pc[q] = "backup_named" /\ pc[q] \in SnapshotPCs
        BY <2>5, <3>3 DEF SnapshotPCs, ReaderPCs, BackupPCs
      <4> QED BY <2>4, <2>6, <3>1, <3>3, <4>1
          DEF BackupIsConsistent, SnapshotPCs, topo, SameData
    <3> QED BY <3>2, <3>3
  <2>9. RestoreIsExact' /\ SwapSoFar'
    <3>1. ASSUME NEW q \in Procs, pc'[q] = "restore_named"
          PROVE  \A s \in schemas' \ call'[q].todo :
                    SameData(committed'[s], backups'[call'[q].backup].images[s])
      <4>1. CASE q = p
        BY <2>1, <3>1, <4>1, OwnSnapshot DEF SameData
      <4>2. CASE q # p
        <5>1. pc[q] = "restore_named" /\ pc[q] \in SnapshotPCs
          BY <2>5, <3>1, <4>2 DEF SnapshotPCs, ReaderPCs, RestorePCs
        <5> QED BY <2>4, <2>6, <4>2, <5>1
            DEF RestoreIsExact, SnapshotPCs, topo, SameData
      <4> QED BY <4>1, <4>2
    <3>2. ASSUME NEW q \in Procs, pc'[q] = "restore_attach"
          PROVE  \A s \in schemas' \ (call'[q].todo \cup {call'[q].schema}) :
                    SameData(committed'[s], backups'[call'[q].backup].images[s])
      <4>1. CASE q = p
        BY <2>1, <3>2, <4>1, OwnSnapshot DEF SameData
      <4>2. CASE q # p
        <5>1. pc[q] = "restore_attach" /\ pc[q] \in SnapshotPCs
          BY <2>5, <3>2, <4>2 DEF SnapshotPCs, ReaderPCs, RestorePCs
        <5> QED BY <2>4, <2>6, <4>2, <5>1
            DEF SwapSoFar, SnapshotPCs, topo, SameData
      <4> QED BY <4>1, <4>2
    <3> QED BY <3>1, <3>2 DEF RestoreIsExact, SwapSoFar, SameData
  <2> QED BY <2>2, <2>3, <2>7, <2>8, <2>9
<1> QED BY <1>1, <1>2

\* Close and CreateSchema never overtake a Backup or a Restore that has passed its
\* check of db.closed.
THEOREM SnapshotExclusion == Spec => []BackupExcludesTopology
<1>1. SnapshotInv => BackupExcludesTopology
  BY DEF SnapshotInv
<1> QED BY <1>1, SnapshotInit, SnapshotStep, PTL DEF Spec

\* A Backup is one cross-schema snapshot of committed data, however many schemas
\* it visits one after the other.
THEOREM SnapshotConsistency == Spec => []BackupIsConsistent
<1>1. SnapshotInv => BackupIsConsistent
  BY DEF SnapshotInv
<1> QED BY <1>1, SnapshotInit, SnapshotStep, PTL DEF Spec

\* A Restore that reaches its last return has put back every schema.
THEOREM RestoreExactness == Spec => []RestoreIsExact
<1>1. SnapshotInv => RestoreIsExact
  BY DEF SnapshotInv
<1> QED BY <1>1, SnapshotInit, SnapshotStep, PTL DEF Spec

\* A slot of BackupIds that was returned is not used again.
LEMMA TakenKept ==
    ASSUME SnapshotInv, [Next]_vars, NEW b \in BackupIds, backups[b].state = "taken"
    PROVE  backups'[b] = backups[b]
<1>1. CASE UNCHANGED vars
  BY <1>1 DEF vars, saved
<1>2. CASE Next
  <2>1. PICK p \in Procs : Invoke(p) \/ Cancel(p) \/ Step(p) \/ Finish(p)
    BY <1>2 DEF Next
  <2>2. CASE UNCHANGED backups
    BY <2>2
  <2>3. CASE \E d \in BackupIds :
               /\ backups[d].state = "free"
               /\ backups' = [backups EXCEPT ![d].state = "building"]
    BY <2>3 DEF SnapshotInv, LockInv, TypeInv, SharedOK
  <2>4. CASE /\ pc[p] \in BackupPCs \cap TopologyPCs
             /\ \A d \in BackupIds \ {call[p].backup} : backups'[d] = backups[d]
    BY <2>4 DEF SnapshotInv, BackupsOwned
  <2> QED BY <2>1, <2>2, <2>3, <2>4, BackupsWrites DEF SnapshotInv, LockInv
<1> QED BY <1>1, <1>2

-----------------------------------------------------------------------------
(* Attached schemas *)

\* At most one schema is gone, CreateSchema publishes what it has attached, and
\* Backup and Restore work on attached schemas, but for the one being swapped.
AttachInv ==
    /\ \A m, n \in schemas \ attached : m = n
    /\ \A p \in Procs : pc[p] \in {"create_lock", "create_publish"} =>
         call[p].schema \in attached
    /\ \A p \in Procs :
         pc[p] \in {"backup_public", "backup_named", "restore_prepare",
                   "restore_public", "restore_named"} => schemas \subseteq attached
    /\ \A p \in Procs : pc[p] = "restore_attach" =>
         schemas \ attached \subseteq {call[p].schema}

\* Only a Restore takes a schema away from the connection, and only the one it
\* goes on to swap.
LEMMA AttachedWrites ==
    ASSUME TypeInv, NEW p \in Procs,
           Invoke(p) \/ Cancel(p) \/ Step(p) \/ Finish(p)
    PROVE  \/ attached \subseteq attached'
           \/ /\ pc[p] = "restore_named" /\ pc'[p] = "restore_attach"
              /\ call'[p].schema \in call[p].todo
              /\ attached' = attached \ {call'[p].schema}
              /\ UNCHANGED topo
<1> USE DEF engine
<1>1. CASE InvokeStatement(p) \/ InvokeCreateSchema(p) \/ InvokeBackup(p)
           \/ InvokeRestore(p) \/ InvokeClose(p) \/ Cancel(p)
  BY <1>1 DEF InvokeStatement, InvokeCreateSchema, InvokeBackup,
    InvokeRestore, InvokeClose, Cancel
<1>2. CASE ExecCheck(p) \/ ExecRun(p) \/ CallbackCheck(p) \/ CallbackConn(p)
           \/ CallbackRegister(p) \/ ScriptCheck(p) \/ ScriptBegin(p)
           \/ ScriptStatement(p) \/ ScriptCommit(p) \/ ScriptAbort(p)
  BY <1>2 DEF ExecCheck, ExecRun, CallbackCheck, CallbackConn,
    CallbackRegister, ScriptCheck, ScriptBegin, ScriptStatement, ScriptCommit,
    ScriptAbort, Undo
<1>3. CASE BeginCheck(p) \/ BeginConn(p) \/ TxExec(p) \/ TxCheck(p)
           \/ TxStatement(p) \/ TxAbort(p) \/ TxCommit(p) \/ TxRollback(p)
  BY <1>3 DEF BeginCheck, BeginConn, TxExec, TxCheck, TxStatement, TxAbort,
    TxCommit, TxRollback, Undo
<1>4. CASE CreateTopology(p) \/ CreateCheck(p) \/ CreateAttach(p)
           \/ CreateLock(p) \/ CreatePublish(p)
  BY <1>4 DEF CreateTopology, CreateCheck, CreateAttach, CreateLock,
    CreatePublish
<1>5. CASE BackupTopology(p) \/ BackupRLock(p) \/ BackupConn(p)
           \/ BackupVersions(p) \/ BackupPublic(p) \/ BackupNamed(p)
           \/ BackupReturn(p)
  BY <1>5 DEF BackupTopology, BackupRLock, BackupConn, BackupVersions,
    BackupPublic, BackupNamed, BackupReturn, BackupFails
<1>6. CASE RestoreTopology(p) \/ RestoreRLock(p) \/ RestoreConn(p)
           \/ RestoreVersions(p) \/ RestorePrepare(p) \/ RestorePublic(p)
           \/ RestoreAttach(p) \/ RestoreReturn(p)
  BY <1>6 DEF RestoreTopology, RestoreRLock, RestoreConn, RestoreVersions,
    RestorePrepare, RestorePublic, RestoreAttach, RestoreReturn, RestoreFails
<1>7. CASE RestoreDetach(p)
  <2>1. CASE pc'[p] = "idle"
    BY <1>7, <2>1 DEF RestoreDetach, Goto, TypeInv, ControlOK
  <2>2. CASE pc'[p] # "idle"
    <3>1. ~RestoreFails(p, "error")
      BY <2>2 DEF RestoreFails, Return, Goto, TypeInv, ControlOK
    <3>2. PICK n \in call[p].todo :
             /\ attached' = attached \ {n}
             /\ call' = [call EXCEPT ![p].schema = n, ![p].todo = @ \ {n}]
             /\ pc[p] = "restore_named" /\ Goto(p, "restore_attach")
             /\ UNCHANGED topo
      BY <1>7, <3>1 DEF RestoreDetach
    <3>3. call'[p].schema = n /\ pc'[p] = "restore_attach"
      BY <3>2 DEF TypeInv, ControlOK, Calls, Goto
    <3> QED BY <3>2, <3>3
  <2> QED BY <2>1, <2>2
<1>8. CASE CloseLock(p) \/ CloseSet(p) \/ ClosePool(p)
  BY <1>8 DEF CloseLock, CloseSet, ClosePool
<1> QED BY <1>1, <1>2, <1>3, <1>4, <1>5, <1>6, <1>7, <1>8
  DEF Invoke, Step, Finish

\* What brings or keeps a goroutine where it is about to publish a new schema.
LEMMA PublisherSteps ==
    ASSUME TypeInv, NEW p \in Procs,
           Invoke(p) \/ Cancel(p) \/ Step(p) \/ Finish(p)
    PROVE  \/ pc'[p] \notin {"create_lock", "create_publish"}
           \/ Cancel(p) \/ CreateAttach(p) \/ CreateLock(p)
<1> USE DEF TypeInv, ControlOK, Goto, Return, Start
<1>1. CASE InvokeStatement(p) \/ InvokeCreateSchema(p) \/ InvokeBackup(p)
           \/ InvokeRestore(p) \/ InvokeClose(p) \/ Cancel(p)
  BY <1>1 DEF InvokeStatement, InvokeCreateSchema, InvokeBackup,
    InvokeRestore, InvokeClose, Cancel
<1>2. CASE ExecCheck(p) \/ ExecRun(p) \/ CallbackCheck(p) \/ CallbackConn(p)
           \/ CallbackRegister(p) \/ ScriptCheck(p) \/ ScriptBegin(p)
           \/ ScriptStatement(p) \/ ScriptCommit(p) \/ ScriptAbort(p)
  BY <1>2 DEF ExecCheck, ExecRun, CallbackCheck, CallbackConn,
    CallbackRegister, ScriptCheck, ScriptBegin, ScriptStatement, ScriptCommit,
    ScriptAbort, Undo
<1>3. CASE BeginCheck(p) \/ BeginConn(p) \/ TxExec(p) \/ TxCheck(p)
           \/ TxStatement(p) \/ TxAbort(p) \/ TxCommit(p) \/ TxRollback(p)
  BY <1>3 DEF BeginCheck, BeginConn, TxExec, TxCheck, TxStatement, TxAbort,
    TxCommit, TxRollback, Undo
<1>4. CASE CreateTopology(p) \/ CreateCheck(p) \/ CreateAttach(p)
           \/ CreateLock(p) \/ CreatePublish(p)
  BY <1>4 DEF CreateTopology, CreateCheck, CreateAttach, CreateLock,
    CreatePublish
<1>5. CASE BackupTopology(p) \/ BackupRLock(p) \/ BackupConn(p)
           \/ BackupVersions(p) \/ BackupPublic(p) \/ BackupNamed(p)
           \/ BackupReturn(p)
  BY <1>5 DEF BackupTopology, BackupRLock, BackupConn, BackupVersions,
    BackupPublic, BackupNamed, BackupReturn, BackupFails
<1>6. CASE RestoreTopology(p) \/ RestoreRLock(p) \/ RestoreConn(p)
           \/ RestoreVersions(p) \/ RestorePrepare(p) \/ RestorePublic(p)
           \/ RestoreDetach(p) \/ RestoreAttach(p) \/ RestoreReturn(p)
  BY <1>6 DEF RestoreTopology, RestoreRLock, RestoreConn, RestoreVersions,
    RestorePrepare, RestorePublic, RestoreDetach, RestoreAttach,
    RestoreReturn, RestoreFails
<1>7. CASE CloseLock(p) \/ CloseSet(p) \/ ClosePool(p)
  BY <1>7 DEF CloseLock, CloseSet, ClosePool
<1> QED BY <1>1, <1>2, <1>3, <1>4, <1>5, <1>6, <1>7
  DEF Invoke, Step, Finish

\* A goroutine in the middle of a swap attaches the restored schema next.
LEMMA AttachingSteps ==
    ASSUME TypeInv, NEW p \in Procs, pc[p] = "restore_attach",
           Invoke(p) \/ Cancel(p) \/ Step(p) \/ Finish(p)
    PROVE  Cancel(p) \/ RestoreAttach(p)
<1>1. CASE InvokeStatement(p) \/ InvokeCreateSchema(p) \/ InvokeBackup(p)
           \/ InvokeRestore(p) \/ InvokeClose(p) \/ Cancel(p)
  BY <1>1 DEF InvokeStatement, InvokeCreateSchema, InvokeBackup,
    InvokeRestore, InvokeClose, Cancel
<1>2. CASE ExecCheck(p) \/ ExecRun(p) \/ CallbackCheck(p) \/ CallbackConn(p)
           \/ CallbackRegister(p) \/ ScriptCheck(p) \/ ScriptBegin(p)
           \/ ScriptStatement(p) \/ ScriptCommit(p) \/ ScriptAbort(p)
  BY <1>2 DEF ExecCheck, ExecRun, CallbackCheck, CallbackConn,
    CallbackRegister, ScriptCheck, ScriptBegin, ScriptStatement, ScriptCommit,
    ScriptAbort, Undo
<1>3. CASE BeginCheck(p) \/ BeginConn(p) \/ TxExec(p) \/ TxCheck(p)
           \/ TxStatement(p) \/ TxAbort(p) \/ TxCommit(p) \/ TxRollback(p)
  BY <1>3 DEF BeginCheck, BeginConn, TxExec, TxCheck, TxStatement, TxAbort,
    TxCommit, TxRollback, Undo
<1>4. CASE CreateTopology(p) \/ CreateCheck(p) \/ CreateAttach(p)
           \/ CreateLock(p) \/ CreatePublish(p)
  BY <1>4 DEF CreateTopology, CreateCheck, CreateAttach, CreateLock,
    CreatePublish
<1>5. CASE BackupTopology(p) \/ BackupRLock(p) \/ BackupConn(p)
           \/ BackupVersions(p) \/ BackupPublic(p) \/ BackupNamed(p)
           \/ BackupReturn(p)
  BY <1>5 DEF BackupTopology, BackupRLock, BackupConn, BackupVersions,
    BackupPublic, BackupNamed, BackupReturn, BackupFails
<1>6. CASE RestoreTopology(p) \/ RestoreRLock(p) \/ RestoreConn(p)
           \/ RestoreVersions(p) \/ RestorePrepare(p) \/ RestorePublic(p)
           \/ RestoreDetach(p) \/ RestoreAttach(p) \/ RestoreReturn(p)
  BY <1>6 DEF RestoreTopology, RestoreRLock, RestoreConn, RestoreVersions,
    RestorePrepare, RestorePublic, RestoreDetach, RestoreAttach,
    RestoreReturn, RestoreFails
<1>7. CASE CloseLock(p) \/ CloseSet(p) \/ ClosePool(p)
  BY <1>7 DEF CloseLock, CloseSet, ClosePool
<1> QED BY <1>1, <1>2, <1>3, <1>4, <1>5, <1>6, <1>7
  DEF Invoke, Step, Finish

\* Every step keeps the schemas attached that must be: topologyMu orders the
\* calls that publish, copy and swap schemas, and the swap takes one away only
\* when all are there.
LEMMA AttachStep ==
    ASSUME SnapshotInv, AttachInv, NEW p \in Procs,
           Invoke(p) \/ Cancel(p) \/ Step(p) \/ Finish(p)
    PROVE  AttachInv'
<1> USE DEF SnapshotInv, LockInv
<1>1. \A q \in Procs \ {p} : pc'[q] = pc[q] /\ call'[q] = call[q]
  BY OthersKept
<1>2. \A q \in Procs \ {p} : ~(pc[p] \in TopologyPCs /\ pc[q] \in TopologyPCs)
  BY DEF LocksFollowCalls
<1>3. CASE /\ pc[p] = "restore_named" /\ pc'[p] = "restore_attach"
           /\ call'[p].schema \in call[p].todo
           /\ attached' = attached \ {call'[p].schema}
           /\ UNCHANGED topo
  <2>1. \A q \in Procs \ {p} : pc[q] \notin TopologyPCs
    BY <1>2, <1>3 DEF TopologyPCs, RestorePCs
  <2> QED BY <1>1, <1>3, <2>1
      DEF AttachInv, topo, TopologyPCs, CreatePCs, BackupPCs, RestorePCs
<1>4. CASE attached \subseteq attached'
  <2>1. schemas' \ attached' \subseteq schemas \ attached
    <3>1. CASE UNCHANGED topo
      BY <1>4, <3>1 DEF topo
    <3>2. CASE CreatePublish(p)
      BY <1>4, <3>2 DEF CreatePublish, AttachInv
    <3>3. CASE CloseSet(p) \/ ClosePool(p)
      BY <1>4, <3>3 DEF CloseSet, ClosePool
    <3> QED BY <3>1, <3>2, <3>3, TopologyWrites
  <2>2. ASSUME NEW q \in Procs, pc'[q] \in {"create_lock", "create_publish"}
        PROVE  call'[q].schema \in attached'
    <3>1. CASE q # p
      BY <1>1, <1>4, <2>2, <3>1 DEF AttachInv
    <3>2. CASE q = p /\ Cancel(p)
      <4>1. call'[p].schema = call[p].schema
        BY <3>2 DEF Cancel, TypeInv, ControlOK, Calls
      <4> QED BY <1>4, <2>2, <3>2, <4>1 DEF Cancel, AttachInv
    <3>3. CASE q = p /\ CreateAttach(p)
      BY <2>2, <3>3 DEF CreateAttach, Goto, Return, TypeInv, ControlOK
    <3>4. CASE q = p /\ CreateLock(p)
      BY <1>4, <3>4 DEF CreateLock, AttachInv
    <3> QED BY <2>2, <3>1, <3>2, <3>3, <3>4, PublisherSteps
  <2>3. ASSUME NEW q \in Procs,
               pc'[q] \in {"backup_public", "backup_named", "restore_prepare",
                          "restore_public", "restore_named"}
        PROVE  schemas' \subseteq attached'
    <3>1. CASE q # p
      BY <1>1, <2>1, <2>3, <3>1 DEF AttachInv
    <3>2. CASE q = p /\ schemas \subseteq attached
      BY <2>1, <3>2
    <3>3. CASE q = p /\ RestoreAttach(p)
      <4>1. ~RestoreFails(p, "error")
        BY <2>3, <3>3 DEF RestoreFails, Return, Goto, TypeInv, ControlOK
      <4> QED BY <2>1, <3>3, <4>1 DEF RestoreAttach, AttachInv
    <3>4. CASE q = p /\ ~(schemas \subseteq attached) /\ ~RestoreAttach(p)
      <4>1. pc'[p] \in ReaderPCs /\ pc'[p] # "idle"
        BY <2>3, <3>4 DEF ReaderPCs, BackupPCs, RestorePCs
      <4>2. pc[p] \notin {"backup_public", "backup_named", "restore_prepare",
                          "restore_public", "restore_named"}
        BY <3>4 DEF AttachInv
      <4>3. ~Cancel(p)
        BY <2>3, <3>4, <4>2 DEF Cancel
      <4>4. ~RestorePrepare(p) /\ ~RestorePublic(p) /\ ~RestoreDetach(p)
               /\ ~BackupPublic(p) /\ ~BackupNamed(p)
        BY <4>2 DEF RestorePrepare, RestorePublic, RestoreDetach, BackupPublic,
           BackupNamed
      <4>5. ~BackupRLock(p) /\ ~BackupConn(p) /\ ~RestoreRLock(p) /\ ~RestoreConn(p)
        BY <2>3, <3>4 DEF BackupRLock, BackupConn, RestoreRLock, RestoreConn,
           BackupFails, RestoreFails, Return, Goto, TypeInv, ControlOK
      <4>6. ~BackupVersions(p) /\ ~RestoreVersions(p)
        BY <2>3, <3>4 DEF BackupVersions, RestoreVersions, BackupFails,
           RestoreFails, Return, Goto, TypeInv, ControlOK
      <4> QED BY <3>4, <4>1, <4>3, <4>4, <4>5, <4>6, ReaderSteps
    <3> QED BY <3>1, <3>2, <3>3, <3>4
  <2>4. ASSUME NEW q \in Procs, pc'[q] = "restore_attach"
        PROVE  schemas' \ attached' \subseteq {call'[q].schema}
    <3>1. CASE q # p
      BY <1>1, <2>1, <2>4, <3>1 DEF AttachInv
    <3>2. CASE q = p /\ Cancel(p)
      <4>1. call'[p].schema = call[p].schema
        BY <3>2 DEF Cancel, TypeInv, ControlOK, Calls
      <4> QED BY <2>1, <2>4, <3>2, <4>1 DEF Cancel, AttachInv
    <3>3. CASE q = p /\ RestoreDetach(p)
      BY <2>1, <3>3 DEF RestoreDetach, AttachInv
    <3>4. CASE q = p /\ ~Cancel(p) /\ ~RestoreDetach(p)
      <4>1. pc'[p] \in ReaderPCs /\ pc'[p] = "restore_attach"
        BY <2>4, <3>4 DEF ReaderPCs, RestorePCs
      <4>2. ~RestorePrepare(p) /\ ~RestorePublic(p) /\ ~RestoreAttach(p)
               /\ ~BackupPublic(p) /\ ~BackupNamed(p)
        BY <4>1, RestorePublicEffect, RestoreAttachEffect, BackupPublicEffect,
           BackupNamedEffect DEF RestorePrepare, RestoreFails, Return, Goto,
           TypeInv, ControlOK
      <4>3. ~BackupRLock(p) /\ ~BackupConn(p) /\ ~RestoreRLock(p) /\ ~RestoreConn(p)
        BY <4>1 DEF BackupRLock, BackupConn, RestoreRLock, RestoreConn,
           BackupFails, RestoreFails, Return, Goto, TypeInv, ControlOK
      <4>4. ~BackupVersions(p) /\ ~RestoreVersions(p)
        BY <4>1 DEF BackupVersions, RestoreVersions, BackupFails,
           RestoreFails, Return, Goto, TypeInv, ControlOK
      <4> QED BY <3>4, <4>1, <4>2, <4>3, <4>4, ReaderSteps
    <3> QED BY <3>1, <3>2, <3>3, <3>4
  <2>5. \A m, n \in schemas' \ attached' : m = n
    BY <2>1 DEF AttachInv
  <2> QED BY <2>2, <2>3, <2>4, <2>5 DEF AttachInv
<1> QED BY <1>3, <1>4, AttachedWrites

\* The attached schemas, together with the locks and snapshots of the calls.
AttachedInv == SnapshotInv /\ AttachInv

\* It holds of every reachable state.
LEMMA AttachedAlways == Spec => []AttachedInv
<1>1. Init => AttachedInv
  <2> SUFFICES ASSUME Init PROVE AttachedInv
    OBVIOUS
  <2>1. schemas = attached /\ \A p \in Procs : pc[p] = "idle"
    BY DEF Init
  <2> QED BY <2>1, SnapshotInit DEF AttachedInv, AttachInv
<1>2. AttachedInv /\ [Next]_vars => AttachedInv'
  <2> SUFFICES ASSUME AttachedInv, [Next]_vars PROVE AttachedInv'
    OBVIOUS
  <2>1. SnapshotInv'
    BY SnapshotStep DEF AttachedInv
  <2>2. CASE UNCHANGED vars
    BY <2>1, <2>2 DEF AttachedInv, AttachInv, vars, topo, engine
  <2>3. CASE Next
    BY <2>1, <2>3, AttachStep DEF Next, AttachedInv
  <2> QED BY <2>2, <2>3
<1> QED BY <1>1, <1>2, PTL DEF Spec

\* However often the engine fails in the middle of restores, at most one schema
\* is missing, and no Backup or Restore that has read the versions goes on
\* without it.
THEOREM FaultContainment == Spec => []FaultsAreContained
<1>1. AttachedInv => FaultsAreContained
  <2> SUFFICES ASSUME AttachedInv PROVE FaultsAreContained
    OBVIOUS
  <2>1. Cardinality(schemas \ attached) <= 1
    <3>1. CASE schemas \ attached = {}
      BY <3>1, FS_EmptySet
    <3>2. CASE schemas \ attached # {}
      <4>1. PICK n : schemas \ attached = {n}
        BY <3>2 DEF AttachedInv, AttachInv
      <4> QED BY <4>1, FS_Singleton
    <3> QED BY <3>1, <3>2
  <2> QED BY <2>1 DEF AttachedInv, AttachInv, FaultsAreContained
<1> QED BY <1>1, AttachedAlways, PTL

\* As long as the engine does not fail by itself, every published schema stays
\* attached, whatever is canceled, but for the instant of its own swap: Schema
\* handles stay valid across a Restore.
THEOREM HandlesStayAttached ==
    ASSUME ~EngineFaults
    PROVE  Spec => []PublishedIsAttached
<1>1. Init => PublishedIsAttached
  BY DEF Init, PublishedIsAttached
<1>2. AttachedInv /\ PublishedIsAttached /\ [Next]_vars => PublishedIsAttached'
  <2> SUFFICES ASSUME AttachedInv, PublishedIsAttached, [Next]_vars,
                      NEW s \in schemas', s \notin attached'
               PROVE  \E q \in Procs : pc'[q] = "restore_attach" /\ call'[q].schema = s
    BY DEF PublishedIsAttached
  <2>1. CASE UNCHANGED vars
    BY <2>1 DEF PublishedIsAttached, vars, topo, engine
  <2>2. CASE Next
    <3> USE DEF AttachedInv, SnapshotInv, LockInv
    <3>1. PICK p \in Procs : Invoke(p) \/ Cancel(p) \/ Step(p) \/ Finish(p)
      BY <2>2 DEF Next
    <3>2. CASE s \notin schemas
      <4>1. CreatePublish(p)
        BY <3>1, <3>2, TopologyWrites DEF topo, CloseSet, ClosePool
      <4> QED BY <3>2, <4>1 DEF CreatePublish, AttachInv, engine
    <3>3. CASE s \in schemas /\ s \in attached
      BY <3>1, <3>3, AttachedWrites
    <3>4. CASE s \in schemas /\ s \notin attached
      <4>1. PICK q \in Procs : pc[q] = "restore_attach" /\ call[q].schema = s
        BY <3>4 DEF PublishedIsAttached
      <4>2. CASE q # p
        BY <3>1, <4>1, <4>2, OthersKept
      <4>3. CASE q = p /\ Cancel(p)
        <5>1. call'[p].schema = call[p].schema
          BY <4>3 DEF Cancel, TypeInv, ControlOK, Calls
        <5> QED BY <4>1, <4>3, <5>1 DEF Cancel
      <4>4. CASE q = p /\ ~Cancel(p)
        <5>1. RestoreAttach(p)
          BY <3>1, <4>1, <4>4, AttachingSteps
        <5> QED BY <4>1, <4>4, <5>1 DEF RestoreAttach
      <4> QED BY <4>2, <4>3, <4>4
    <3> QED BY <3>2, <3>3, <3>4
  <2> QED BY <2>1, <2>2
<1> QED BY <1>1, <1>2, AttachedAlways, PTL DEF Spec

-----------------------------------------------------------------------------
(* schema_version of public *)

\* Contents d came from contents c with DDL, or c's definition still stands.
Later(c, d) ==
    c.version < d.version \/ (c.version = d.version /\ c.shape = d.shape)

\* Backup b recorded the version of the image it took of public, and what is
\* committed came from that image.
Kept(b) ==
    /\ backups[b].images[Public].version = backups[b].versions[Public]
    /\ Later(backups[b].images[Public], committed[Public])

\* public has the version Backup b recorded.
Current(b) == backups[b].versions[Public] = committed[Public].version

\* The version of public grows with every change of its definition: inside the
\* transaction that is open, and from every Backup to what is committed.
VersionInv ==
    /\ Public \in schemas
    /\ Later(committed[Public], live[Public])
    /\ \A b \in Taken : Kept(b) /\ (b \notin outdated => Current(b))
    /\ \A p \in Procs :
         pc[p] \in {"backup_public", "backup_named", "restore_prepare",
                   "restore_public"} => Current(call[p].backup)
    /\ \A p \in Procs : pc[p] = "backup_named" => Kept(call[p].backup)

\* Later is a preorder on contents.
LEMMA LaterTransitive ==
    ASSUME NEW c \in Contents, NEW d \in Contents, NEW e \in Contents,
           Later(c, d), Later(d, e)
    PROVE  Later(c, e) /\ Later(c, c)
BY DEF Later, Contents

\* A statement changes the definition of public with its version or not at all.
LEMMA OutcomesLater ==
    ASSUME SharedOK, NEW s, NEW after \in Outcomes(s)
    PROVE  Later(live[Public], after[Public])
<1>1. s \in Schemas /\ Public \in Schemas /\ live \in [Schemas -> Contents]
  BY OutcomesType DEF SharedOK, Schemas, Outcomes
<1>2. CASE \E r \in Rows : after = [live EXCEPT ![s].rows = r]
  BY <1>1, <1>2 DEF Later, Contents
<1>3. CASE \E h \in Shapes : after = [live EXCEPT ![s] =
              [rows |-> live[s].rows, shape |-> h, version |-> live[s].version + 1]]
  BY <1>1, <1>3 DEF Later, Contents
<1> QED BY <1>2, <1>3 DEF Outcomes

\* What changes contents: statements, commits, rollbacks, the restore of public,
\* and the steps that attach and detach named schemas, which leave public alone.
LEMMA EngineSteps ==
    ASSUME TypeInv, NEW p \in Procs,
           Invoke(p) \/ Cancel(p) \/ Step(p) \/ Finish(p)
    PROVE  \/ live'[Public] = live[Public] /\ committed'[Public] = committed[Public]
           \/ UNCHANGED committed /\ live' = committed
           \/ ExecRun(p) \/ ScriptStatement(p) \/ TxStatement(p)
           \/ ScriptCommit(p) \/ TxCommit(p) \/ RestorePublic(p)
<1> USE ConstantsAssumption DEF engine
<1>1. CASE InvokeStatement(p) \/ InvokeCreateSchema(p) \/ InvokeBackup(p)
           \/ InvokeRestore(p) \/ InvokeClose(p) \/ Cancel(p)
  BY <1>1 DEF InvokeStatement, InvokeCreateSchema, InvokeBackup,
    InvokeRestore, InvokeClose, Cancel
<1>2. CASE ExecCheck(p) \/ ExecRun(p) \/ CallbackCheck(p) \/ CallbackConn(p)
           \/ CallbackRegister(p) \/ ScriptCheck(p) \/ ScriptBegin(p)
           \/ ScriptStatement(p) \/ ScriptCommit(p) \/ ScriptAbort(p)
  BY <1>2 DEF ExecCheck, ExecRun, CallbackCheck, CallbackConn,
    CallbackRegister, ScriptCheck, ScriptBegin, ScriptStatement, ScriptCommit,
    ScriptAbort, Undo
<1>3. CASE BeginCheck(p) \/ BeginConn(p) \/ TxExec(p) \/ TxCheck(p)
           \/ TxStatement(p) \/ TxAbort(p) \/ TxCommit(p) \/ TxRollback(p)
  BY <1>3 DEF BeginCheck, BeginConn, TxExec, TxCheck, TxStatement, TxAbort,
    TxCommit, TxRollback, Undo
<1>4. CASE CreateTopology(p) \/ CreateCheck(p) \/ CreateLock(p)
           \/ CreatePublish(p)
  BY <1>4 DEF CreateTopology, CreateCheck, CreateLock, CreatePublish
<1>5. CASE CreateAttach(p)
  <2>1. call[p].schema \in Names
    BY <1>5 DEF CreateAttach, TypeInv, ControlOK, CreatePCs
  <2> QED BY <1>5, <2>1 DEF CreateAttach, TypeInv, SharedOK, Schemas
<1>6. CASE BackupTopology(p) \/ BackupRLock(p) \/ BackupConn(p)
           \/ BackupVersions(p) \/ BackupPublic(p) \/ BackupNamed(p)
           \/ BackupReturn(p)
  BY <1>6 DEF BackupTopology, BackupRLock, BackupConn, BackupVersions,
    BackupPublic, BackupNamed, BackupReturn, BackupFails
<1>7. CASE RestoreTopology(p) \/ RestoreRLock(p) \/ RestoreConn(p)
           \/ RestoreVersions(p) \/ RestorePrepare(p) \/ RestorePublic(p)
           \/ RestoreReturn(p)
  BY <1>7 DEF RestoreTopology, RestoreRLock, RestoreConn, RestoreVersions,
    RestorePrepare, RestorePublic, RestoreReturn, RestoreFails
<1>8. CASE RestoreDetach(p)
  <2>1. call[p].todo \subseteq Names
    BY DEF TypeInv, ControlOK, Calls
  <2> QED BY <1>8, <2>1 DEF RestoreDetach, RestoreFails, TypeInv, SharedOK, Schemas
<1>9. CASE RestoreAttach(p)
  <2>1. call[p].schema \in Names
    BY <1>9 DEF RestoreAttach, TypeInv, ControlOK
  <2> QED BY <1>9, <2>1 DEF RestoreAttach, RestoreFails, TypeInv, SharedOK, Schemas
<1>10. CASE CloseLock(p) \/ CloseSet(p) \/ ClosePool(p)
  BY <1>10 DEF CloseLock, CloseSet, ClosePool
<1> QED BY <1>1, <1>2, <1>3, <1>4, <1>5, <1>6, <1>7, <1>8, <1>9, <1>10
  DEF Invoke, Step, Finish

\* Every step but the one that restores public keeps the order of versions, and
\* remembers committed DDL in outdated.
LEMMA PublicWrites ==
    ASSUME LockInv, LockInv', Later(committed[Public], live[Public]), NEW p \in Procs,
           Invoke(p) \/ Cancel(p) \/ Step(p) \/ Finish(p),
           UNCHANGED <<live, committed>> \/ ~RestorePublic(p)
    PROVE  /\ Later(committed[Public], committed'[Public])
           /\ Later(committed'[Public], live'[Public])
           /\ committed'[Public].version # committed[Public].version => outdated' = Taken
<1> USE DEF LockInv
<1>1. SharedOK /\ SharedOK' /\ Public \in Schemas
  BY DEF TypeInv, Schemas
<1>2. live[Public] \in Contents /\ committed[Public] \in Contents
  BY <1>1 DEF SharedOK
<1>3. Later(committed[Public], committed[Public])
  BY <1>2 DEF Later
<1>4. \A after : after[Public].version # committed[Public].version =>
                   OutdatedBy(after) = Taken
  BY <1>1 DEF OutdatedBy
<1>5. CASE UNCHANGED <<live, committed>>
  BY <1>3, <1>5
<1>6. CASE ~UNCHANGED <<live, committed>>
  <2>1. CASE ExecRun(p)
    <3>1. PICK after \in Outcomes(call[p].schema) :
             live' = after /\ committed' = after /\ outdated' = OutdatedBy(after)
      BY <1>6, <2>1 DEF ExecRun
    <3>2. live = committed
      BY <1>6, <2>1, ConstantsAssumption DEF ExecRun, TransactionsArePinned, TypeInv, SharedOK
    <3>3. Later(live[Public], after[Public])
      BY <1>1, OutcomesLater
    <3>4. Later(live'[Public], live'[Public])
      BY <1>1 DEF Later, SharedOK, Contents
    <3> QED BY <1>4, <3>1, <3>2, <3>3, <3>4
  <2>2. CASE ScriptStatement(p) \/ TxStatement(p)
    <3>1. CASE UNCHANGED committed /\ \E after \in Outcomes(call[p].schema) : live' = after
      BY <1>1, <1>2, <1>3, <3>1, OutcomesLater, LaterTransitive DEF SharedOK
    <3>2. CASE UNCHANGED committed /\ live' = committed
      BY <1>3, <3>2
    <3> QED BY <1>6, <2>2, <3>1, <3>2 DEF ScriptStatement, TxStatement, Undo, engine
  <2>3. CASE ScriptCommit(p) \/ TxCommit(p)
    <3>1. CASE UNCHANGED live /\ committed' = live /\ outdated' = OutdatedBy(live)
      <4>1. Later(live[Public], live[Public])
        BY <1>2 DEF Later
      <4>2. live[Public].version # committed[Public].version => OutdatedBy(live) = Taken
        BY <1>4
      <4> QED BY <3>1, <4>1, <4>2
    <3>2. CASE UNCHANGED committed /\ live' = committed
      BY <1>3, <3>2
    <3> QED BY <2>3, <3>1, <3>2 DEF ScriptCommit, TxCommit, Undo
  <2>4. CASE UNCHANGED committed /\ live' = committed
    BY <1>3, <2>4
  <2>5. CASE live'[Public] = live[Public] /\ committed'[Public] = committed[Public]
    BY <1>3, <2>5
  <2> QED BY <1>6, <2>1, <2>2, <2>3, <2>4, <2>5, EngineSteps
<1> QED BY <1>5, <1>6

\* What a goroutine in a Backup can do.
LEMMA BackupSteps ==
    ASSUME TypeInv, NEW p \in Procs, pc[p] \in BackupPCs,
           Invoke(p) \/ Cancel(p) \/ Step(p) \/ Finish(p)
    PROVE  \/ BackupTopology(p) \/ BackupRLock(p) \/ BackupConn(p) \/ BackupVersions(p)
           \/ BackupPublic(p) \/ BackupNamed(p) \/ BackupReturn(p) \/ Cancel(p)
<1> USE DEF BackupPCs, OpenTxPCs
<1>1. CASE InvokeStatement(p) \/ InvokeCreateSchema(p) \/ InvokeBackup(p)
           \/ InvokeRestore(p) \/ InvokeClose(p) \/ Cancel(p)
  BY <1>1 DEF InvokeStatement, InvokeCreateSchema, InvokeBackup,
    InvokeRestore, InvokeClose, Cancel
<1>2. CASE ExecCheck(p) \/ ExecRun(p) \/ CallbackCheck(p) \/ CallbackConn(p)
           \/ CallbackRegister(p) \/ ScriptCheck(p) \/ ScriptBegin(p)
           \/ ScriptStatement(p) \/ ScriptCommit(p) \/ ScriptAbort(p)
  BY <1>2 DEF ExecCheck, ExecRun, CallbackCheck, CallbackConn,
    CallbackRegister, ScriptCheck, ScriptBegin, ScriptStatement, ScriptCommit,
    ScriptAbort, Undo
<1>3. CASE BeginCheck(p) \/ BeginConn(p) \/ TxExec(p) \/ TxCheck(p)
           \/ TxStatement(p) \/ TxAbort(p) \/ TxCommit(p) \/ TxRollback(p)
  BY <1>3 DEF BeginCheck, BeginConn, TxExec, TxCheck, TxStatement, TxAbort,
    TxCommit, TxRollback, Undo
<1>4. CASE CreateTopology(p) \/ CreateCheck(p) \/ CreateAttach(p)
           \/ CreateLock(p) \/ CreatePublish(p)
  BY <1>4 DEF CreateTopology, CreateCheck, CreateAttach, CreateLock,
    CreatePublish
<1>5. CASE BackupTopology(p) \/ BackupRLock(p) \/ BackupConn(p)
           \/ BackupVersions(p) \/ BackupPublic(p) \/ BackupNamed(p)
           \/ BackupReturn(p)
  BY <1>5 DEF BackupTopology, BackupRLock, BackupConn, BackupVersions,
    BackupPublic, BackupNamed, BackupReturn, BackupFails
<1>6. CASE RestoreTopology(p) \/ RestoreRLock(p) \/ RestoreConn(p)
           \/ RestoreVersions(p) \/ RestorePrepare(p) \/ RestorePublic(p)
           \/ RestoreDetach(p) \/ RestoreAttach(p) \/ RestoreReturn(p)
  BY <1>6 DEF RestoreTopology, RestoreRLock, RestoreConn, RestoreVersions,
    RestorePrepare, RestorePublic, RestoreDetach, RestoreAttach,
    RestoreReturn, RestoreFails
<1>7. CASE CloseLock(p) \/ CloseSet(p) \/ ClosePool(p)
  BY <1>7 DEF CloseLock, CloseSet, ClosePool
<1> QED BY <1>1, <1>2, <1>3, <1>4, <1>5, <1>6, <1>7
  DEF Invoke, Step, Finish

\* A Backup becomes a taken one when its own call returns.
LEMMA TakenOnReturn ==
    ASSUME TypeInv, BackupsOwned, NEW p \in Procs,
           Invoke(p) \/ Cancel(p) \/ Step(p) \/ Finish(p),
           NEW b \in BackupIds, backups[b].state # "taken", backups'[b].state = "taken"
    PROVE  BackupReturn(p) /\ b = call[p].backup
<1>1. /\ pc[p] \in BackupPCs => call[p].backup \in BackupIds
      /\ \A d \in BackupIds : backups[d] \in BackupRecords
      /\ FreeBackup.state = "free"
  BY DEF TypeInv, ControlOK, SharedOK, FreeBackup
<1>2. CASE UNCHANGED backups
  BY <1>2
<1>3. CASE \E d \in BackupIds : /\ backups[d].state = "free"
                                /\ backups' = [backups EXCEPT ![d].state = "building"]
  BY <1>1, <1>3 DEF TypeInv, SharedOK, BackupRecords
<1>4. CASE /\ pc[p] \in BackupPCs \cap TopologyPCs
           /\ \A d \in BackupIds \ {call[p].backup} : backups'[d] = backups[d]
  <2>1. b = call[p].backup /\ pc[p] \in BackupPCs
    BY <1>4
  <2>2. \A r : ~BackupFails(p, r)
    BY <1>1, <2>1 DEF BackupFails, TypeInv, SharedOK
  <2>3. \/ BackupTopology(p) \/ BackupRLock(p) \/ BackupConn(p) \/ BackupVersions(p)
        \/ BackupPublic(p) \/ BackupNamed(p) \/ BackupReturn(p) \/ Cancel(p)
    BY <2>1, BackupSteps
  <2>4. UNCHANGED backups \/ BackupVersions(p) \/ BackupPublic(p) \/ BackupNamed(p)
           \/ BackupReturn(p)
    BY <2>2, <2>3 DEF BackupTopology, BackupRLock, BackupConn, Cancel, saved
  <2>5. CASE BackupVersions(p)
    <3> DEFINE new == [backups[b] EXCEPT !.names = schemas,
                         !.versions = [s \in Schemas |-> IF s \in schemas
                                                         THEN live[s].version ELSE 0]]
    <3>1. backups' = [backups EXCEPT ![b] = new]
      BY <2>1, <2>2, <2>5 DEF BackupVersions
    <3>2. new.state = backups[b].state
      BY <1>1 DEF BackupRecords
    <3> HIDE DEF new
    <3> QED BY <3>1, <3>2 DEF TypeInv, SharedOK
  <2>6. CASE BackupPublic(p)
    BY <1>1, <2>1, <2>2, <2>6 DEF BackupPublic, TypeInv, SharedOK, BackupRecords
  <2>7. CASE BackupNamed(p)
    <3>1. PICK n \in call[p].todo :
             backups' = [backups EXCEPT ![b].images[n] = Vacuumed(live[n])]
      BY <2>1, <2>2, <2>7 DEF BackupNamed
    <3>2. backups'[b].state = backups[b].state
      BY <1>1, <3>1 DEF TypeInv, SharedOK, BackupRecords
    <3> QED BY <3>2
  <2> QED BY <2>1, <2>4, <2>5, <2>6, <2>7
<1> QED BY <1>2, <1>3, <1>4, BackupsWrites

\* No step takes a returned Backup off the history of DDL.
LEMMA OutdatedWrites ==
    ASSUME TypeInv, BackupsOwned, NEW p \in Procs,
           Invoke(p) \/ Cancel(p) \/ Step(p) \/ Finish(p)
    PROVE  outdated \cap Taken \subseteq outdated'
<1> USE DEF saved
<1>1. CASE InvokeStatement(p) \/ InvokeCreateSchema(p) \/ InvokeBackup(p)
           \/ InvokeRestore(p) \/ InvokeClose(p) \/ Cancel(p)
  BY <1>1 DEF InvokeStatement, InvokeCreateSchema, InvokeBackup,
    InvokeRestore, InvokeClose, Cancel, OutdatedBy
<1>2. CASE ExecCheck(p) \/ ExecRun(p) \/ CallbackCheck(p) \/ CallbackConn(p)
           \/ CallbackRegister(p) \/ ScriptCheck(p) \/ ScriptBegin(p)
           \/ ScriptStatement(p) \/ ScriptCommit(p) \/ ScriptAbort(p)
  BY <1>2 DEF ExecCheck, ExecRun, CallbackCheck, CallbackConn,
    CallbackRegister, ScriptCheck, ScriptBegin, ScriptStatement, ScriptCommit,
    ScriptAbort, Undo, OutdatedBy
<1>3. CASE BeginCheck(p) \/ BeginConn(p) \/ TxExec(p) \/ TxCheck(p)
           \/ TxStatement(p) \/ TxAbort(p) \/ TxCommit(p) \/ TxRollback(p)
  BY <1>3 DEF BeginCheck, BeginConn, TxExec, TxCheck, TxStatement, TxAbort,
    TxCommit, TxRollback, Undo, OutdatedBy
<1>4. CASE CreateTopology(p) \/ CreateCheck(p) \/ CreateAttach(p)
           \/ CreateLock(p) \/ CreatePublish(p)
  BY <1>4 DEF CreateTopology, CreateCheck, CreateAttach, CreateLock,
    CreatePublish, OutdatedBy
<1>5. CASE BackupTopology(p) \/ BackupRLock(p) \/ BackupConn(p)
           \/ BackupVersions(p) \/ BackupPublic(p) \/ BackupNamed(p)
  BY <1>5 DEF BackupTopology, BackupRLock, BackupConn, BackupVersions,
    BackupPublic, BackupNamed, BackupFails, OutdatedBy
<1>6. CASE BackupReturn(p)
  <2>1. backups[call[p].backup].state = "building"
    BY <1>6 DEF BackupReturn, BackupsOwned, BackupPCs
  <2> QED BY <1>6, <2>1 DEF BackupReturn, Taken
<1>7. CASE RestoreTopology(p) \/ RestoreRLock(p) \/ RestoreConn(p)
           \/ RestoreVersions(p) \/ RestorePrepare(p) \/ RestorePublic(p)
           \/ RestoreDetach(p) \/ RestoreAttach(p) \/ RestoreReturn(p)
  BY <1>7 DEF RestoreTopology, RestoreRLock, RestoreConn, RestoreVersions,
    RestorePrepare, RestorePublic, RestoreDetach, RestoreAttach,
    RestoreReturn, RestoreFails, OutdatedBy
<1>8. CASE CloseLock(p) \/ CloseSet(p) \/ ClosePool(p)
  BY <1>8 DEF CloseLock, CloseSet, ClosePool, OutdatedBy
<1> QED BY <1>1, <1>2, <1>3, <1>4, <1>5, <1>6, <1>7, <1>8
  DEF Invoke, Step, Finish

\* Backup and Restore visit named schemas in todo.
LEMMA NamedTodo ==
    ASSUME TypeInv, NEW p \in Procs, NEW n \in call[p].todo
    PROVE  n # Public
BY ConstantsAssumption DEF TypeInv, ControlOK, Calls

\* Backup reads the versions and copies public under the connection; Restore goes
\* on when the versions still agree.
LEMMA OwnVersions ==
    ASSUME SnapshotInv, VersionInv, NEW p \in Procs,
           Invoke(p) \/ Cancel(p) \/ Step(p) \/ Finish(p),
           pc'[p] \in {"backup_public", "backup_named", "restore_prepare",
                      "restore_public"}
    PROVE  LET b == call'[p].backup IN
           /\ backups'[b].versions[Public] = committed'[Public].version
           /\ pc'[p] = "backup_named" =>
                /\ backups'[b].images[Public].version = backups'[b].versions[Public]
                /\ Later(backups'[b].images[Public], committed'[Public])
<1> DEFINE b == call'[p].backup
<1> USE DEF SnapshotInv, LockInv
<1>1. pc'[p] \in ReaderPCs /\ pc'[p] # "idle"
  BY DEF ReaderPCs, BackupPCs, RestorePCs
<1>2. /\ Public \in Schemas /\ Public \in schemas
      /\ committed \in [Schemas -> Contents]
      /\ \A d \in BackupIds : /\ backups[d].images \in [Schemas -> Contents]
                              /\ backups[d].versions \in [Schemas -> Nat]
      /\ pc[p] \in BackupPCs \cup RestorePCs => call[p].backup \in BackupIds
  BY DEF Schemas, TypeInv, SharedOK, BackupRecords, ControlOK, VersionInv
<1>3. committed[Public] \in Contents
  BY <1>2
<1>4. CASE Cancel(p)
  <2>1. call'[p].backup = call[p].backup /\ UNCHANGED <<pc, backups, committed>>
    BY <1>4 DEF Cancel, TypeInv, ControlOK, Calls, engine, saved
  <2> QED BY <2>1 DEF VersionInv, Kept, Current
<1>5. CASE BackupVersions(p)
  <2>1. /\ pc[p] = "backup_versions" /\ pc'[p] = "backup_public"
        /\ call'[p] = call[p] /\ UNCHANGED <<topo, live, committed>>
        /\ backups'[b].versions =
             [s \in Schemas |-> IF s \in schemas THEN live[s].version ELSE 0]
    BY <1>1, <1>5, BackupVersionsEffect
  <2>2. live = committed
    BY <2>1, SnapshotSeesCommitted DEF SnapshotPCs, ReaderPCs, BackupPCs
  <2> QED BY <1>2, <2>1, <2>2
<1>6. CASE BackupPublic(p)
  <2>1. /\ pc[p] = "backup_public" /\ pc'[p] = "backup_named"
        /\ b = call[p].backup /\ UNCHANGED <<live, committed>>
        /\ backups'[b].versions = backups[b].versions
        /\ backups'[b].images = [backups[b].images EXCEPT ![Public] = live[Public]]
    BY <1>1, <1>6, BackupPublicEffect
  <2>2. live = committed
    BY <2>1, SnapshotSeesCommitted DEF SnapshotPCs, ReaderPCs, BackupPCs
  <2>3. Current(b)
    BY <2>1 DEF VersionInv
  <2>4. backups'[b].images[Public] = committed[Public]
    BY <1>2, <2>1, <2>2 DEF BackupPCs
  <2> QED BY <1>3, <2>1, <2>3, <2>4 DEF Current, Later
<1>7. CASE BackupNamed(p)
  <2>1. PICK n \in call[p].todo :
          /\ pc[p] = "backup_named" /\ pc'[p] = "backup_named"
          /\ b = call[p].backup /\ UNCHANGED <<topo, live, committed>>
          /\ backups'[b].versions = backups[b].versions
          /\ backups'[b].images = [backups[b].images EXCEPT ![n] = Vacuumed(live[n])]
    <3> DEFINE d == call[p].backup
    <3>1. \E n \in call[p].todo :
            /\ pc[p] = "backup_named" /\ pc'[p] = "backup_named"
            /\ call'[p].backup = d /\ call'[p].todo = call[p].todo \ {n}
            /\ UNCHANGED <<topo, live, committed>>
            /\ backups'[d].names = backups[d].names
            /\ backups'[d].versions = backups[d].versions
            /\ backups'[d].images = [backups[d].images EXCEPT ![n] = Vacuumed(live[n])]
      BY <1>1, <1>7, BackupNamedEffect, Zenon
    <3> QED BY <3>1
  <2>2. n # Public
    BY <2>1, NamedTodo
  <2>3. backups'[b].images[Public] = backups[b].images[Public]
    BY <1>2, <2>1, <2>2 DEF BackupPCs
  <2> QED BY <2>1, <2>3 DEF VersionInv, Kept, Current
<1>8. CASE RestoreVersions(p)
  <2>1. /\ pc[p] = "restore_versions" /\ pc'[p] = "restore_prepare"
        /\ UNCHANGED <<call, backups, committed>> /\ SameVersions(call[p].backup)
    BY <1>1, <1>8 DEF RestoreVersions, RestoreFails, Return, Goto, TypeInv, ControlOK,
       engine, saved
  <2>2. live = committed
    BY <2>1, SnapshotSeesCommitted DEF SnapshotPCs, ReaderPCs, RestorePCs
  <2> QED BY <1>2, <2>1, <2>2 DEF SameVersions
<1>9. CASE RestorePrepare(p)
  <2>1. /\ pc[p] = "restore_prepare" /\ pc'[p] = "restore_public"
        /\ UNCHANGED <<call, backups, committed>>
    BY <1>1, <1>9 DEF RestorePrepare, RestoreFails, Return, Goto, TypeInv, ControlOK,
       engine, saved
  <2> QED BY <2>1 DEF VersionInv, Current
<1>10. ~RestorePublic(p) /\ ~RestoreDetach(p) /\ ~RestoreAttach(p)
  BY <1>1, RestorePublicEffect, RestoreDetachEffect, RestoreAttachEffect
<1>11. ~BackupRLock(p) /\ ~BackupConn(p) /\ ~RestoreRLock(p) /\ ~RestoreConn(p)
  BY DEF BackupRLock, BackupConn, RestoreRLock, RestoreConn,
     BackupFails, RestoreFails, Return, Goto, TypeInv, ControlOK
<1> QED BY <1>1, <1>4, <1>5, <1>6, <1>7, <1>8, <1>9, <1>10, <1>11, ReaderSteps

\* Every step keeps the versions in order.
LEMMA VersionStep ==
    ASSUME SnapshotInv, SnapshotInv', VersionInv, NEW p \in Procs,
           Invoke(p) \/ Cancel(p) \/ Step(p) \/ Finish(p)
    PROVE  VersionInv'
<1> USE DEF SnapshotInv, LockInv
<1>1. \A q \in Procs \ {p} : pc'[q] = pc[q] /\ call'[q] = call[q]
  BY OthersKept
<1>2. /\ Public \in Schemas /\ committed \in [Schemas -> Contents]
      /\ committed' \in [Schemas -> Contents] /\ live' \in [Schemas -> Contents]
      /\ \A b \in BackupIds : backups[b].images[Public] \in Contents
  BY DEF Schemas, TypeInv, SharedOK, BackupRecords
<1>3. Public \in schemas'
  BY TopologyWrites DEF topo, CreatePublish, CloseSet, ClosePool, VersionInv
<1>4. /\ Later(committed[Public], committed'[Public])
      /\ Later(committed'[Public], live'[Public])
      /\ committed'[Public].version # committed[Public].version => outdated' = Taken
  <2>1. CASE RestorePublic(p) /\ ~UNCHANGED <<live, committed>>
    <3> DEFINE b == call[p].backup
    <3>1. /\ pc[p] = "restore_public"
          /\ live' = [live EXCEPT ![Public] = backups[b].images[Public]]
          /\ committed' = [committed EXCEPT ![Public] = backups[b].images[Public]]
      BY <2>1 DEF RestorePublic
    <3>2. live = committed
      BY <3>1, SnapshotSeesCommitted DEF SnapshotPCs, ReaderPCs, RestorePCs
    <3>3. b \in Taken
      BY <3>1 DEF BackupsOwned, TypeInv, ControlOK, RestorePCs, Taken
    <3>4. Kept(b) /\ Current(b)
      BY <3>1, <3>3 DEF VersionInv
    <3>5. committed'[Public] = backups[b].images[Public]
             /\ live'[Public] = committed'[Public]
      BY <1>2, <3>1, <3>2
    <3>6. backups[b].images[Public].version \in Nat /\ committed[Public].version \in Nat
      BY <1>2, <3>3 DEF Taken, Contents
    <3> QED BY <3>4, <3>5, <3>6 DEF Kept, Current, Later
  <2>2. CASE ~RestorePublic(p) \/ UNCHANGED <<live, committed>>
    BY <2>2, PublicWrites DEF VersionInv
  <2> QED BY <2>1, <2>2
<1>5. ASSUME NEW q \in Procs, q # p, pc[q] \in SnapshotPCs
      PROVE  /\ UNCHANGED <<live, committed>>
             /\ \A b \in BackupIds : /\ backups'[b].versions = backups[b].versions
                                     /\ backups'[b].images = backups[b].images
  BY <1>5, ReaderFrame DEF SnapshotPCs
<1>6. ASSUME NEW q \in Procs,
             pc'[q] \in {"backup_public", "backup_named", "restore_prepare",
                        "restore_public"}
      PROVE  /\ backups'[call'[q].backup].versions[Public] = committed'[Public].version
             /\ pc'[q] = "backup_named" =>
                  /\ backups'[call'[q].backup].images[Public].version =
                       backups'[call'[q].backup].versions[Public]
                  /\ Later(backups'[call'[q].backup].images[Public], committed'[Public])
  <2>1. CASE q # p
    <3>1. pc'[q] = pc[q] /\ call'[q] = call[q] /\ pc[q] \in SnapshotPCs
             /\ call[q].backup \in BackupIds
      BY <1>1, <1>6, <2>1
         DEF SnapshotPCs, ReaderPCs, BackupPCs, RestorePCs, TypeInv, ControlOK
    <3> QED BY <1>5, <1>6, <2>1, <3>1 DEF VersionInv, Kept, Current
  <2>2. CASE q = p
    BY <1>2, <1>6, <2>2, OwnVersions DEF Later
  <2> QED BY <2>1, <2>2
<1>7. ASSUME NEW b \in BackupIds, backups'[b].state = "taken"
      PROVE  /\ backups'[b].images[Public].version = backups'[b].versions[Public]
             /\ Later(backups'[b].images[Public], committed'[Public])
             /\ b \notin outdated' =>
                  backups'[b].versions[Public] = committed'[Public].version
  <2>1. CASE backups[b].state = "taken"
    <3>1. backups'[b] = backups[b] /\ b \in Taken /\ Kept(b)
             /\ (b \notin outdated => Current(b))
      BY <2>1, TakenKept DEF Next, Taken, VersionInv
    <3>2. b \notin outdated' => b \notin outdated
      BY <3>1, OutdatedWrites
    <3>3. Later(backups[b].images[Public], committed'[Public])
      BY <1>2, <1>4, <3>1, LaterTransitive DEF Kept
    <3> QED BY <1>4, <3>1, <3>2, <3>3 DEF Kept, Current
  <2>2. CASE backups[b].state # "taken"
    <3>1. BackupReturn(p) /\ b = call[p].backup
      BY <1>7, <2>2, TakenOnReturn
    <3>2. pc[p] = "backup_named" /\ UNCHANGED committed
             /\ backups' = [backups EXCEPT ![b].state = "taken"]
      BY <3>1 DEF BackupReturn, engine
    <3>3. Kept(b) /\ Current(b)
      BY <3>1, <3>2 DEF VersionInv
    <3>4. /\ backups'[b].versions = backups[b].versions
          /\ backups'[b].images = backups[b].images
      BY <3>2 DEF TypeInv, SharedOK, BackupRecords
    <3> QED BY <3>2, <3>3, <3>4 DEF Kept, Current
  <2> QED BY <2>1, <2>2
<1> QED BY <1>3, <1>4, <1>6, <1>7 DEF VersionInv, Kept, Current, Later, Taken

\* A goroutine about to compare the versions does so.
LEMMA VersionsSteps ==
    ASSUME TypeInv, NEW p \in Procs, pc[p] = "restore_versions", pc'[p] # pc[p],
           Invoke(p) \/ Cancel(p) \/ Step(p) \/ Finish(p)
    PROVE  RestoreVersions(p)
<1> USE DEF OpenTxPCs
<1>1. CASE InvokeStatement(p) \/ InvokeCreateSchema(p) \/ InvokeBackup(p)
           \/ InvokeRestore(p) \/ InvokeClose(p) \/ Cancel(p)
  BY <1>1 DEF InvokeStatement, InvokeCreateSchema, InvokeBackup,
    InvokeRestore, InvokeClose, Cancel
<1>2. CASE ExecCheck(p) \/ ExecRun(p) \/ CallbackCheck(p) \/ CallbackConn(p)
           \/ CallbackRegister(p) \/ ScriptCheck(p) \/ ScriptBegin(p)
           \/ ScriptStatement(p) \/ ScriptCommit(p) \/ ScriptAbort(p)
  BY <1>2 DEF ExecCheck, ExecRun, CallbackCheck, CallbackConn,
    CallbackRegister, ScriptCheck, ScriptBegin, ScriptStatement, ScriptCommit,
    ScriptAbort, Undo
<1>3. CASE BeginCheck(p) \/ BeginConn(p) \/ TxExec(p) \/ TxCheck(p)
           \/ TxStatement(p) \/ TxAbort(p) \/ TxCommit(p) \/ TxRollback(p)
  BY <1>3 DEF BeginCheck, BeginConn, TxExec, TxCheck, TxStatement, TxAbort,
    TxCommit, TxRollback, Undo
<1>4. CASE CreateTopology(p) \/ CreateCheck(p) \/ CreateAttach(p)
           \/ CreateLock(p) \/ CreatePublish(p)
  BY <1>4 DEF CreateTopology, CreateCheck, CreateAttach, CreateLock,
    CreatePublish
<1>5. CASE BackupTopology(p) \/ BackupRLock(p) \/ BackupConn(p)
           \/ BackupVersions(p) \/ BackupPublic(p) \/ BackupNamed(p)
           \/ BackupReturn(p)
  BY <1>5 DEF BackupTopology, BackupRLock, BackupConn, BackupVersions,
    BackupPublic, BackupNamed, BackupReturn, BackupFails
<1>6. CASE RestoreTopology(p) \/ RestoreRLock(p) \/ RestoreConn(p)
           \/ RestoreVersions(p) \/ RestorePrepare(p) \/ RestorePublic(p)
           \/ RestoreDetach(p) \/ RestoreAttach(p) \/ RestoreReturn(p)
  BY <1>6 DEF RestoreTopology, RestoreRLock, RestoreConn, RestoreVersions,
    RestorePrepare, RestorePublic, RestoreDetach, RestoreAttach,
    RestoreReturn, RestoreFails
<1>7. CASE CloseLock(p) \/ CloseSet(p) \/ ClosePool(p)
  BY <1>7 DEF CloseLock, CloseSet, ClosePool
<1> QED BY <1>1, <1>2, <1>3, <1>4, <1>5, <1>6, <1>7
  DEF Invoke, Step, Finish

\* The inductive invariant of the versions.
PublicInv == SnapshotInv /\ VersionInv

\* It holds initially, ...
LEMMA PublicInit == Init => PublicInv
<1> SUFFICES ASSUME Init PROVE PublicInv
  OBVIOUS
<1>1. /\ Public \in schemas /\ Public \in Schemas /\ live = committed
      /\ \A p \in Procs : pc[p] = "idle"
      /\ \A b \in BackupIds : backups[b].state = "free"
  BY DEF Init, FreeBackup, Schemas
<1>2. Later(committed[Public], live[Public])
  BY <1>1 DEF Later
<1>3. SnapshotInv
  BY SnapshotInit
<1> QED BY <1>1, <1>2, <1>3 DEF PublicInv, VersionInv, Taken

\* ... every step keeps it, ...
LEMMA PublicStep == PublicInv /\ [Next]_vars => PublicInv'
<1> SUFFICES ASSUME PublicInv, [Next]_vars PROVE PublicInv'
  OBVIOUS
<1>1. SnapshotInv'
  BY SnapshotStep DEF PublicInv
<1>2. CASE UNCHANGED vars
  BY <1>1, <1>2 DEF PublicInv, VersionInv, Kept, Current, Later, Taken, vars, topo,
     engine, saved
<1>3. CASE Next
  BY <1>1, <1>3, VersionStep DEF Next, PublicInv
<1> QED BY <1>2, <1>3

\* ... so it holds of every reachable state.
LEMMA PublicAlways == Spec => []PublicInv
BY PublicInit, PublicStep, PTL DEF Spec

\* A Restore that accepts the versions finds public with the very definition it
\* is about to put back, whatever DDL ran, was rolled back or was itself restored
\* since the Backup.
THEOREM DefinitionKept == Spec => []PublicDefinitionKept
<1>1. PublicInv => PublicDefinitionKept
  <2> SUFFICES ASSUME PublicInv, NEW p \in Procs,
                      pc[p] \in {"restore_prepare", "restore_public"}
               PROVE  live[Public].shape = backups[call[p].backup].images[Public].shape
    BY DEF PublicDefinitionKept
  <2> DEFINE b == call[p].backup
  <2>1. b \in Taken
    BY DEF PublicInv, SnapshotInv, LockInv, BackupsOwned, TypeInv, ControlOK, RestorePCs,
       Taken
  <2>2. Kept(b) /\ Current(b)
    BY <2>1 DEF PublicInv, VersionInv
  <2>3. live = committed
    BY SnapshotSeesCommitted
       DEF PublicInv, SnapshotInv, SnapshotPCs, ReaderPCs, RestorePCs
  <2>4. committed[Public].version \in Nat
    BY DEF PublicInv, SnapshotInv, LockInv, TypeInv, SharedOK, Schemas, Contents
  <2> QED BY <2>2, <2>3, <2>4 DEF Kept, Current, Later
<1> QED BY <1>1, PublicAlways, PTL

\* A Restore that finds the named schemas as the Backup left them is refused only
\* after DDL or a new schema: restoring public does not itself spoil the Backup.
THEOREM PublicRepeatable == Spec => PublicIsRepeatable
<1>1. ASSUME PublicInv, [Next]_vars, NEW p \in Procs,
             pc[p] = "restore_versions", pc'[p] = "idle", call'[p].result = "changed",
             \A n \in schemas \ {Public} :
                 live[n].version = backups[call[p].backup].versions[n]
      PROVE  call[p].backup \in outdated
  <2> DEFINE b == call[p].backup
  <2> USE DEF PublicInv, SnapshotInv, LockInv
  <2>1. pc'[p] # pc[p] /\ Next
    BY <1>1 DEF vars
  <2>2. PICK q \in Procs : Invoke(q) \/ Cancel(q) \/ Step(q) \/ Finish(q)
    BY <2>1 DEF Next
  <2>3. q = p
    BY <1>1, <2>1, <2>2, OthersKept
  <2>4. RestoreVersions(p)
    BY <1>1, <2>1, <2>2, <2>3, VersionsSteps
  <2>5. ~SameVersions(b)
    <3>1. \A r \in {"canceled", "error"} : ~RestoreFails(p, r)
      BY <1>1 DEF RestoreFails, Return, IdleCall, TypeInv, ControlOK
    <3>2. ~Goto(p, "restore_prepare")
      BY <1>1 DEF Goto, TypeInv, ControlOK
    <3> QED BY <2>4, <3>1, <3>2 DEF RestoreVersions, Refusal
  <2>6. live[Public].version # backups[b].versions[Public]
    BY <1>1, <2>5 DEF SameVersions
  <2>7. live = committed
    BY <1>1, SnapshotSeesCommitted DEF SnapshotPCs, ReaderPCs, RestorePCs
  <2>8. b \in Taken
    BY <1>1 DEF BackupsOwned, TypeInv, ControlOK, RestorePCs, Taken
  <2> QED BY <1>1, <2>6, <2>7, <2>8 DEF VersionInv, Current
<1>2. PublicInv /\ [Next]_vars =>
        [\A p \in Procs :
           (/\ pc[p] = "restore_versions" /\ pc'[p] = "idle"
            /\ call'[p].result = "changed"
            /\ \A n \in schemas \ {Public} :
                 live[n].version = backups[call[p].backup].versions[n])
             => call[p].backup \in outdated]_vars
  BY <1>1
<1> QED BY <1>2, PublicAlways, PTL DEF Spec, PublicIsRepeatable

-----------------------------------------------------------------------------
(* The memory of the public images *)

\* Backup b has its image of public: it was returned, or goes on with the named
\* schemas.
Filled(b) ==
    \/ b \in Taken
    \/ \E p \in Procs : pc[p] = "backup_named" /\ call[p].backup = b

\* The engine and the Backups keep public in buffers of their own, and each
\* buffer holds what it should.
MemoryInv ==
    /\ main \in Buffers
    /\ heap \in [Buffers -> Contents]
    /\ slice \in [BackupIds -> Buffers \cup {None}]
    /\ heap[main] = live[Public]
    /\ \A b \in BackupIds : slice[b] # main
    /\ \A b \in BackupIds : Filled(b) =>
         slice[b] \in Buffers /\ heap[slice[b]] = backups[b].images[Public]

\* No step but the serialization changes or begins an image of public.
LEMMA PublicImageKept ==
    ASSUME SnapshotInv, SnapshotInv', NEW p \in Procs,
           Invoke(p) \/ Cancel(p) \/ Step(p) \/ Finish(p),
           NEW b \in BackupIds, Filled(b)'
    PROVE  \/ Filled(b) /\ backups'[b].images[Public] = backups[b].images[Public]
           \/ /\ BackupPublic(p) /\ pc'[p] = "backup_named"
              /\ b = call[p].backup
<1> USE DEF SnapshotInv, LockInv
<1>1. CASE b \in Taken
  BY <1>1, TakenKept DEF Taken, Filled, Next
<1>2. CASE b \in Taken' /\ b \notin Taken
  <2>1. BackupReturn(p) /\ b = call[p].backup
    BY <1>2, TakenOnReturn DEF Taken
  <2>2. pc[p] = "backup_named" /\ backups' = [backups EXCEPT ![b].state = "taken"]
    BY <2>1 DEF BackupReturn
  <2>3. backups'[b].images = backups[b].images
    BY <2>2 DEF TypeInv, SharedOK, BackupRecords
  <2> QED BY <2>1, <2>2, <2>3 DEF Filled
<1>3. ASSUME NEW q \in Procs, pc'[q] = "backup_named", call'[q].backup = b
      PROVE  \/ Filled(b) /\ backups'[b].images[Public] = backups[b].images[Public]
             \/ /\ BackupPublic(p) /\ pc'[p] = "backup_named"
                /\ b = call[p].backup
  <2>1. CASE q # p
    <3>1. pc[q] = "backup_named" /\ call[q].backup = b
      BY <1>3, <2>1, OthersKept
    <3>2. backups'[b].images = backups[b].images
      BY <2>1, <3>1, ReaderFrame DEF ReaderPCs, BackupPCs
    <3> QED BY <3>1, <3>2 DEF Filled
  <2>2. CASE q = p
    <3>1. pc'[p] \in ReaderPCs /\ pc'[p] # "idle"
      BY <1>3, <2>2 DEF ReaderPCs, BackupPCs
    <3>2. CASE Cancel(p)
      <4>1. call'[p].backup = call[p].backup /\ UNCHANGED <<pc, backups>>
        BY <3>2 DEF Cancel, TypeInv, ControlOK, Calls, saved
      <4> QED BY <1>3, <2>2, <4>1 DEF Filled
    <3>3. CASE BackupPublic(p)
      BY <1>3, <2>2, <3>1, <3>3, BackupPublicEffect
    <3>4. CASE BackupNamed(p)
      <4>1. PICK n \in call[p].todo :
              /\ pc[p] = "backup_named" /\ call'[p].backup = call[p].backup
              /\ backups'[call[p].backup].images =
                   [backups[call[p].backup].images EXCEPT ![n] = Vacuumed(live[n])]
        BY <3>1, <3>4, BackupNamedEffect
      <4>2. n # Public
        BY <4>1, NamedTodo
      <4>3. backups[b].images \in [Schemas -> Contents]
        BY DEF TypeInv, SharedOK, BackupRecords
      <4> QED BY <1>3, <2>2, <4>1, <4>2, <4>3 DEF Filled, Schemas
    <3>5. ~(BackupRLock(p) \/ BackupConn(p) \/ BackupVersions(p) \/ RestoreRLock(p)
            \/ RestoreConn(p) \/ RestoreVersions(p) \/ RestorePrepare(p))
      BY <1>3, <2>2 DEF BackupRLock, BackupConn, BackupVersions, RestoreRLock,
         RestoreConn, RestoreVersions, RestorePrepare, BackupFails, RestoreFails,
         Return, Goto, TypeInv, ControlOK
    <3>6. ~RestorePublic(p) /\ ~RestoreDetach(p) /\ ~RestoreAttach(p)
      BY <1>3, <2>2, <3>1, RestorePublicEffect, RestoreDetachEffect, RestoreAttachEffect
    <3> QED BY <3>1, <3>2, <3>3, <3>4, <3>5, <3>6, ReaderSteps
  <2> QED BY <2>1, <2>2
<1> QED BY <1>1, <1>2, <1>3 DEF Filled

\* A step of Others does not serialize.
LEMMA OthersSerializeNothing ==
    ASSUME TypeInv, NEW p \in Procs, Others(p)
    PROVE  ~(BackupPublic(p) /\ pc'[p] = "backup_named")
<1>1. ASSUME pc[p] = "backup_public", Invoke(p) \/ Finish(p) \/ Cancel(p)
      PROVE  pc'[p] # "backup_named"
  BY <1>1 DEF Invoke, Finish, InvokeStatement, InvokeCreateSchema, InvokeBackup,
     InvokeRestore, InvokeClose, ScriptCommit, ScriptAbort, TxCommit, TxRollback, Cancel
<1> QED BY <1>1 DEF Others, BackupPublic

\* Every step keeps the buffers apart.
LEMMA MemoryStep ==
    ASSUME SnapshotInv, SnapshotInv', MemoryInv, MemoryNext
    PROVE  MemoryInv'
<1>1. PICK p \in Procs : Serializes(p) \/ Deserializes(p) \/ Others(p)
  BY DEF MemoryNext
<1>2. Invoke(p) \/ Cancel(p) \/ Step(p) \/ Finish(p)
  BY <1>1 DEF Serializes, Deserializes, Others, Step
<1>3. /\ Public \in Schemas /\ TypeInv
      /\ live \in [Schemas -> Contents] /\ live' \in [Schemas -> Contents]
      /\ \A b \in BackupIds : backups[b].images \in [Schemas -> Contents]
  BY DEF Schemas, SnapshotInv, LockInv, TypeInv, SharedOK, BackupRecords
<1> DEFINE b == call[p].backup
<1>4. CASE Serializes(p) /\ pc'[p] = "backup_named"
  <2>1. /\ b \in BackupIds /\ UNCHANGED live
        /\ backups'[b].images[Public] = live[Public]
    <3>1. pc[p] = "backup_public" /\ pc'[p] # "idle" /\ BackupPublic(p)
      BY <1>4 DEF Serializes, BackupPublic
    <3>2. b \in BackupIds
      BY <1>3, <3>1 DEF TypeInv, ControlOK, BackupPCs
    <3> QED BY <1>3, <3>1, <3>2, BackupPublicEffect
  <2>2. PICK copy \in Buffers : /\ cloneBytes(main, copy)
                                /\ slice' = [slice EXCEPT ![b] = copy]
                                /\ main' = main
    BY <1>4 DEF Serializes, serializeConnection
  <2>3. copy # main /\ \A d \in BackupIds : copy # slice[d]
    BY <2>2 DEF cloneBytes, Unused
  <2>4. /\ heap' \in [Buffers -> Contents] /\ heap'[copy] = live[Public]
        /\ \A m \in Buffers \ {copy} : heap'[m] = heap[m]
    BY <2>2 DEF cloneBytes, MemoryInv
  <2>5. /\ slice'[b] = copy /\ slice' \in [BackupIds -> Buffers \cup {None}]
        /\ \A d \in BackupIds \ {b} : slice'[d] = slice[d]
    BY <2>1, <2>2 DEF MemoryInv
  <2>6. ASSUME NEW d \in BackupIds \ {b}, Filled(d)'
        PROVE  /\ slice'[d] \in Buffers
               /\ heap'[slice'[d]] = backups'[d].images[Public]
    <3>1. Filled(d) /\ backups'[d].images[Public] = backups[d].images[Public]
      BY <1>2, <2>6, PublicImageKept
    <3> QED BY <2>3, <2>4, <2>5, <3>1 DEF MemoryInv
  <2> HIDE DEF b
  <2> QED BY <2>1, <2>2, <2>3, <2>4, <2>5, <2>6 DEF MemoryInv
<1>5. CASE Deserializes(p) /\ pc'[p] = "restore_named"
  <2>1. /\ b \in BackupIds /\ Filled(b) /\ UNCHANGED backups
        /\ live'[Public] = backups[b].images[Public]
    <3>1. pc[p] = "restore_public" /\ pc'[p] # "idle" /\ RestorePublic(p)
      BY <1>5 DEF Deserializes, RestorePublic
    <3>2. b \in BackupIds /\ b \in Taken
      BY <1>3, <3>1 DEF TypeInv, ControlOK, RestorePCs, SnapshotInv, BackupsOwned, Taken
    <3> QED BY <1>3, <3>1, <3>2, RestorePublicEffect DEF Filled, saved
  <2>2. PICK copy \in Buffers : cloneBytes(slice[b], copy) /\ main' = copy
    BY <1>5 DEF Deserializes, deserializeConnection
  <2>3. slice' = slice /\ \A d \in BackupIds : copy # slice[d]
    BY <1>5, <2>2 DEF Deserializes, deserializeConnection, cloneBytes, Unused
  <2>4. slice[b] \in Buffers /\ heap[slice[b]] = backups[b].images[Public]
    BY <2>1 DEF MemoryInv
  <2>5. /\ heap' \in [Buffers -> Contents] /\ heap'[copy] = live'[Public]
        /\ \A m \in Buffers \ {copy} : heap'[m] = heap[m]
    BY <2>1, <2>2, <2>4 DEF cloneBytes, MemoryInv
  <2>6. ASSUME NEW d \in BackupIds, Filled(d)'
        PROVE  /\ slice'[d] \in Buffers
               /\ heap'[slice'[d]] = backups'[d].images[Public]
    <3>1. Filled(d) /\ backups'[d].images[Public] = backups[d].images[Public]
      <4>1. ~BackupPublic(p)
        BY <1>5 DEF Deserializes, RestorePublic, BackupPublic
      <4> QED BY <1>2, <2>6, <4>1, PublicImageKept
    <3> QED BY <2>3, <2>5, <3>1 DEF MemoryInv
  <2> HIDE DEF b
  <2> QED BY <2>2, <2>3, <2>5, <2>6 DEF MemoryInv
<1>6. CASE Others(p)
  <2>1. /\ heap' = [heap EXCEPT ![main] = live'[Public]]
        /\ main' = main /\ slice' = slice
    BY <1>6 DEF Others, EngineWrites
  <2>2. /\ heap' \in [Buffers -> Contents] /\ heap'[main] = live'[Public]
        /\ \A m \in Buffers \ {main} : heap'[m] = heap[m]
    BY <1>3, <2>1 DEF MemoryInv
  <2>3. ASSUME NEW d \in BackupIds, Filled(d)'
        PROVE  /\ slice'[d] \in Buffers
               /\ heap'[slice'[d]] = backups'[d].images[Public]
    <3>1. Filled(d) /\ backups'[d].images[Public] = backups[d].images[Public]
      BY <1>2, <1>3, <1>6, <2>3, PublicImageKept, OthersSerializeNothing
    <3> QED BY <2>1, <2>2, <3>1 DEF MemoryInv
  <2> QED BY <2>1, <2>2, <2>3 DEF MemoryInv
<1>7. CASE \/ Serializes(p) /\ pc'[p] # "backup_named"
           \/ Deserializes(p) /\ pc'[p] # "restore_named"
  <2>1. UNCHANGED memory /\ UNCHANGED live
    <3>1. CASE Serializes(p) /\ pc'[p] # "backup_named"
      BY <3>1 DEF Serializes, BackupPublic, engine
    <3>2. CASE Deserializes(p) /\ pc'[p] # "restore_named"
      <4>1. ~Goto(p, "restore_named")
        BY <1>3, <3>2 DEF Goto, TypeInv, ControlOK
      <4> QED BY <3>2, <4>1 DEF Deserializes, RestorePublic
    <3> QED BY <1>7, <3>1, <3>2
  <2>2. ~(BackupPublic(p) /\ pc'[p] = "backup_named")
    BY <1>7 DEF Deserializes, RestorePublic, BackupPublic
  <2>3. ASSUME NEW d \in BackupIds, Filled(d)'
        PROVE  Filled(d) /\ backups'[d].images[Public] = backups[d].images[Public]
    BY <1>2, <2>2, <2>3, PublicImageKept
  <2> QED BY <2>1, <2>3 DEF MemoryInv, memory
<1> QED BY <1>1, <1>4, <1>5, <1>6, <1>7

\* The memory is added to Database, not taken from it.
LEMMA MemoryNextImplementsNext ==
    [MemoryNext]_<<vars, memory>> => [Next]_vars
<1>1. MemoryNext => Next
  BY DEF MemoryNext, Serializes, Deserializes, Others, Next, Step
<1> QED BY <1>1

LEMMA MemorySpecImplementsSpec == MemorySpec => Spec
BY MemoryNextImplementsNext, PTL DEF MemorySpec, Spec

\* A Backup that was returned keeps its image of public, byte for byte, through
\* every later write of the engine and every Restore, although the driver may
\* hand out and keep the very slices it is given: for any number of goroutines,
\* Backups and buffers.
THEOREM Immutability == MemorySpec => []BackupsAreImmutable
<1>1. Init /\ MemoryInit => MemoryInv
  <2> SUFFICES ASSUME Init, MemoryInit PROVE MemoryInv
    OBVIOUS
  <2>1. /\ live[Public] = Empty /\ Public \in Schemas /\ Empty \in Contents
        /\ \A q \in Procs : pc[q] = "idle"
        /\ \A b \in BackupIds : backups[b].state = "free"
    BY InitialTypes DEF Init, FreeBackup, Schemas
  <2> QED BY <2>1, MemoryAssumption DEF MemoryInit, MemoryInv, Filled, Taken
<1>2. SnapshotInv /\ SnapshotInv' /\ MemoryInv /\ [MemoryNext]_<<vars, memory>>
        => MemoryInv'
  <2> SUFFICES ASSUME SnapshotInv, SnapshotInv', MemoryInv, UNCHANGED <<vars, memory>>
               PROVE  MemoryInv'
    BY MemoryStep
  <2> QED BY DEF vars, memory, saved, engine, MemoryInv, Filled, Taken
<1>3. MemoryInv => BackupsAreImmutable
  BY DEF MemoryInv, BackupsAreImmutable, Filled, Taken
<1>4. MemorySpec => []SnapshotInv
  BY MemorySpecImplementsSpec, SnapshotInit, SnapshotStep, PTL DEF Spec
<1> QED BY <1>1, <1>2, <1>3, <1>4, PTL DEF MemorySpec

=============================================================================
