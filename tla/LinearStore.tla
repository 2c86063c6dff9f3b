---------------------------- MODULE LinearStore -----------------------------
(***************************************************************************)
(* What a pgmem DB promises concurrent callers: each call takes effect at  *)
(* one instant between its start and its return, or not at all.  A         *)
(* statement, a script or a transaction changes one schema once; a Backup  *)
(* records every schema at once; a Restore puts every schema back at once. *)
(***************************************************************************)
CONSTANTS Procs, Schemas, Public, BackupIds, Data, EmptyData

VARIABLES
    store,   \* the committed data of every schema
    names,   \* the schemas that exist
    saved,   \* the backups: whether taken, their schemas and their data
    closed,
    status   \* what each caller has under way

svars == <<store, names, saved, closed, status>>

NotSaved == [taken |-> FALSE, names |-> {}, store |-> [s \in Schemas |-> EmptyData]]

Init ==
    /\ store = [s \in Schemas |-> EmptyData]
    /\ names = {Public}
    /\ saved = [b \in BackupIds |-> NotSaved]
    /\ closed = FALSE
    /\ status = [p \in Procs |-> "none"]

\* How a caller's last call ended, before its next one.
Returned == {"none", "ok", "failed", "canceled"}

Becomes(p, from, to) ==
    /\ status[p] = from
    /\ status' = [status EXCEPT ![p] = to]

Begin(p) ==
    /\ \E k \in {"write", "create", "backup", "restore", "close"} :
         \E r \in Returned : Becomes(p, r, k)
    /\ UNCHANGED <<store, names, saved, closed>>

\* A call that returns an error leaves nothing behind.
Fail(p) ==
    /\ \E k \in {"write", "create", "backup", "restore"},
          r \in {"failed", "canceled"} : Becomes(p, k, r)
    /\ UNCHANGED <<store, names, saved, closed>>

\* A statement may report its context's cancellation and still have taken
\* effect.
Write(p) ==
    /\ \E r \in {"ok", "canceled"} : Becomes(p, "write", r)
    /\ \E s \in names, d \in Data : store' = [store EXCEPT ![s] = d]
    /\ UNCHANGED <<names, saved, closed>>

Create(p) ==
    /\ Becomes(p, "create", "ok")
    /\ ~closed
    /\ \E n \in Schemas \ names : names' = names \cup {n}
    /\ UNCHANGED <<store, saved, closed>>

Backup(p) ==
    /\ Becomes(p, "backup", "ok")
    /\ ~closed
    /\ \E b \in BackupIds :
         /\ ~saved[b].taken
         /\ saved' = [saved EXCEPT ![b] =
                        [taken |-> TRUE, names |-> names, store |-> store]]
    /\ UNCHANGED <<store, names, closed>>

Restore(p) ==
    /\ Becomes(p, "restore", "restored")
    /\ ~closed
    /\ \E b \in BackupIds :
         /\ saved[b].taken /\ saved[b].names = names
         /\ store' = saved[b].store
    /\ UNCHANGED <<names, saved, closed>>

RestoreReturns(p) ==
    /\ Becomes(p, "restored", "ok")
    /\ UNCHANGED <<store, names, saved, closed>>

Close(p) ==
    /\ \/ closed /\ Becomes(p, "close", "ok")
       \/ ~closed /\ Becomes(p, "close", "closing")
    /\ closed' = TRUE
    /\ UNCHANGED <<store, names, saved>>

CloseReturns(p) ==
    /\ Becomes(p, "closing", "ok")
    /\ UNCHANGED <<store, names, saved, closed>>

Next == \E p \in Procs :
    \/ Begin(p) \/ Fail(p) \/ Write(p) \/ Create(p) \/ Backup(p)
    \/ Restore(p) \/ RestoreReturns(p) \/ Close(p) \/ CloseReturns(p)

Spec == Init /\ [][Next]_svars
=============================================================================
