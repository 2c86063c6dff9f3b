------------------------------ MODULE Database ------------------------------
(***************************************************************************)
(* One pgmem DB shared by concurrent goroutines: its locks, its sole       *)
(* engine connection, its schemas and its backups (database.go, backup.go, *)
(* the execution paths of schema.go and the transactions of driver.go).    *)
(*                                                                         *)
(* Every goroutine is a process with a program counter; one action is the  *)
(* code between two points where it can wait or be overtaken: a mutex, the *)
(* engine connection, or an engine call.  Releases are merged into the     *)
(* step before them.                                                       *)
(*                                                                         *)
(*   topologyMu   sync.Mutex: its owner                                    *)
(*   readers      holders of db.mu.RLock across a wait                     *)
(*   writer       the goroutine that has announced db.mu.Lock.  A Go       *)
(*                RWMutex admits no new reader once a writer is pending,   *)
(*                so every RLock waits for writer = None, and the writer   *)
(*                proceeds when readers = {}                               *)
(*   conn         who holds the one connection of the sqlDB pool           *)
(*   live         what the engine connection sees, per schema              *)
(*   committed    what it would see after a ROLLBACK                       *)
(***************************************************************************)
EXTENDS Naturals, FiniteSets

CONSTANTS
    Procs,         \* goroutines calling into the DB
    Names,         \* valid names for named schemas, already lower-cased
    Public,        \* the schema "public" (engine schema main)
    Rows,          \* table contents that can be told apart
    NoRows,        \* the contents of a schema just attached
    Shapes,        \* schema definitions that can be told apart
    NoShape,       \* the definition of a schema just attached
    BackupIds,     \* bound on the number of Backup values
    MaxVersion,    \* bound on DDL: schema_version stays at most MaxVersion
    Roles,         \* Roles[p]: the calls goroutine p makes
    Contexts,      \* the contexts callers pass: "background", "live"
    EngineFaults,  \* whether an engine call may fail by itself
    None           \* no goroutine, no schema, no backup

Kinds == {"exec", "callback", "script", "tx", "createSchema", "backup", "restore",
          "close"}

ASSUME ConstantsAssumption ==
    /\ Public \notin Names
    /\ NoRows \in Rows
    /\ NoShape \in Shapes
    /\ MaxVersion \in Nat
    /\ Roles \in [Procs -> SUBSET Kinds]
    /\ Contexts \subseteq {"background", "live"}
    /\ EngineFaults \in BOOLEAN
    /\ None \notin Procs \cup Names \cup {Public} \cup BackupIds

Schemas == Names \cup {Public}

VARIABLES
    closed,      \* db.closed
    poolClosed,  \* db.sqlDB.Close has run
    schemas,     \* the keys of db.schemas
    topologyMu, readers, writer, conn,
    attached,    \* the schemas attached to the engine connection
    live, committed,
    txn,         \* whose BEGIN is open on the engine connection
    backups,     \* the Backup values
    outdated,    \* history: backups followed by committed DDL or a new schema
    pc, call     \* per goroutine: where it is, and its call's local state

locks  == <<topologyMu, readers, writer, conn>>
engine == <<attached, live, committed, txn>>
topo   == <<closed, poolClosed, schemas>>
saved  == <<backups, outdated>>
vars   == <<topo, locks, engine, saved, pc, call>>

-----------------------------------------------------------------------------
(* Data *)

\* One engine schema: its rows, its definition and PRAGMA schema_version.
Contents == [rows : Rows, shape : Shapes, version : Nat]

\* ATTACH ':memory:' and a fresh main database.
Empty == [rows |-> NoRows, shape |-> NoShape, version |-> 0]

\* A Backup: "free" is an unused slot, "building" a Backup not yet returned.
BackupRecords ==
    [state : {"free", "building", "taken"}, names : SUBSET Schemas,
     versions : [Schemas -> Nat], images : [Schemas -> Contents]]

FreeBackup ==
    [state |-> "free", names |-> {},
     versions |-> [s \in Schemas |-> 0], images |-> [s \in Schemas |-> Empty]]

Results == {"none", "ok", "rolledback", "closed", "canceled",
            "exists", "changed", "error"}

\* The local variables of a call: its context, the schema and the Backup it is
\* about, the named schemas it has still to visit, and the error it returned.
Calls ==
    [ctx : {"background", "live", "canceled"}, schema : Schemas \cup {None},
     backup : BackupIds \cup {None}, todo : SUBSET Names, result : Results]

IdleCall ==
    [ctx |-> "background", schema |-> None, backup |-> None, todo |-> {},
     result |-> "none"]

ExecPCs    == {"exec_check", "exec_run"}
CallbackPCs == {"callback_check", "callback_conn", "callback_register"}
ScriptPCs  == {"script_check", "script_begin", "script_stmt"}
TxPCs      == {"begin_check", "begin_conn", "tx_open", "tx_check", "tx_stmt"}
CreatePCs  == {"create_topology", "create_check", "create_attach",
               "create_lock", "create_publish"}
BackupPCs  == {"backup_topology", "backup_rlock", "backup_conn",
               "backup_versions", "backup_public", "backup_named"}
RestorePCs == {"restore_topology", "restore_rlock", "restore_conn",
               "restore_versions", "restore_prepare", "restore_public",
               "restore_named", "restore_attach"}
ClosePCs   == {"close_lock", "close_set", "close_pool"}
PCs == {"idle"} \cup ExecPCs \cup CallbackPCs \cup ScriptPCs \cup TxPCs \cup CreatePCs
         \cup BackupPCs \cup RestorePCs \cup ClosePCs

Taken == {b \in BackupIds : backups[b].state = "taken"}

Canceled(p) == call[p].ctx = "canceled"

\* The pool refuses to hand out the connection: it is closed, or the wait ends
\* because the context was canceled.
ConnRefused(p) == poolClosed \/ Canceled(p)

Refusal(p) == IF Canceled(p) THEN "canceled" ELSE "error"

-----------------------------------------------------------------------------
(* Control *)

Init ==
    /\ closed = FALSE /\ poolClosed = FALSE
    /\ schemas = {Public}
    /\ topologyMu = None /\ readers = {} /\ writer = None /\ conn = None
    /\ attached = {Public}
    /\ live = [s \in Schemas |-> Empty]
    /\ committed = live
    /\ txn = None
    /\ backups = [b \in BackupIds |-> FreeBackup]
    /\ outdated = {}
    /\ pc = [p \in Procs |-> "idle"]
    /\ call = [p \in Procs |-> IdleCall]

Goto(p, label) == pc' = [pc EXCEPT ![p] = label]

\* The call ends with outcome r; its local variables are gone.
Return(p, r) ==
    /\ Goto(p, "idle")
    /\ call' = [call EXCEPT ![p] = [IdleCall EXCEPT !.result = r]]

\* A new call with context c about schema s and backup b.
Start(p, label, c, s, b) ==
    /\ Goto(p, label)
    /\ call' = [call EXCEPT ![p] = [IdleCall EXCEPT !.ctx = c, !.schema = s,
                                                    !.backup = b]]

\* The caller's context is canceled or its deadline passes.
Cancel(p) ==
    /\ pc[p] # "idle"
    /\ call[p].ctx = "live"
    /\ call' = [call EXCEPT ![p].ctx = "canceled"]
    /\ UNCHANGED <<topo, locks, engine, saved, pc>>

\* Schema.Exec/Query, or a statement outside a transaction through the adapter,
\* on any Schema handle the program can have.
InvokeStatement(p) ==
    /\ pc[p] = "idle"
    /\ \E c \in Contexts, s \in schemas :
         \/ "exec"   \in Roles[p] /\ Start(p, "exec_check", c, s, None)
         \/ "callback" \in Roles[p] /\ Start(p, "callback_check", c, s, None)
         \/ "script" \in Roles[p] /\ Start(p, "script_check", c, s, None)
         \/ "tx"     \in Roles[p] /\ Start(p, "begin_check", c, s, None)
    /\ UNCHANGED <<topo, locks, engine, saved>>

\* Mutant: the check of the schema name is missing.
InvokeCreateUnchecked(p) ==
    /\ pc[p] = "idle" /\ "createSchema" \in Roles[p]
    /\ \E c \in Contexts, n \in Names \cup {"main"} :
         Start(p, "create_topology", c, n, None)
    /\ UNCHANGED <<topo, locks, engine, saved>>

InvokeCreateSchema(p) ==
    /\ pc[p] = "idle" /\ "createSchema" \in Roles[p]
    /\ \E c \in Contexts, n \in Names : Start(p, "create_topology", c, n, None)
    /\ UNCHANGED <<topo, locks, engine, saved>>

InvokeBackup(p) ==
    /\ pc[p] = "idle" /\ "backup" \in Roles[p]
    /\ \E c \in Contexts, b \in BackupIds :
         /\ backups[b].state = "free"
         /\ Start(p, "backup_topology", c, None, b)
         /\ backups' = [backups EXCEPT ![b].state = "building"]
    /\ UNCHANGED <<topo, locks, engine, outdated>>

InvokeRestore(p) ==
    /\ pc[p] = "idle" /\ "restore" \in Roles[p]
    /\ \E c \in Contexts, b \in Taken : Start(p, "restore_topology", c, None, b)
    /\ UNCHANGED <<topo, locks, engine, saved>>

InvokeClose(p) ==
    /\ pc[p] = "idle" /\ "close" \in Roles[p]
    /\ Start(p, "close_lock", "background", None, None)
    /\ UNCHANGED <<topo, locks, engine, saved>>

-----------------------------------------------------------------------------
(* Statements *)

\* What one statement of schema s leaves behind: DML replaces its rows, DDL
\* replaces its definition and increments its schema_version.
Outcomes(s) ==
    IF s \notin attached THEN {}
    ELSE {[live EXCEPT ![s].rows = r] : r \in Rows}
         \cup {[live EXCEPT ![s] = [rows    |-> live[s].rows,
                                    shape   |-> h,
                                    version |-> live[s].version + 1]] :
                 h \in IF live[s].version < MaxVersion
                         THEN Shapes \ {live[s].shape} ELSE {}}

\* The history of DDL once contents `after` are committed.
OutdatedBy(after) ==
    IF \E s \in Schemas : after[s].version # committed[s].version
      THEN Taken ELSE outdated

\* A statement on its own: runInterceptors and translate check the context and
\* db.closed under db.mu.RLock before anything else.
ExecCheck(p) ==
    /\ pc[p] = "exec_check"
    /\ writer = None \/ Canceled(p)
    /\ \/ Canceled(p) /\ Return(p, "canceled")
       \/ ~Canceled(p) /\ closed /\ Return(p, "closed")
       \/ ~Canceled(p) /\ ~closed /\ Goto(p, "exec_run") /\ UNCHANGED call
    /\ UNCHANGED <<topo, locks, engine, saved>>

\* execOne on the pool: take the connection, run the statement in autocommit,
\* give the connection back.  A context canceled while the statement runs may be
\* reported although the statement took effect.
ExecRun(p) ==
    /\ pc[p] = "exec_run"
    /\ \/ /\ ConnRefused(p)
          /\ Return(p, Refusal(p))
          /\ UNCHANGED <<live, committed, outdated>>
       \/ /\ conn = None /\ ~poolClosed
          /\ \E after \in Outcomes(call[p].schema) :
               /\ live' = after
               /\ committed' = after
               /\ outdated' = OutdatedBy(after)
          /\ Return(p, IF Canceled(p) THEN "canceled" ELSE "ok")
       \/ /\ conn = None /\ ~poolClosed
          /\ Return(p, "error")
          /\ UNCHANGED <<live, committed, outdated>>
    /\ UNCHANGED <<topo, locks, attached, txn, backups>>

\* A query whose registered function registers another (function.go): the
\* callback runs on the engine connection and RegisterFunction takes the read
\* lock there.
CallbackCheck(p) ==
    /\ pc[p] = "callback_check"
    /\ writer = None \/ Canceled(p)
    /\ \/ Canceled(p) /\ Return(p, "canceled")
       \/ ~Canceled(p) /\ closed /\ Return(p, "closed")
       \/ ~Canceled(p) /\ ~closed /\ Goto(p, "callback_conn") /\ UNCHANGED call
    /\ UNCHANGED <<topo, locks, engine, saved>>

\* The dispatcher refuses to call into a DB that Close has removed.
CallbackConn(p) ==
    /\ pc[p] = "callback_conn"
    /\ \/ /\ ConnRefused(p)
          /\ Return(p, Refusal(p))
          /\ UNCHANGED conn
       \/ /\ conn = None /\ ~poolClosed /\ closed
          /\ Return(p, "error")
          /\ UNCHANGED conn
       \/ /\ conn = None /\ ~poolClosed /\ ~closed
          /\ conn' = p
          /\ Goto(p, "callback_register") /\ UNCHANGED call
    /\ UNCHANGED <<topo, topologyMu, readers, writer, engine, saved>>

\* RegisterFunction in the callback; then the statement ends.
CallbackRegister(p) ==
    /\ pc[p] = "callback_register"
    /\ writer = None
    /\ conn' = None
    /\ Return(p, IF closed THEN "error" ELSE "ok")
    /\ UNCHANGED <<topo, topologyMu, readers, writer, engine, saved>>

\* The open transaction of the engine connection is undone.
Undo ==
    /\ live' = committed
    /\ txn' = None
    /\ UNCHANGED <<attached, committed>>

\* A script translates every statement, each under the same checks, before it
\* begins its transaction.
ScriptCheck(p) ==
    /\ pc[p] = "script_check"
    /\ writer = None \/ Canceled(p)
    /\ \/ Canceled(p) /\ Return(p, "canceled")
       \/ ~Canceled(p) /\ closed /\ Return(p, "closed")
       \/ ~Canceled(p) /\ ~closed /\ Goto(p, "script_begin") /\ UNCHANGED call
    /\ UNCHANGED <<topo, locks, engine, saved>>

ScriptBegin(p) ==
    /\ pc[p] = "script_begin"
    /\ \/ /\ ConnRefused(p)
          /\ Return(p, Refusal(p))
          /\ UNCHANGED <<conn, txn>>
       \/ /\ conn = None /\ ~poolClosed
          /\ conn' = p /\ txn' = p
          /\ Goto(p, "script_stmt") /\ UNCHANGED call
    /\ UNCHANGED <<topo, topologyMu, readers, writer, attached, live, committed,
                   saved>>

\* One statement of the script.  It fails when the engine rejects it, or when
\* database/sql has already rolled the transaction back (conn # p).
ScriptStatement(p) ==
    /\ pc[p] = "script_stmt"
    /\ \/ /\ conn = p
          /\ \E after \in Outcomes(call[p].schema) : live' = after
          /\ UNCHANGED <<conn, attached, committed, txn, pc, call>>
       \/ /\ conn = p
          /\ Undo
          /\ conn' = None
          /\ Return(p, "error")
       \/ /\ conn # p
          /\ Return(p, "canceled")
          /\ UNCHANGED <<conn, engine>>
    /\ UNCHANGED <<topo, topologyMu, readers, writer, saved>>

\* transaction.Commit after the last statement.
ScriptCommit(p) ==
    /\ pc[p] = "script_stmt"
    /\ conn = p /\ ~Canceled(p)
    /\ committed' = live
    /\ outdated' = OutdatedBy(live)
    /\ txn' = None /\ conn' = None
    /\ Return(p, "ok")
    /\ UNCHANGED <<topo, topologyMu, readers, writer, attached, live, backups>>

\* database/sql rolls back the transaction of a canceled context on a goroutine
\* of its own.  A script's transaction gives its connection back at once.
ScriptAbort(p) ==
    /\ pc[p] = "script_stmt"
    /\ conn = p /\ Canceled(p)
    /\ Undo
    /\ conn' = None
    /\ UNCHANGED <<topo, topologyMu, readers, writer, saved, pc, call>>

-----------------------------------------------------------------------------
(* Transactions of the database/sql adapter *)

BeginCheck(p) ==
    /\ pc[p] = "begin_check"
    /\ writer = None \/ Canceled(p)
    /\ \/ Canceled(p) /\ Return(p, "canceled")
       \/ ~Canceled(p) /\ closed /\ Return(p, "closed")
       \/ ~Canceled(p) /\ ~closed /\ Goto(p, "begin_conn") /\ UNCHANGED call
    /\ UNCHANGED <<topo, locks, engine, saved>>

\* Mutant: BEGIN runs on the pool and the connection goes back to it.
BeginUnpinned(p) ==
    /\ pc[p] = "begin_conn"
    /\ conn = None /\ ~poolClosed
    /\ txn' = p
    /\ Goto(p, "tx_open")
    /\ UNCHANGED <<topo, locks, attached, live, committed, saved, call>>

\* BeginTx pins the engine connection until finish.
BeginConn(p) ==
    /\ pc[p] = "begin_conn"
    /\ \/ /\ ConnRefused(p)
          /\ Return(p, Refusal(p))
          /\ UNCHANGED <<conn, txn>>
       \/ /\ conn = None /\ ~poolClosed
          /\ conn' = p /\ txn' = p
          /\ Goto(p, "tx_open") /\ UNCHANGED call
    /\ UNCHANGED <<topo, topologyMu, readers, writer, attached, live, committed,
                   saved>>

\* The client sends a statement of its transaction.
TxExec(p) ==
    /\ pc[p] = "tx_open"
    /\ Goto(p, "tx_check")
    /\ UNCHANGED <<topo, locks, engine, saved, call>>

\* validLocked and translate: the state read lock is needed while the engine
\* connection is pinned.
TxCheck(p) ==
    /\ pc[p] = "tx_check"
    /\ writer = None \/ Canceled(p)
    /\ Goto(p, IF Canceled(p) \/ closed THEN "tx_open" ELSE "tx_stmt")
    /\ UNCHANGED <<topo, locks, engine, saved, call>>

\* The statement runs inside the transaction, or fails without an effect (also
\* with ErrTxDone, after TxAbort).
TxStatement(p) ==
    /\ pc[p] = "tx_stmt"
    /\ \/ /\ txn = p
          /\ \E after \in Outcomes(call[p].schema) : live' = after
       \/ UNCHANGED live
    /\ Goto(p, "tx_open")
    /\ UNCHANGED <<topo, locks, attached, committed, txn, saved, call>>

\* The rollback of a canceled context: the transaction is over, its connection
\* stays pinned by BeginTx's sql.Conn.
TxAbort(p) ==
    /\ pc[p] \in {"tx_open", "tx_check", "tx_stmt"}
    /\ txn = p /\ Canceled(p)
    /\ Undo
    /\ UNCHANGED <<topo, locks, saved, pc, call>>

\* finish(true): commit what is still open, close the pinned connection.
TxCommit(p) ==
    /\ pc[p] = "tx_open"
    /\ \/ /\ txn = p /\ ~Canceled(p)
          /\ committed' = live
          /\ outdated' = OutdatedBy(live)
          /\ txn' = None
          /\ Return(p, "ok")
          /\ UNCHANGED <<attached, live, backups>>
       \/ /\ Canceled(p)
          /\ Undo
          /\ Return(p, "canceled")
          /\ UNCHANGED saved
    /\ conn' = None
    /\ UNCHANGED <<topo, topologyMu, readers, writer>>

\* finish(false), and sqlConnection.Close with an open transaction.
TxRollback(p) ==
    /\ pc[p] = "tx_open"
    /\ Undo
    /\ conn' = None
    /\ Return(p, "rolledback")
    /\ UNCHANGED <<topo, topologyMu, readers, writer, saved>>

-----------------------------------------------------------------------------
(* CreateSchema *)

CreateTopology(p) ==
    /\ pc[p] = "create_topology"
    /\ topologyMu = None
    /\ topologyMu' = p
    /\ Goto(p, "create_check")
    /\ UNCHANGED <<topo, readers, writer, conn, engine, saved, call>>

\* Mutant: the read lock is kept while the connection is waited for.
CreateCheckHoldingMu(p) ==
    /\ pc[p] = "create_check"
    /\ writer = None
    /\ \/ /\ closed \/ call[p].schema \in schemas
          /\ Return(p, "closed")
          /\ topologyMu' = None /\ UNCHANGED readers
       \/ /\ ~closed /\ call[p].schema \notin schemas
          /\ readers' = readers \cup {p}
          /\ Goto(p, "create_attach")
          /\ UNCHANGED <<call, topologyMu>>
    /\ UNCHANGED <<topo, writer, conn, engine, saved>>

\* Mutant: the early return for a name in use keeps topologyMu.
CreateCheckLeaking(p) ==
    /\ pc[p] = "create_check"
    /\ writer = None
    /\ \/ /\ closed \/ call[p].schema \in schemas
          /\ Return(p, "exists")
       \/ /\ ~closed /\ call[p].schema \notin schemas
          /\ Goto(p, "create_attach") /\ UNCHANGED call
    /\ UNCHANGED <<topo, locks, engine, saved>>

\* The read lock covers the check only; it is not held while waiting for the
\* connection.
CreateCheck(p) ==
    /\ pc[p] = "create_check"
    /\ writer = None
    /\ \/ /\ closed
          /\ Return(p, "closed")
          /\ topologyMu' = None
       \/ /\ ~closed /\ call[p].schema \in schemas
          /\ Return(p, "exists")
          /\ topologyMu' = None
       \/ /\ ~closed /\ call[p].schema \notin schemas
          /\ Goto(p, "create_attach")
          /\ UNCHANGED <<call, topologyMu>>
    /\ UNCHANGED <<topo, readers, writer, conn, engine, saved>>

\* Mutant: the error of ATTACH is ignored.
CreateAttachUnchecked(p) ==
    /\ pc[p] = "create_attach"
    /\ \/ /\ conn = None /\ ~poolClosed
          /\ attached' = attached \cup {call[p].schema}
       \/ ConnRefused(p) /\ UNCHANGED attached
    /\ Goto(p, "create_lock")
    /\ UNCHANGED <<topo, locks, live, committed, txn, saved, call>>

\* ATTACH ':memory:' on the sole connection.  It fails when the name is already
\* attached; canceled while it runs, it may report the cancellation although the
\* schema is attached.
CreateAttach(p) ==
    LET n == call[p].schema
        attach == /\ conn = None /\ ~poolClosed /\ n \notin attached
                  /\ attached' = attached \cup {n}
                  /\ live' = [live EXCEPT ![n] = Empty]
                  /\ committed' = [committed EXCEPT ![n] = Empty]
    IN  /\ pc[p] = "create_attach"
        /\ \/ /\ attach
              /\ Goto(p, "create_lock")
              /\ UNCHANGED <<call, topologyMu>>
           \/ /\ attach /\ Canceled(p)
              /\ Return(p, "canceled")
              /\ topologyMu' = None
           \/ /\ ConnRefused(p)
              /\ Return(p, Refusal(p))
              /\ topologyMu' = None
              /\ UNCHANGED <<attached, live, committed>>
           \/ /\ conn = None /\ ~poolClosed /\ (n \in attached \/ EngineFaults)
              /\ Return(p, "error")
              /\ topologyMu' = None
              /\ UNCHANGED <<attached, live, committed>>
        /\ UNCHANGED <<topo, readers, writer, conn, txn, saved>>

\* db.mu.Lock: announce the writer, then wait for the readers to leave.
CreateLock(p) ==
    /\ pc[p] = "create_lock"
    /\ writer = None
    /\ writer' = p
    /\ Goto(p, "create_publish")
    /\ UNCHANGED <<topo, topologyMu, readers, conn, engine, saved, call>>

\* The second look at db.closed, the publication and both unlocks.
CreatePublish(p) ==
    /\ pc[p] = "create_publish"
    /\ readers = {}
    /\ \/ /\ closed
          /\ Return(p, "closed")
          /\ UNCHANGED <<schemas, outdated>>
       \/ /\ ~closed
          /\ schemas' = schemas \cup {call[p].schema}
          /\ outdated' = Taken
          /\ Return(p, "ok")
    /\ writer' = None /\ topologyMu' = None
    /\ UNCHANGED <<closed, poolClosed, readers, conn, engine, backups>>

-----------------------------------------------------------------------------
(* BackupContext *)

\* The deferred releases of Backup and Restore, in whatever state they return.
ReleaseAll(p) ==
    /\ topologyMu' = None
    /\ readers' = readers \ {p}
    /\ conn' = IF conn = p THEN None ELSE conn
    /\ UNCHANGED writer

\* VACUUM ... INTO copies rows and definition and increments schema_version.
Vacuumed(c) == [c EXCEPT !.version = @ + 1]

BackupTopology(p) ==
    /\ pc[p] = "backup_topology"
    /\ topologyMu = None
    /\ topologyMu' = p
    /\ Goto(p, "backup_rlock")
    /\ UNCHANGED <<topo, readers, writer, conn, engine, saved, call>>

\* A Backup call that fails returns no Backup.
BackupFails(p, r) ==
    /\ ReleaseAll(p)
    /\ backups' = [backups EXCEPT ![call[p].backup] = FreeBackup]
    /\ Return(p, r)

\* Mutant: the read lock is given back after the check, as in CreateSchema.
BackupRLockReleased(p) ==
    /\ pc[p] = "backup_rlock"
    /\ writer = None
    /\ \/ closed /\ BackupFails(p, "closed")
       \/ /\ ~closed
          /\ Goto(p, "backup_conn")
          /\ UNCHANGED <<locks, backups, call>>
    /\ UNCHANGED <<topo, engine, outdated>>

BackupRLock(p) ==
    /\ pc[p] = "backup_rlock"
    /\ writer = None
    /\ \/ /\ closed
          /\ BackupFails(p, "closed")
       \/ /\ ~closed
          /\ readers' = readers \cup {p}
          /\ Goto(p, "backup_conn")
          /\ UNCHANGED <<topologyMu, writer, conn, backups, call>>
    /\ UNCHANGED <<topo, engine, outdated>>

\* Mutant: every engine call of the backup goes through the pool.
BackupConnUnpinned(p) ==
    /\ pc[p] = "backup_conn"
    /\ conn = None
    /\ Goto(p, "backup_versions")
    /\ UNCHANGED <<topo, locks, engine, saved, call>>

\* The connection is waited for with the read lock held.
BackupConn(p) ==
    /\ pc[p] = "backup_conn"
    /\ \/ /\ ConnRefused(p)
          /\ BackupFails(p, Refusal(p))
       \/ /\ conn = None /\ ~poolClosed
          /\ conn' = p
          /\ Goto(p, "backup_versions")
          /\ UNCHANGED <<topologyMu, readers, writer, backups, call>>
    /\ UNCHANGED <<topo, engine, outdated>>

\* schemaNamesLocked and readSchemaVersions; a schema that is no longer attached
\* has no version to read.
BackupVersions(p) ==
    /\ pc[p] = "backup_versions"
    /\ \/ /\ schemas \subseteq attached
          /\ backups' = [backups EXCEPT ![call[p].backup] =
                           [@ EXCEPT !.names = schemas,
                                     !.versions = [s \in Schemas |->
                                        IF s \in schemas THEN live[s].version
                                                         ELSE 0]]]
          /\ Goto(p, "backup_public")
          /\ UNCHANGED <<locks, call>>
       \/ /\ Canceled(p) \/ EngineFaults \/ ~(schemas \subseteq attached)
          /\ BackupFails(p, Refusal(p))
    /\ UNCHANGED <<topo, engine, outdated>>

\* serializeConnection: the image of main.
BackupPublic(p) ==
    /\ pc[p] = "backup_public"
    /\ \/ /\ backups' = [backups EXCEPT ![call[p].backup].images[Public] =
                                          live[Public]]
          /\ Goto(p, "backup_named")
          /\ call' = [call EXCEPT ![p].todo = schemas \ {Public}]
          /\ UNCHANGED locks
       \/ EngineFaults /\ BackupFails(p, "error")
    /\ UNCHANGED <<topo, engine, outdated>>

\* vacuumSchemaImage for one named schema (in any order).
BackupNamed(p) ==
    /\ pc[p] = "backup_named"
    /\ \/ \E n \in call[p].todo :
            /\ backups' = [backups EXCEPT ![call[p].backup].images[n] =
                                            Vacuumed(live[n])]
            /\ call' = [call EXCEPT ![p].todo = @ \ {n}]
            /\ UNCHANGED <<locks, pc>>
       \/ /\ call[p].todo # {} /\ (Canceled(p) \/ EngineFaults)
          /\ BackupFails(p, Refusal(p))
    /\ UNCHANGED <<topo, engine, outdated>>

BackupReturn(p) ==
    /\ pc[p] = "backup_named"
    /\ call[p].todo = {}
    /\ backups' = [backups EXCEPT ![call[p].backup].state = "taken"]
    /\ outdated' = outdated \ {call[p].backup}
    /\ ReleaseAll(p)
    /\ Return(p, "ok")
    /\ UNCHANGED <<topo, engine>>

-----------------------------------------------------------------------------
(* RestoreContext *)

RestoreFails(p, r) == ReleaseAll(p) /\ Return(p, r)

RestoreTopology(p) ==
    /\ pc[p] = "restore_topology"
    /\ topologyMu = None
    /\ topologyMu' = p
    /\ Goto(p, "restore_rlock")
    /\ UNCHANGED <<topo, readers, writer, conn, engine, saved, call>>

RestoreRLock(p) ==
    /\ pc[p] = "restore_rlock"
    /\ writer = None
    /\ \/ /\ closed
          /\ RestoreFails(p, "closed")
       \/ /\ ~closed /\ schemas # backups[call[p].backup].names
          /\ RestoreFails(p, "changed")
       \/ /\ ~closed /\ schemas = backups[call[p].backup].names
          /\ readers' = readers \cup {p}
          /\ Goto(p, "restore_conn")
          /\ UNCHANGED <<topologyMu, writer, conn, call>>
    /\ UNCHANGED <<topo, engine, saved>>

RestoreConn(p) ==
    /\ pc[p] = "restore_conn"
    /\ \/ /\ ConnRefused(p)
          /\ RestoreFails(p, Refusal(p))
       \/ /\ conn = None /\ ~poolClosed
          /\ conn' = p
          /\ Goto(p, "restore_versions")
          /\ UNCHANGED <<topologyMu, readers, writer, call>>
    /\ UNCHANGED <<topo, engine, saved>>

\* Mutant: public is left out of the comparison, as it is out of the swap.
SameNamedVersions(b) ==
    \A s \in schemas \ {Public} : live[s].version = backups[b].versions[s]

\* Every live schema_version equals the one the Backup recorded.
SameVersions(b) ==
    \A s \in schemas : live[s].version = backups[b].versions[s]

\* Mutant: a schema whose version cannot be read is skipped.
RestoreVersionsLenient(p) ==
    /\ pc[p] = "restore_versions"
    /\ \/ /\ \A s \in schemas \cap attached :
               live[s].version = backups[call[p].backup].versions[s]
          /\ Goto(p, "restore_prepare")
          /\ UNCHANGED <<locks, call>>
       \/ RestoreFails(p, "changed")
    /\ UNCHANGED <<topo, engine, saved>>

RestoreVersions(p) ==
    /\ pc[p] = "restore_versions"
    /\ \/ /\ schemas \subseteq attached /\ SameVersions(call[p].backup)
          /\ Goto(p, "restore_prepare")
          /\ UNCHANGED <<locks, call>>
       \/ /\ schemas \subseteq attached /\ ~SameVersions(call[p].backup)
          /\ RestoreFails(p, "changed")
       \/ /\ Canceled(p) \/ EngineFaults \/ ~(schemas \subseteq attached)
          /\ RestoreFails(p, Refusal(p))
    /\ UNCHANGED <<topo, engine, saved>>

\* openRestoredSchema for every image, on databases of its own, then the last
\* look at the context: nothing live is touched.
RestorePrepare(p) ==
    /\ pc[p] = "restore_prepare"
    /\ \/ /\ ~Canceled(p)
          /\ Goto(p, "restore_public")
          /\ UNCHANGED <<locks, call>>
       \/ /\ Canceled(p) \/ EngineFaults
          /\ RestoreFails(p, Refusal(p))
    /\ UNCHANGED <<topo, engine, saved>>

\* The online backup API writes an image into a fresh in-memory database, whose
\* schema_version is then 1 whatever the image's was.
OnlineRestored(image) == [image EXCEPT !.version = 1]

\* Mutant: the named schemas are forgotten.
RestorePublicOnly(p) ==
    /\ pc[p] = "restore_public"
    /\ live' = [live EXCEPT ![Public] = backups[call[p].backup].images[Public]]
    /\ committed' = live'
    /\ Goto(p, "restore_named")
    /\ UNCHANGED <<topo, locks, attached, txn, saved, call>>

\* Mutant: public is restored the way the named schemas are.
RestorePublicOnline(p) ==
    /\ pc[p] = "restore_public"
    /\ live' = [live EXCEPT ![Public] =
                   OnlineRestored(backups[call[p].backup].images[Public])]
    /\ committed' = live'
    /\ call' = [call EXCEPT ![p].todo = schemas \ {Public}]
    /\ Goto(p, "restore_named")
    /\ UNCHANGED <<topo, locks, attached, txn, saved>>

\* deserializeConnection replaces main, version included.  From here on the
\* context is no longer looked at.
RestorePublic(p) ==
    /\ pc[p] = "restore_public"
    /\ \/ LET image == backups[call[p].backup].images[Public] IN
          /\ live' = [live EXCEPT ![Public] = image]
          /\ committed' = [committed EXCEPT ![Public] = image]
          /\ call' = [call EXCEPT ![p].todo = schemas \ {Public}]
          /\ Goto(p, "restore_named")
          /\ UNCHANGED locks
       \/ /\ EngineFaults
          /\ RestoreFails(p, "error")
          /\ UNCHANGED <<live, committed>>
    /\ UNCHANGED <<topo, attached, txn, saved>>

\* Mutant: the swap still obeys the caller's context.
RestoreDetachCancelable(p) ==
    /\ pc[p] = "restore_named"
    /\ \/ \E n \in call[p].todo :
            /\ attached' = attached \ {n}
            /\ live' = [live EXCEPT ![n] = Empty]
            /\ committed' = live'
            /\ call' = [call EXCEPT ![p].schema = n, ![p].todo = @ \ {n}]
            /\ Goto(p, "restore_attach")
            /\ UNCHANGED locks
       \/ /\ Canceled(p)
          /\ RestoreFails(p, "canceled")
          /\ UNCHANGED <<attached, live, committed>>
    /\ UNCHANGED <<topo, txn, saved>>

RestoreDetach(p) ==
    /\ pc[p] = "restore_named"
    /\ \/ \E n \in call[p].todo :
            /\ attached' = attached \ {n}
            /\ live' = [live EXCEPT ![n] = Empty]
            /\ committed' = [committed EXCEPT ![n] = Empty]
            /\ call' = [call EXCEPT ![p].schema = n, ![p].todo = @ \ {n}]
            /\ Goto(p, "restore_attach")
            /\ UNCHANGED locks
       \/ /\ EngineFaults /\ call[p].todo # {}
          /\ RestoreFails(p, "error")
          /\ UNCHANGED <<attached, live, committed>>
    /\ UNCHANGED <<topo, txn, saved>>

RestoreAttach(p) ==
    LET n == call[p].schema
        image == OnlineRestored(backups[call[p].backup].images[n])
    IN  /\ pc[p] = "restore_attach"
        /\ \/ /\ attached' = attached \cup {n}
              /\ live' = [live EXCEPT ![n] = image]
              /\ committed' = [committed EXCEPT ![n] = image]
              /\ Goto(p, "restore_named")
              /\ UNCHANGED <<locks, call>>
           \/ /\ EngineFaults
              /\ RestoreFails(p, "error")
              /\ UNCHANGED <<attached, live, committed>>
        /\ UNCHANGED <<topo, txn, saved>>

RestoreReturn(p) ==
    /\ pc[p] = "restore_named"
    /\ call[p].todo = {}
    /\ ReleaseAll(p)
    /\ Return(p, "ok")
    /\ UNCHANGED <<topo, engine, saved>>

-----------------------------------------------------------------------------
(* Close *)

CloseLock(p) ==
    /\ pc[p] = "close_lock"
    /\ writer = None
    /\ writer' = p
    /\ Goto(p, "close_set")
    /\ UNCHANGED <<topo, topologyMu, readers, conn, engine, saved, call>>

CloseSet(p) ==
    /\ pc[p] = "close_set"
    /\ readers = {}
    /\ writer' = None
    /\ \/ closed /\ Return(p, "ok") /\ UNCHANGED closed
       \/ ~closed /\ closed' = TRUE /\ Goto(p, "close_pool") /\ UNCHANGED call
    /\ UNCHANGED <<poolClosed, schemas, topologyMu, readers, conn, engine, saved>>

\* sqlDB.Close: waiters are refused, a pinned connection stays with its holder.
ClosePool(p) ==
    /\ pc[p] = "close_pool"
    /\ poolClosed' = TRUE
    /\ Return(p, "ok")
    /\ UNCHANGED <<closed, schemas, locks, engine, saved>>

-----------------------------------------------------------------------------
(* The specification *)

Invoke(p) ==
    \/ InvokeStatement(p) \/ InvokeCreateSchema(p) \/ InvokeBackup(p)
    \/ InvokeRestore(p) \/ InvokeClose(p)

\* What ends a script or an adapter transaction.
Finish(p) == ScriptCommit(p) \/ ScriptAbort(p) \/ TxCommit(p) \/ TxRollback(p)

\* Every other step of a call in progress.
Step(p) ==
    \/ ExecCheck(p) \/ ExecRun(p)
    \/ CallbackCheck(p) \/ CallbackConn(p) \/ CallbackRegister(p)
    \/ ScriptCheck(p) \/ ScriptBegin(p) \/ ScriptStatement(p)
    \/ BeginCheck(p) \/ BeginConn(p) \/ TxExec(p) \/ TxCheck(p)
    \/ TxStatement(p) \/ TxAbort(p)
    \/ CreateTopology(p) \/ CreateCheck(p) \/ CreateAttach(p)
    \/ CreateLock(p) \/ CreatePublish(p)
    \/ BackupTopology(p) \/ BackupRLock(p) \/ BackupConn(p)
    \/ BackupVersions(p) \/ BackupPublic(p) \/ BackupNamed(p) \/ BackupReturn(p)
    \/ RestoreTopology(p) \/ RestoreRLock(p) \/ RestoreConn(p)
    \/ RestoreVersions(p) \/ RestorePrepare(p) \/ RestorePublic(p)
    \/ RestoreDetach(p) \/ RestoreAttach(p) \/ RestoreReturn(p)
    \/ CloseLock(p) \/ CloseSet(p) \/ ClosePool(p)

Next == \E p \in Procs : Invoke(p) \/ Cancel(p) \/ Step(p) \/ Finish(p)

Spec == Init /\ [][Next]_vars

\* A goroutine in a call keeps running, a mutex or the connection that is free
\* again and again is eventually obtained (sync.Mutex's starvation mode, the
\* queue of database/sql), and a client ends the transactions it begins.
Fairness == \A p \in Procs : SF_vars(Step(p)) /\ SF_vars(Finish(p))

FairSpec == Spec /\ Fairness

-----------------------------------------------------------------------------
(* Properties *)

TypeOK ==
    /\ closed \in BOOLEAN /\ poolClosed \in BOOLEAN
    /\ schemas \subseteq Schemas
    /\ topologyMu \in Procs \cup {None}
    /\ readers \subseteq Procs
    /\ writer \in Procs \cup {None}
    /\ conn \in Procs \cup {None}
    /\ attached \subseteq Schemas
    /\ live \in [Schemas -> Contents]
    /\ committed \in [Schemas -> Contents]
    /\ txn \in Procs \cup {None}
    /\ backups \in [BackupIds -> BackupRecords]
    /\ outdated \subseteq BackupIds
    /\ pc \in [Procs -> PCs]
    /\ call \in [Procs -> Calls]

TopologyPCs == (CreatePCs \cup BackupPCs \cup RestorePCs)
                 \ {"create_topology", "backup_topology", "restore_topology"}
ReaderPCs   == (BackupPCs \cup RestorePCs)
                 \ {"backup_topology", "backup_rlock",
                    "restore_topology", "restore_rlock"}
WriterPCs   == {"create_publish", "close_set"}
OpenTxPCs   == {"tx_open", "tx_check", "tx_stmt"}
SnapshotPCs == ReaderPCs \ {"backup_conn", "restore_conn"}
PinnedPCs   == OpenTxPCs \cup SnapshotPCs \cup {"callback_register"}
SwapPCs     == {"restore_named", "restore_attach"}

\* Every early return of every call gives back exactly the locks it took: a
\* goroutine holds topologyMu, the read lock, the write lock or the connection
\* at the program points that need it and nowhere else.  (A script whose context
\* was canceled may have lost its connection to database/sql's rollback.)
LocksFollowCalls ==
    \A p \in Procs :
        /\ topologyMu = p <=> pc[p] \in TopologyPCs
        /\ p \in readers <=> pc[p] \in ReaderPCs
        /\ writer = p <=> pc[p] \in WriterPCs
        /\ conn = p => pc[p] \in PinnedPCs \cup {"script_stmt"}
        /\ pc[p] \in PinnedPCs => conn = p
        /\ pc[p] = "script_stmt" => conn = p \/ Canceled(p)

\* A transaction is open only on the connection its goroutine has pinned, and
\* without one the connection sees exactly the committed contents: no goroutine
\* that obtains the connection ever sees another's uncommitted work.
TransactionsArePinned ==
    /\ txn = None => live = committed
    /\ \A p \in Procs : txn = p =>
         conn = p /\ pc[p] \in OpenTxPCs \cup {"script_stmt"}
    /\ \A p \in Procs :
         pc[p] = "script_stmt" /\ conn = p => txn = p
    /\ \A p \in Procs :
         pc[p] \in OpenTxPCs => txn = p \/ Canceled(p)

\* The read lock that Backup and Restore hold keeps Close and CreateSchema out
\* from the check of db.closed to the return (backup.go:59-60): the DB stays
\* open and the set of schemas is the one the Backup names.
BackupExcludesTopology ==
    \A p \in Procs :
        /\ pc[p] \in ReaderPCs => ~closed /\ ~poolClosed
        /\ pc[p] \in {"backup_public", "backup_named"} \cup
             (ReaderPCs \cap RestorePCs) =>
               schemas = backups[call[p].backup].names

SameData(c, d) == c.rows = d.rows /\ c.shape = d.shape

\* A Backup is one consistent cross-schema snapshot of committed data: the
\* images taken one schema after the other all still match what is committed
\* when the last one is taken.
BackupIsConsistent ==
    \A p \in Procs : pc[p] = "backup_named" =>
        /\ live = committed
        /\ \A s \in schemas \ call[p].todo :
             SameData(backups[call[p].backup].images[s], committed[s])

\* When Restore is about to return nil, every schema holds what the Backup
\* recorded, public and named ones alike.
RestoreIsExact ==
    \A p \in Procs : pc[p] = "restore_named" =>
        \A s \in schemas \ call[p].todo :
            SameData(committed[s], backups[call[p].backup].images[s])

\* Schema handles stay valid (backup.go:34-36): every schema in db.schemas is
\* attached to the engine connection, but for the instant in which a Restore
\* that owns the connection swaps it.
PublishedIsAttached ==
    \A s \in schemas : s \in attached \/
        \E p \in Procs : pc[p] = "restore_attach" /\ call[p].schema = s

\* A failing engine call in the middle of a Restore costs at most the schema it
\* was swapping, and no later Restore goes on to replace data while a schema is
\* missing.
FaultsAreContained ==
    /\ Cardinality(schemas \ attached) <= 1
    /\ \A p \in Procs :
         pc[p] \in {"backup_public", "backup_named", "restore_prepare",
                   "restore_public", "restore_named"} =>
             schemas \subseteq attached

\* An accepted Restore never undoes DDL of public: when the versions agree, so
\* do the definitions.
PublicDefinitionKept ==
    \A p \in Procs : pc[p] \in {"restore_prepare", "restore_public"} =>
        live[Public].shape = backups[call[p].backup].images[Public].shape

\* Restore is repeatable (backup.go:32, 110): it returns ErrSchemaChanged only
\* when DDL or a new schema was committed after the Backup.
RejectsOnlyChanged ==
    [][\A p \in Procs :
           pc[p] \in RestorePCs /\ pc'[p] = "idle"
               /\ call'[p].result = "changed"
             => call[p].backup \in outdated]_vars

\* As far as public is concerned that holds: a Restore whose named schemas pass
\* the comparison is refused only after DDL.
PublicIsRepeatable ==
    [][\A p \in Procs :
           (/\ pc[p] = "restore_versions" /\ pc'[p] = "idle"
            /\ call'[p].result = "changed"
            /\ \A n \in schemas \ {Public} :
                 live[n].version = backups[call[p].backup].versions[n])
             => call[p].backup \in outdated]_vars

\* Every call returns: nobody waits forever for a mutex or the connection.
EveryCallReturns == \A p \in Procs : pc[p] # "idle" ~> pc[p] = "idle"

=============================================================================
