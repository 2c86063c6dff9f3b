------------------------- MODULE DatabaseRefinement -------------------------
(***************************************************************************)
(* Database implements LinearStore.  A transaction takes effect when it    *)
(* commits, a Backup when it returns, and a Restore when it replaces       *)
(* public: the connection it holds hides the rest of the swap.             *)
(***************************************************************************)
EXTENDS Database

Datum(c) == [rows |-> c.rows, shape |-> c.shape]

\* The data recorded by backup b.
Recorded(b) == [s \in Schemas |-> Datum(backups[b].images[s])]

Swapping == {p \in Procs : pc[p] \in SwapPCs}

StoreView ==
    IF Swapping # {} THEN Recorded(call[CHOOSE p \in Swapping : TRUE].backup)
                     ELSE [s \in Schemas |-> Datum(committed[s])]

SavedView ==
    [b \in BackupIds |->
        IF backups[b].state = "taken"
          THEN [taken |-> TRUE, names |-> backups[b].names, store |-> Recorded(b)]
          ELSE [taken |-> FALSE, names |-> {},
                store |-> [s \in Schemas |-> Datum(Empty)]]]

\* What a call that ended with outcome r tells its caller.
Reported(r) ==
    IF r \in {"none", "ok", "canceled"} THEN r ELSE "failed"

\* What a goroutine at program point l, whose last call ended with outcome r, is to
\* an observer.
StatusAt(l, r) ==
    CASE l = "idle"                              -> Reported(r)
      [] l \in ExecPCs \cup CallbackPCs \cup ScriptPCs \cup TxPCs -> "write"
      [] l \in CreatePCs                         -> "create"
      [] l \in BackupPCs                         -> "backup"
      [] l \in SwapPCs                           -> "restored"
      [] l \in RestorePCs \ SwapPCs              -> "restore"
      [] l = "close_pool"                        -> "closing"
      [] OTHER                                   -> "close"

StatusOf(p) == StatusAt(pc[p], call[p].result)

Linear == INSTANCE LinearStore WITH
    Data      <- [rows : Rows, shape : Shapes],
    EmptyData <- Datum(Empty),
    store     <- StoreView,
    names     <- schemas,
    saved     <- SavedView,
    status    <- [p \in Procs |-> StatusOf(p)]

\* Every call of the API, under every interleaving of locks, engine calls and
\* cancellations, takes effect at one instant or not at all: the DB is a
\* linearizable store with atomic backup and restore.
LinearizableStore == Linear!Spec
=============================================================================
