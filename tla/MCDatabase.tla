----------------------------- MODULE MCDatabase -----------------------------
(* The goroutines of the model-checking runs of Database. *)
EXTENDS DatabaseRefinement, TLC

CONSTANTS g1, g2, g3

\* Backups and restores against statements, scripts, transactions, a new schema
\* and Close.
SnapshotRoles ==
    (g1 :> {"backup", "restore"}) @@ (g2 :> {"createSchema", "script", "tx"})
      @@ (g3 :> {"close"})

\* Backups and restores against DDL.
VersionRoles ==
    (g1 :> {"createSchema", "backup", "restore"}) @@ (g2 :> {"exec"})

\* The callers of database_test.go:95 and function_test.go:288, together.
TopologyRoles ==
    (g1 :> {"createSchema", "exec", "script"}) @@ (g2 :> {"tx", "callback"})
      @@ (g3 :> {"close"})

\* The callers of function_test.go:288 and a Backup.
BackupRoles ==
    (g1 :> {"backup"}) @@ (g2 :> {"callback"}) @@ (g3 :> {"close"})
=============================================================================
