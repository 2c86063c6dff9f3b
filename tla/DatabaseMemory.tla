--------------------------- MODULE DatabaseMemory ---------------------------
(***************************************************************************)
(* The memory behind the public images of Database (backup.go).  A Go      *)
(* slice is a reference: an image stays what it was when Backup returned   *)
(* only if no slice of a Backup shares its bytes with the engine.          *)
(*                                                                         *)
(* The interfaces connectionSerializer and connectionDeserializer promise  *)
(* nothing about sharing, so the driver is the worst they allow: Serialize *)
(* returns the memory the engine keeps main in, Deserialize makes the      *)
(* engine keep main in the bytes it is given, and every write of public    *)
(* happens in place.  Named schemas leave and enter through files.         *)
(***************************************************************************)
EXTENDS Database

CONSTANT Buffers    \* the byte arrays that can be allocated

ASSUME MemoryAssumption == None \notin Buffers

VARIABLES
    heap,    \* what every buffer holds
    main,    \* the buffer in which the engine keeps public
    slice    \* per Backup: the buffer of its images["public"]

memory == <<heap, main, slice>>

Unused == Buffers \ ({main} \cup {slice[b] : b \in BackupIds})

MemoryInit ==
    /\ main \in Buffers
    /\ heap = [s \in Buffers |-> Empty]
    /\ slice = [b \in BackupIds |-> None]

\* `copy` becomes a new slice with the bytes of `value`.  A free buffer exists
\* when there are two more buffers than Backups.
cloneBytes(value, copy) ==
    /\ copy \in Unused
    /\ heap' = [heap EXCEPT ![copy] = heap[value]]

\* Serialize, and the copy of what it returns.  (BackupContext copies it once
\* more, which changes nothing.)
serializeConnection(b) ==
    /\ \E copy \in Buffers :
         /\ cloneBytes(main, copy)
         /\ slice' = [slice EXCEPT ![b] = copy]
    /\ UNCHANGED main

\* Mutant: the engine is given the Backup's own slice.
deserializeShared(b) ==
    /\ main' = slice[b]
    /\ UNCHANGED <<heap, slice>>

\* Deserialize of a copy of the image.
deserializeConnection(b) ==
    /\ \E copy \in Buffers :
         /\ cloneBytes(slice[b], copy)
         /\ main' = copy
    /\ UNCHANGED slice

\* Statements, COMMIT and ROLLBACK change the engine's buffer in place.
EngineWrites ==
    /\ heap' = [heap EXCEPT ![main] = live'[Public]]
    /\ UNCHANGED <<main, slice>>

Serializes(p) ==
    /\ BackupPublic(p)
    /\ IF pc'[p] = "backup_named" THEN serializeConnection(call[p].backup)
                                  ELSE UNCHANGED memory

Deserializes(p) ==
    /\ RestorePublic(p)
    /\ IF pc'[p] = "restore_named" THEN deserializeConnection(call[p].backup)
                                   ELSE UNCHANGED memory

Others(p) ==
    /\ \/ Invoke(p) \/ Cancel(p) \/ Finish(p)
       \/ pc[p] \notin {"backup_public", "restore_public"} /\ Step(p)
    /\ EngineWrites

MemoryNext == \E p \in Procs : Serializes(p) \/ Deserializes(p) \/ Others(p)

MemorySpec == Init /\ MemoryInit /\ [][MemoryNext]_<<vars, memory>>

-----------------------------------------------------------------------------
(* Properties *)

\* A Backup that was returned is immutable (backup.go:31, 49): the memory of its
\* public image still holds what public was when it was taken, whatever the
\* engine has written since, also after the Backup was restored.
BackupsAreImmutable ==
    \A b \in Taken : heap[slice[b]] = backups[b].images[Public]

=============================================================================
