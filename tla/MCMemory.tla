------------------------------ MODULE MCMemory -------------------------------
(* The run of Database with the memory of its public images. *)
EXTENDS MCDatabase, DatabaseMemory
=============================================================================
