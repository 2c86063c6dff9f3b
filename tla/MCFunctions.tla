----------------------------- MODULE MCFunctions -----------------------------
(***************************************************************************)
(* ScalarFunctions for TLC: the DBs are interchangeable.                   *)
(***************************************************************************)
EXTENDS ScalarFunctions

Interchangeable == Permutations(DBs)

=============================================================================
