--------------------------- MODULE MCTransactions ----------------------------
(* The run of Transactions: its calls can be exchanged. *)
EXTENDS Transactions, TLC

CallSymmetry == Permutations(Calls)
=============================================================================
