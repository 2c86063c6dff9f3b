----------------------------- MODULE Diagnostics -----------------------------
(***************************************************************************)
(* SQLSTATE of an engine error (sqlState and executionError of             *)
(* database.go, Error of errors.go).  A cause is the extended result code  *)
(* and the set of the phrases sqlState looks for that occur in its text.   *)
(***************************************************************************)
EXTENDS Naturals, FiniteSetsExt, TLC

\* The result codes that have a SQLSTATE of their own.
CodeStates ==
    [PRIMARYKEY |-> "23505", UNIQUE |-> "23505", NOTNULL |-> "23502",
     FOREIGNKEY |-> "23503", CHECK |-> "23514", BUSY |-> "40001", LOCKED |-> "40001"]

\* The phrases, in the order in which they are looked for.
TextStates ==
    << <<"pgmem function", "38000">>, <<"no such table", "42P01">>,
       <<"no such column", "42703">>, <<"syntax error", "42601">> >>

TextState(text) ==
    LET found == {k \in DOMAIN TextStates : TextStates[k][1] \in text}
    IN  IF found = {} THEN "XX000" ELSE TextStates[Min(found)][2]

\* Mutant: the text of a callback's error is looked at first.
sqlStateLast(cause) ==
    LET found == {k \in DOMAIN TextStates : TextStates[k][1] \in cause.text}
    IN  IF found = {} THEN "XX000" ELSE TextStates[Max(found)][2]

sqlState(cause) ==
    IF cause.code \in DOMAIN CodeStates THEN CodeStates[cause.code]
                                        ELSE TextState(cause.text)

=============================================================================
