------------------------------ MODULE TableRows ------------------------------
(***************************************************************************)
(* Insert and Find of a Table (table.go): the statement they build from a  *)
(* Go map, what the engine makes of it, and what OneContext and            *)
(* ManyContext return (schema.go).                                         *)
(*                                                                         *)
(* Columns are numbers in the order in which sort.Strings puts their       *)
(* names.  Values come without their Go types.                             *)
(***************************************************************************)
EXTENDS Relations, Sequences, SequencesExt

CONSTANTS
    Width,     \* every table has the columns 1..Width; the last is its key
    Values,    \* values other than NULL
    Default,   \* the default of every column
    MaxRows,   \* bound on the rows of all tables
    Null

ASSUME TableRowsAssumption ==
    /\ Width \in Nat \ {0}
    /\ MaxRows \in Nat
    /\ Null \notin Values /\ Default \in Values

Columns == 1..Width

\* Go maps: columns of the table, each with a value or nil, and maps with a key
\* that is no column.
Maps ==
    (UNION {[keys -> Values \cup {Null}] : keys \in SUBSET Columns})
    \cup {[c \in keys \cup {Width + 1} |-> Default] : keys \in SUBSET Columns}
StoredRows == [Columns -> Values \cup {Null}]

VARIABLE rows   \* the rows of each table that Table.Insert stored

vars == <<catalog, outcome, rows>>

Init ==
    /\ CatalogInit
    /\ rows = [r \in Relation |-> <<>>]

-----------------------------------------------------------------------------
(* The statements *)

\* The place of a column among some columns, and the columns in order.
Rank(columns, c) == Cardinality({d \in columns : d <= c})

Sorted(columns) ==
    [k \in 1..Cardinality(columns) |-> CHOOSE c \in columns : Rank(columns, c) = k]

sortedRowKeys(row) == Sorted(DOMAIN row)

\* Mutant: the arguments follow in the opposite order.
InsertStatementReversed(row) ==
    LET columns == sortedRowKeys(row)
    IN  [columns |-> columns,
         params |-> [k \in DOMAIN columns |-> k],
         arguments |-> Reverse([k \in DOMAIN columns |-> row[columns[k]]])]

\* INSERT INTO t (columns) VALUES (params) RETURNING *, with its arguments; no
\* columns are DEFAULT VALUES.
InsertStatement(row) ==
    LET columns == sortedRowKeys(row)
    IN  [columns |-> columns,
         params |-> [k \in DOMAIN columns |-> k],
         arguments |-> [k \in DOMAIN columns |-> row[columns[k]]]]

\* The columns of a template that are compared with an argument.
Compared(template) == {c \in DOMAIN template : template[c] # Null}

\* Mutant: an argument is numbered by the position of its column.
FindStatementByColumn(template) ==
    LET bound == Compared(template)
    IN  [predicates |->
           {[column |-> c,
             param |-> IF c \in bound THEN Rank(DOMAIN template, c) ELSE 0]
              : c \in DOMAIN template},
         arguments |-> [k \in DOMAIN Sorted(bound) |-> template[Sorted(bound)[k]]]]

\* SELECT * FROM t WHERE predicates: "column = $param", where an argument takes the
\* next number, or "column IS NULL" (param 0), which takes no argument.
FindStatement(template) ==
    LET bound == Compared(template)
    IN  [predicates |->
           {[column |-> c, param |-> IF c \in bound THEN Rank(bound, c) ELSE 0]
              : c \in DOMAIN template},
         arguments |-> [k \in DOMAIN Sorted(bound) |-> template[Sorted(bound)[k]]]]

-----------------------------------------------------------------------------
(* The engine *)

\* The argument of a placeholder; NULL if it has none.
Bound(statement, param) ==
    IF param \in DOMAIN statement.arguments THEN statement.arguments[param] ELSE Null

\* The row an INSERT stores: the default where no column is named.
StoredRow(statement) ==
    [c \in Columns |->
       IF \E k \in DOMAIN statement.columns : statement.columns[k] = c
         THEN LET k == CHOOSE k \in DOMAIN statement.columns : statement.columns[k] = c
              IN  Bound(statement, statement.params[k])
         ELSE Default]

Stored(r) == {rows[r][k] : k \in DOMAIN rows[r]}

\* The elements of a sequence that are in the set, in order.
Among(sequence, set) == SelectSeq(sequence, LAMBDA row : row \in set)

\* A comparison with NULL is not true.
Matches(row, statement, p) ==
    IF p.param = 0 THEN row[p.column] = Null
    ELSE /\ Bound(statement, p.param) # Null
         /\ row[p.column] = Bound(statement, p.param)

Selected(r, statement) ==
    Among(rows[r], {row \in Stored(r) : \A p \in statement.predicates :
                                           Matches(row, statement, p)})

-----------------------------------------------------------------------------
(* The calls *)

\* Exactly one row, or an error.
OneContext(found) ==
    CASE Len(found) = 0 -> [state |-> "ErrNoRows", row |-> None]
      [] Len(found) = 1 -> [state |-> "ok", row |-> found[1]]
      [] OTHER          -> [state |-> "ErrTooManyRows", row |-> None]

\* What the engine says to a statement on r with these columns; text is what it
\* says of an unknown column.
Known(r, columns, text) ==
    IF r \notin tables THEN Error({"no such table"})
    ELSE IF columns \subseteq Columns THEN "ok"
    ELSE Error(text)

\* What it says to a new row of r.
Checked(r, stored) ==
    IF stored[Width] = Null THEN sqlState([code |-> "NOTNULL", text |-> {}])
    ELSE IF \A k \in DOMAIN rows[r] : rows[r][k][Width] # stored[Width] THEN "ok"
    ELSE sqlState([code |-> "PRIMARYKEY", text |-> {}])

RowCount == FoldSet(LAMBDA r, n : n + Len(rows[r]), 0, Relation)

\* InsertContext.  An unknown column is "table t has no column named c" to the
\* engine, which is no phrase of sqlState.
Insert(row) ==
    LET r      == qualifiedName
        meant  == <<SpaceOf(handle.schema), handle.name>>
        stored == StoredRow(InsertStatement(row))
        known  == Known(r, DOMAIN row, {})
        state  == IF known = "ok" THEN Checked(r, stored) ELSE known
        Ends(answer) == outcome' = [op |-> "insert", meant |-> meant, map |-> row,
                                    state |-> answer.state, row |-> answer.row]
    IN  /\ handle # None
        /\ \/ /\ state # "ok"
              /\ Ends([state |-> state, row |-> None])
              /\ UNCHANGED <<writers, rows>>
           \/ /\ state = "ok"
              /\ RowCount < MaxRows
              /\ rows' = [rows EXCEPT ![r] = Append(@, stored)]
              /\ writers' = [writers EXCEPT ![r] = @ \cup {meant}]
              /\ Ends(OneContext(<<stored>>))
        /\ UNCHANGED <<tables, references, declared, handle>>

\* An interceptor answers the INSERT with rows of its own: nothing is stored.
InsertIntercepted(found) ==
    /\ handle # None
    /\ outcome' = [op |-> "intercepted", found |-> found,
                   state |-> OneContext(found).state, row |-> OneContext(found).row]
    /\ UNCHANGED <<catalog, rows>>

\* FindContext.
Find(template) ==
    LET r     == qualifiedName
        state == Known(r, DOMAIN template, {"no such column"})
    IN  /\ handle # None
        /\ outcome' = [op |-> "find", meant |-> <<SpaceOf(handle.schema), handle.name>>,
                       map |-> template, state |-> state,
                       found |-> IF state = "ok" THEN Selected(r, FindStatement(template))
                                                 ELSE <<>>]
        /\ UNCHANGED <<catalog, rows>>

-----------------------------------------------------------------------------
(* The specification *)

\* Rows go with their table.
Statement ==
    /\ CatalogStep
    /\ rows' = [r \in Relation |-> IF r \in tables' THEN rows[r] ELSE <<>>]

Next ==
    \/ Statement
    \/ \E map \in Maps : Insert(map) \/ Find(map)
    \/ \E n \in 0..2 : InsertIntercepted([k \in 1..n |-> "row"])

Spec == Init /\ [][Next]_vars

-----------------------------------------------------------------------------
(* Properties *)

\* Every variable has its type; only tables have rows, and their keys are
\* distinct.
TypeOK ==
    /\ CatalogTypeOK
    /\ \A r \in Relation : rows[r] # <<>> => r \in tables
    /\ \A r \in Relation : \A k \in DOMAIN rows[r] :
         /\ rows[r][k] \in StoredRows
         /\ \A l \in 1..(k - 1) : rows[r][l][Width] # rows[r][k][Width]

\* A row Insert returns is the row that was stored last in the table the handle
\* means: the map's values in the columns it names, an explicit nil included,
\* and the defaults elsewhere.  If an interceptor answered, it is the only row
\* of its answer.
InsertIsExact ==
    /\ outcome.op = "insert" /\ outcome.state = "ok" =>
         /\ rows[outcome.meant] # <<>> /\ outcome.row = Last(rows[outcome.meant])
         /\ \A c \in Columns :
              outcome.row[c] = IF c \in DOMAIN outcome.map THEN outcome.map[c]
                                                         ELSE Default
    /\ outcome.op = "intercepted" /\ outcome.state = "ok" =>
         outcome.found = <<outcome.row>>

\* Find returns, in order, the rows of the table the handle means that agree with
\* every entry of the template, where nil agrees with NULL only; however nils and
\* values are mixed, no argument reaches the wrong column.
FindIsExact ==
    outcome.op = "find" /\ outcome.state = "ok" =>
      outcome.found = Among(rows[outcome.meant],
                        {row \in Stored(outcome.meant) :
                           \A c \in DOMAIN outcome.map : row[c] = outcome.map[c]})

\* An Insert or Find that fails reports the SQLSTATE of its cause, also through a
\* handle whose relation is gone; and no statement or lookup reports an undefined
\* table that exists (UndefinedMeansUndefined).  (The unknown column of an INSERT
\* is the one undefined column that sqlState does not know.)
ErrorsNameTheirCause ==
    LET unknown == ~(DOMAIN outcome.map \subseteq Columns)
        cause   == IF outcome.meant \notin tables THEN "42P01"
                   ELSE IF unknown /\ outcome.op = "insert" THEN "XX000"
                   ELSE IF unknown THEN "42703"
                   ELSE IF Width \in DOMAIN outcome.map /\ outcome.map[Width] = Null
                     THEN "23502"
                   ELSE "23505"
    IN  /\ UndefinedMeansUndefined
        /\ outcome.op \in {"insert", "find"} /\ outcome.state # "ok"
             => outcome.state = cause

=============================================================================
