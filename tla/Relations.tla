------------------------------ MODULE Relations ------------------------------
(***************************************************************************)
(* Which relation a statement means, and which one the engine uses: the    *)
(* schema qualification of the translator (translator.go) and the checked  *)
(* handles of table.go.  TableRows adds the rows of the tables.            *)
(*                                                                         *)
(* The engine calls the public schema main, and looks an unqualified name  *)
(* up in main first and then in the attached schemas.                      *)
(***************************************************************************)
EXTENDS Diagnostics

CONSTANTS
    Named,   \* the schemas beside public
    Names,   \* names of relations
    None

ASSUME RelationsAssumption ==
    /\ Named \cap {"public", "main", ""} = {}
    /\ None \notin Names

Schemas == {"public"} \cup Named
Spaces  == {"main"} \cup Named

\* The schema qualifiers a statement may carry.
Qualifiers == {"", "main"} \cup Schemas

VARIABLES
    tables,      \* the relations the engine has
    references,  \* the foreign key of each table, as the engine resolves it
    writers,     \* history: what the statements that wrote to a table meant
    declared,    \* history: what the foreign key of a table meant
    handle,      \* a Table obtained earlier
    outcome      \* the last statement: what it meant, did and reported

catalog == <<tables, references, writers, declared, handle>>

Relation == Spaces \X Names

CatalogInit ==
    /\ tables = {}
    /\ references = [r \in Relation |-> None]
    /\ writers = [r \in Relation |-> {}]
    /\ declared = [r \in Relation |-> None]
    /\ handle = None
    /\ outcome = [op |-> "none", state |-> "ok"]

-----------------------------------------------------------------------------
(* What a name means in PostgreSQL, with the handle's schema as search path *)

SpaceOf(schema) == IF schema = "public" THEN "main" ELSE schema

Meaning(schema, qualifier, name) ==
    <<SpaceOf(IF qualifier = "" THEN schema ELSE qualifier), name>>

-----------------------------------------------------------------------------
(* The translator *)

\* Mutant: public is not translated.
rewriteRelationRaw(schema, qualifier) ==
    IF qualifier = "" THEN SpaceOf(schema) ELSE qualifier

\* rewritePostgreSQLTree on a RangeVar: the qualifier it gets.
rewriteRelation(schema, qualifier) ==
    CASE qualifier = "public" -> "main"
      [] qualifier = "" /\ schema = "public" -> "main"
      [] qualifier = "" /\ schema # "public" -> schema
      [] OTHER -> qualifier

\* Mutant: every qualifier of a foreign key is cleared.
clearAllQualifiers(target, space) == ""

\* The qualifier that is left on the target of a foreign key of CREATE TABLE.
clearSameSchemaForeignKeyQualifiers(target, space) ==
    IF target = space THEN "" ELSE target

-----------------------------------------------------------------------------
(* The engine *)

Error(text) == sqlState([code |-> "ERROR", text |-> text])

\* The relations an engine name can be: all of that name if it is unqualified.
Candidates(space, name) ==
    {r \in tables : r[2] = name /\ space \in {"", r[1]}}

\* The one it is: main before the attached schemas.
Resolved(space, name) ==
    LET found == Candidates(space, name)
    IN  IF <<"main", name>> \in found THEN <<"main", name>>
        ELSE CHOOSE r \in found : TRUE

Reports(op, meant, state) ==
    outcome' = [op |-> op, meant |-> meant, state |-> state]

-----------------------------------------------------------------------------
(* Statements of a schema handle *)

\* CREATE TABLE, with a foreign key to fname if fname # None.  The engine looks
\* for a table of that name before it parses the columns; a qualifier that is
\* left on the foreign key is a syntax error to it, and without one the target is
\* in the table's own schema.
Create(schema, qualifier, name, fqualifier, fname) ==
    LET space   == rewriteRelation(schema, qualifier)
        created == <<space, name>>
        meant   == Meaning(schema, qualifier, name)
        target  == IF fname = None THEN None ELSE Meaning(schema, fqualifier, fname)
        left    == IF fname = None THEN ""
                   ELSE clearSameSchemaForeignKeyQualifiers(
                          rewriteRelation(schema, fqualifier), space)
        Ends(state) ==
          outcome' = [op |-> "create", meant |-> meant, target |-> target,
                      state |-> state]
    IN  \/ /\ created \in tables
           /\ Ends(Error({}))   \* "table t already exists"
           /\ UNCHANGED catalog
        \/ /\ left # "" /\ created \notin tables
           /\ Ends(Error({"syntax error"}))
           /\ UNCHANGED catalog
        \/ /\ left = "" /\ created \notin tables
           /\ tables' = tables \cup {created}
           /\ references' = [references EXCEPT ![created] =
                               IF fname = None THEN None ELSE <<space, fname>>]
           /\ declared' = [declared EXCEPT ![created] = target]
           /\ writers' = [writers EXCEPT ![created] = {meant}]
           /\ Ends("ok")
           /\ UNCHANGED handle

\* A statement that reaches the engine with this qualifier.
WriteTo(space, name, meant) ==
    /\ IF Candidates(space, name) = {}
         THEN /\ Reports("write", meant, Error({"no such table"}))
              /\ UNCHANGED writers
         ELSE /\ writers' = [writers EXCEPT ![Resolved(space, name)] = @ \cup {meant}]
              /\ Reports("write", meant, "ok")
    /\ UNCHANGED <<tables, references, declared, handle>>

\* Mutant: an unqualified name is left to the engine.
WriteUnqualified(schema, qualifier, name) ==
    WriteTo(SpaceOf(qualifier), name, Meaning(schema, qualifier, name))

\* INSERT, UPDATE and DELETE name their relation with a RangeVar.
Write(schema, qualifier, name) ==
    WriteTo(rewriteRelation(schema, qualifier), name, Meaning(schema, qualifier, name))

\* ALTER TABLE ... ADD COLUMN ... REFERENCES: the foreign key gets a qualifier,
\* which only CREATE TABLE clears.  The engine looks for the table first.
AlterAddForeignKey(schema, qualifier, name) ==
    /\ \A fqualifier \in Qualifiers : rewriteRelation(schema, fqualifier) # ""
    /\ Reports("alter", Meaning(schema, qualifier, name),
               IF Candidates(rewriteRelation(schema, qualifier), name) = {}
                 THEN Error({"no such table"})
                 ELSE Error({"syntax error"}))
    /\ UNCHANGED catalog

\* DROP TABLE carries lists of names, not RangeVars: the translator leaves them
\* as they are.
Drop(schema, qualifier, name) ==
    LET meant == Meaning(schema, qualifier, name)
        r     == Resolved(qualifier, name)
    IN  \/ /\ Candidates(qualifier, name) = {}
           /\ Reports("drop", meant, Error({"no such table"}))
           /\ UNCHANGED catalog
        \/ /\ Candidates(qualifier, name) # {}
           /\ tables' = tables \ {r}
           /\ references' = [references EXCEPT ![r] = None]
           /\ declared' = [declared EXCEPT ![r] = None]
           /\ writers' = [writers EXCEPT ![r] = {}]
           /\ outcome' = [op |-> "drop", meant |-> meant, gone |-> r, state |-> "ok"]
           /\ UNCHANGED handle

-----------------------------------------------------------------------------
(* Table handles *)

internalName(schema) == IF schema = "public" THEN "main" ELSE schema

\* TableContext looks for the relation in the schema's catalog.
GetTable(schema, name) ==
    LET exists == <<internalName(schema), name>> \in tables
    IN  /\ handle' = IF exists THEN [schema |-> schema, name |-> name] ELSE handle
        /\ Reports("table", <<SpaceOf(schema), name>>, IF exists THEN "ok" ELSE "42P01")
        /\ UNCHANGED <<tables, references, writers, declared>>

\* Where a statement of the handle goes: it carries qualifiedName and passes the
\* translator again.  The relation may be gone.
qualifiedName ==
    <<rewriteRelation(handle.schema, internalName(handle.schema)), handle.name>>

-----------------------------------------------------------------------------

CatalogStep ==
    \E schema \in Schemas, name \in Names :
      \/ \E q \in Qualifiers :
           \/ Write(schema, q, name) \/ Drop(schema, q, name)
           \/ Create(schema, q, name, "", None)
           \/ \E fq \in Qualifiers, fname \in Names : Create(schema, q, name, fq, fname)
           \/ AlterAddForeignKey(schema, q, name)
      \/ GetTable(schema, name)

-----------------------------------------------------------------------------
(* Properties *)

\* Every variable of the catalog has its type, and only tables that exist have
\* contents and foreign keys.
CatalogTypeOK ==
    /\ tables \subseteq Relation
    /\ references \in [Relation -> Relation \cup {None}]
    /\ declared \in [Relation -> Relation \cup {None}]
    /\ \A r \in Relation \ tables : writers[r] = {} /\ references[r] = None
    /\ handle \in {None} \cup [schema : Schemas, name : Names]

\* Same-named tables of different schemas stay apart: whatever was created and
\* written in a relation, through any handle, qualifier or stale Table, was meant
\* for it.
WritesStayHome == \A r \in tables : writers[r] = {r}

\* A foreign key points where its statement said, even when the other schema has
\* a table of that name: one the engine cannot express is refused, never
\* retargeted; and one inside a schema, however its names are qualified, is
\* accepted.
ForeignKeysKeepTheirMeaning ==
    /\ \A r \in tables : references[r] = declared[r]
    /\ outcome.op = "create" /\ outcome.state = "42601"
         => outcome.target[1] # outcome.meant[1]

\* A statement or a Table lookup reports an undefined table only if the relation
\* it means does not exist (DROP apart).
UndefinedMeansUndefined ==
    outcome.state = "42P01" /\ outcome.op # "drop" => outcome.meant \notin tables

\* DROP TABLE drops the table it means, and no table of another schema: "a named
\* Schema qualifies unqualified relations, same-named tables remain isolated".
DropStaysHome ==
    outcome.op = "drop" /\ outcome.state = "ok" => outcome.gone = outcome.meant

=============================================================================
