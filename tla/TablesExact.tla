----------------------------- MODULE TablesExact -----------------------------
(***************************************************************************)
(* Theorems about Relations and TableRows, for any schemas, names, widths  *)
(* and values: statements reach the relation they mean, and Insert and     *)
(* Find store, return and report what their map says.                      *)
(***************************************************************************)
EXTENDS TableRows, FiniteSetTheorems, TLAPS

(* Columns in order *)

\* The places of n columns are 1 to n, a later column has a later place, and
\* every place is taken.
LEMMA RankIs ==
    ASSUME NEW S \in SUBSET Nat, IsFiniteSet(S)
    PROVE  /\ Cardinality(S) \in Nat
           /\ \A c \in S : Rank(S, c) \in 1..Cardinality(S)
           /\ \A c, d \in S : Rank(S, c) = Rank(S, d) => c = d
           /\ \A k \in 1..Cardinality(S) : \E c \in S : Rank(S, c) = k
<1> DEFINE Upto(c) == {d \in S : d <= c}
<1> DEFINE f == [c \in S |-> Rank(S, c)]
<1>1. Cardinality(S) \in Nat
  BY FS_CardinalityType
<1>2. ASSUME NEW c \in S
      PROVE  IsFiniteSet(Upto(c)) /\ Cardinality(Upto(c)) \in 1..Cardinality(S)
  <2>1. Upto(c) \in SUBSET S
    OBVIOUS
  <2>2. IsFiniteSet(Upto(c)) /\ Cardinality(Upto(c)) <= Cardinality(S)
    BY <2>1, FS_Subset
  <2>3. Cardinality(Upto(c)) \in Nat
    BY <2>2, FS_CardinalityType
  <2>4. c \in Upto(c)
    OBVIOUS
  <2>5. Upto(c) # {}
    BY <2>4
  <2>6. Cardinality(Upto(c)) # 0
    BY <2>2, <2>5, FS_EmptySet
  <2> QED BY <1>1, <2>2, <2>3, <2>6
<1>3. ASSUME NEW c \in S, NEW d \in S, c < d
      PROVE  Cardinality(Upto(c)) # Cardinality(Upto(d))
  <2>1. Upto(c) \in SUBSET Upto(d)
    <3>1. \A e \in S : e <= c => e <= d
      BY <1>3
    <3> QED BY <3>1
  <2>2. d \in Upto(d) /\ d \notin Upto(c)
    BY <1>3
  <2>3. Upto(c) # Upto(d)
    BY <2>2
  <2> QED BY <1>2, <2>1, <2>3, FS_Subset
<1>4. \A c, d \in S : Rank(S, c) = Rank(S, d) => c = d
  <2> SUFFICES ASSUME NEW c \in S, NEW d \in S, c # d
               PROVE  Rank(S, c) # Rank(S, d)
    OBVIOUS
  <2>1. c < d \/ d < c
    OBVIOUS
  <2> QED BY <1>3, <2>1 DEF Rank
<1>5. \A c \in S : Rank(S, c) \in 1..Cardinality(S)
  BY <1>2 DEF Rank
<1>6. f \in Injection(S, 1..Cardinality(S))
  <2>1. f \in [S -> 1..Cardinality(S)]
    BY <1>5
  <2>2. \A c, d \in S : f[c] = f[d] => c = d
    BY <1>4
  <2> QED BY <2>1, <2>2 DEF Injection, IsInjective
<1>7. IsFiniteSet(1..Cardinality(S)) /\ Cardinality(1..Cardinality(S)) = Cardinality(S)
  BY <1>1, FS_Interval
<1>8. f \in Surjection(S, 1..Cardinality(S))
  BY <1>6, <1>7, FS_Injection
<1>9. \A k \in 1..Cardinality(S) : \E c \in S : f[c] = k
  BY <1>8 DEF Surjection
<1> QED BY <1>1, <1>4, <1>5, <1>9

\* Sorted enumerates the columns by their places.
LEMMA SortedIs ==
    ASSUME NEW S \in SUBSET Nat, IsFiniteSet(S)
    PROVE  /\ DOMAIN Sorted(S) = 1..Cardinality(S)
           /\ \A k \in DOMAIN Sorted(S) : Sorted(S)[k] \in S
           /\ \A c \in S : Rank(S, c) \in DOMAIN Sorted(S) /\ Sorted(S)[Rank(S, c)] = c
<1>1. DOMAIN Sorted(S) = 1..Cardinality(S)
  BY DEF Sorted
<1>2. ASSUME NEW k \in 1..Cardinality(S)
      PROVE  Sorted(S)[k] \in S /\ Rank(S, Sorted(S)[k]) = k
  <2>1. \E c \in S : Rank(S, c) = k
    BY RankIs
  <2>2. Sorted(S)[k] = CHOOSE c \in S : Rank(S, c) = k
    BY DEF Sorted
  <2> QED BY <2>1, <2>2
<1>3. ASSUME NEW c \in S
      PROVE  Rank(S, c) \in 1..Cardinality(S) /\ Sorted(S)[Rank(S, c)] = c
  <2>1. Rank(S, c) \in 1..Cardinality(S)
    BY RankIs
  <2>2. Sorted(S)[Rank(S, c)] \in S /\ Rank(S, Sorted(S)[Rank(S, c)]) = Rank(S, c)
    BY <1>2, <2>1
  <2>3. \A d, e \in S : Rank(S, d) = Rank(S, e) => d = e
    BY RankIs
  <2> QED BY <2>1, <2>2, <2>3
<1> QED BY <1>1, <1>2, <1>3

\* The maps of the calls: values of columns of the table, and maps with another
\* key.
LEMMA MapsAre ==
    ASSUME NEW map \in Maps
    PROVE  /\ DOMAIN map \in SUBSET Nat /\ IsFiniteSet(DOMAIN map)
           /\ \A c \in DOMAIN map : map[c] \in Values \cup {Null}
           /\ \A c \in DOMAIN map : c \in 1..(Width + 1)
<1> USE TableRowsAssumption
<1> DEFINE proper  == UNION {[keys -> Values \cup {Null}] : keys \in SUBSET Columns}
           unknown == {[c \in keys \cup {Width + 1} |-> Default] : keys \in SUBSET Columns}
           Good == /\ DOMAIN map \in SUBSET (1..(Width + 1))
                   /\ \A c \in DOMAIN map : map[c] \in Values \cup {Null}
<1>1. Good
  <2>1. ASSUME map \in proper PROVE Good
    <3>1. PICK keys \in SUBSET Columns : map \in [keys -> Values \cup {Null}]
      BY <2>1
    <3>2. keys \in SUBSET (1..(Width + 1))
      BY DEF Columns
    <3> QED BY <3>1, <3>2
  <2>2. ASSUME map \in unknown PROVE Good
    <3>1. PICK keys \in SUBSET Columns : map = [c \in keys \cup {Width + 1} |-> Default]
      BY <2>2
    <3>2. keys \cup {Width + 1} \in SUBSET (1..(Width + 1))
      BY DEF Columns
    <3> QED BY <3>1, <3>2
  <2>3. Maps = proper \cup unknown
    BY DEF Maps
  <2> HIDE DEF proper, unknown, Good
  <2> QED BY <2>1, <2>2, <2>3
<1>2. IsFiniteSet(1..(Width + 1))
  BY FS_Interval
<1>3. IsFiniteSet(DOMAIN map)
  BY <1>1, <1>2, FS_Subset
<1>4. DOMAIN map \in SUBSET Nat
  BY <1>1
<1> QED BY <1>1, <1>3, <1>4

-----------------------------------------------------------------------------
(* The statements say what the map says *)

\* An INSERT of a map stores its values in the columns it names and the default
\* in the others.
LEMMA StoredRowIs ==
    ASSUME NEW map \in Maps, DOMAIN map \subseteq Columns
    PROVE  StoredRow(InsertStatement(map)) =
             [c \in Columns |-> IF c \in DOMAIN map THEN map[c] ELSE Default]
<1> DEFINE s == InsertStatement(map)
           keys == Sorted(DOMAIN map)
<1>1. /\ DOMAIN keys = 1..Cardinality(DOMAIN map)
      /\ \A k \in DOMAIN keys : keys[k] \in DOMAIN map
      /\ \A c \in DOMAIN map : Rank(DOMAIN map, c) \in DOMAIN keys
                             /\ keys[Rank(DOMAIN map, c)] = c
  BY MapsAre, SortedIs
<1>2. /\ s.columns = keys
      /\ \A k \in DOMAIN keys : s.params[k] = k
      /\ DOMAIN s.arguments = DOMAIN keys
      /\ \A k \in DOMAIN keys : s.arguments[k] = map[keys[k]]
  BY DEF InsertStatement, sortedRowKeys
<1> HIDE DEF s, keys
<1>3. ASSUME NEW c \in Columns, c \in DOMAIN map
      PROVE  StoredRow(s)[c] = map[c]
  <2>1. \E k \in DOMAIN keys : keys[k] = c
    BY <1>1, <1>3
  <2>2. PICK k \in DOMAIN keys : /\ keys[k] = c
                                /\ k = CHOOSE n \in DOMAIN keys : keys[n] = c
    BY <2>1
  <2>3. Bound(s, s.params[k]) = map[c]
    BY <1>2, <2>2 DEF Bound
  <2>4. StoredRow(s)[c] = Bound(s, s.params[CHOOSE n \in DOMAIN keys : keys[n] = c])
    BY <1>2, <2>1 DEF StoredRow
  <2> QED BY <2>2, <2>3, <2>4
<1>4. ASSUME NEW c \in Columns, c \notin DOMAIN map
      PROVE  StoredRow(s)[c] = Default
  <2>1. ~ \E k \in DOMAIN keys : keys[k] = c
    BY <1>1, <1>4
  <2> QED BY <1>2, <2>1 DEF StoredRow
<1>5. StoredRow(s) = [c \in Columns |-> StoredRow(s)[c]]
  BY DEF StoredRow
<1>6. StoredRow(s) = [c \in Columns |-> IF c \in DOMAIN map THEN map[c] ELSE Default]
  BY <1>3, <1>4, <1>5
<1> QED BY <1>6 DEF s

\* The stored row is well typed, and its key is NULL only if the map says so.
LEMMA StoredRowTypes ==
    ASSUME NEW map \in Maps, DOMAIN map \subseteq Columns
    PROVE  LET stored == StoredRow(InsertStatement(map))
           IN  /\ stored \in StoredRows
               /\ stored[Width] = Null <=> Width \in DOMAIN map /\ map[Width] = Null
<1> USE TableRowsAssumption
<1>1. Width \in Columns
  BY DEF Columns
<1>2. \A c \in DOMAIN map : map[c] \in Values \cup {Null}
  BY MapsAre
<1>3. \A c \in Columns : (IF c \in DOMAIN map THEN map[c] ELSE Default) \in Values \cup {Null}
  BY <1>2
<1> QED BY <1>1, <1>3, StoredRowIs DEF StoredRows

\* A row matches the statement of a template if it agrees with every entry,
\* where an argument is never NULL and always the one of its column.
LEMMA FindMatches ==
    ASSUME NEW template \in Maps, NEW row
    PROVE  (\A p \in FindStatement(template).predicates :
              Matches(row, FindStatement(template), p))
           <=> \A c \in DOMAIN template : row[c] = template[c]
<1> DEFINE s == FindStatement(template)
           bound == Compared(template)
           param(c) == IF c \in bound THEN Rank(bound, c) ELSE 0
<1>1. DOMAIN template \in SUBSET Nat /\ IsFiniteSet(DOMAIN template)
  BY MapsAre
<1>2. bound \in SUBSET DOMAIN template
  BY DEF Compared
<1>3. bound \in SUBSET Nat /\ IsFiniteSet(bound)
  BY <1>1, <1>2, FS_Subset
<1>4. /\ DOMAIN Sorted(bound) = 1..Cardinality(bound)
      /\ \A c \in bound : Rank(bound, c) \in DOMAIN Sorted(bound)
                          /\ Sorted(bound)[Rank(bound, c)] = c
  BY <1>3, SortedIs
<1>5. /\ s.predicates = {[column |-> c, param |-> param(c)] : c \in DOMAIN template}
      /\ DOMAIN s.arguments = DOMAIN Sorted(bound)
      /\ \A k \in DOMAIN Sorted(bound) : s.arguments[k] = template[Sorted(bound)[k]]
  BY DEF FindStatement
<1> HIDE DEF s
<1>6. ASSUME NEW c \in DOMAIN template
      PROVE  Matches(row, s, [column |-> c, param |-> param(c)]) <=> row[c] = template[c]
  <2>1. CASE template[c] = Null
    <3>1. param(c) = 0
      BY <2>1 DEF Compared
    <3> QED BY <2>1, <3>1 DEF Matches
  <2>2. CASE template[c] # Null
    <3>1. c \in bound
      BY <2>2 DEF Compared
    <3>2. Cardinality(bound) \in Nat
      BY <1>3, FS_CardinalityType
    <3>3. param(c) = Rank(bound, c) /\ param(c) # 0
      BY <1>4, <3>1, <3>2
    <3>4. Bound(s, param(c)) = template[c]
      BY <1>4, <1>5, <3>1, <3>3 DEF Bound
    <3> HIDE DEF param
    <3> QED BY <2>2, <3>3, <3>4 DEF Matches
  <2> QED BY <2>1, <2>2
<1> DEFINE P(c) == [column |-> c, param |-> param(c)]
<1>7. \A c \in DOMAIN template : P(c) \in s.predicates
  BY <1>5
<1>8. \A p \in s.predicates : \E c \in DOMAIN template : p = P(c)
  BY <1>5
<1>9. \A c \in DOMAIN template : Matches(row, s, P(c)) <=> row[c] = template[c]
  BY <1>6
<1> HIDE DEF P
<1>10. (\A p \in s.predicates : Matches(row, s, p))
       <=> \A c \in DOMAIN template : row[c] = template[c]
  BY <1>7, <1>8, <1>9
<1> QED BY <1>10 DEF s

-----------------------------------------------------------------------------
(* Qualified names and errors *)

\* The translator qualifies a relation with the space it means.
LEMMA Qualified ==
    ASSUME NEW schema \in Schemas, NEW q \in Qualifiers, NEW name
    PROVE  /\ rewriteRelation(schema, q) \in Spaces
           /\ Meaning(schema, q, name) = <<rewriteRelation(schema, q), name>>
BY RelationsAssumption
   DEF Schemas, Qualifiers, Spaces, rewriteRelation, Meaning, SpaceOf

\* A qualified name is the relation of that name in the space, if it exists.
LEMMA QualifiedIsResolved ==
    ASSUME tables \subseteq Relation, NEW space \in Spaces, NEW name \in Names
    PROVE  /\ Candidates(space, name) = {} <=> <<space, name>> \notin tables
           /\ <<space, name>> \in tables => Resolved(space, name) = <<space, name>>
<1>1. space # ""
  BY RelationsAssumption DEF Spaces
<1>2. Candidates(space, name) = {<<space, name>>} \cap tables
  <2>1. \A r \in tables : r[2] = name /\ space = r[1] <=> r = <<space, name>>
    BY DEF Relation
  <2>2. \A r : r \in Candidates(space, name)
               <=> r \in tables /\ r[2] = name /\ space = r[1]
    BY <1>1 DEF Candidates
  <2> QED BY <2>1, <2>2
<1>3. ASSUME <<space, name>> \in tables
      PROVE  Resolved(space, name) = <<space, name>>
  <2>1. Candidates(space, name) = {<<space, name>>}
    BY <1>2, <1>3
  <2>2. (CHOOSE r \in {<<space, name>>} : TRUE) = <<space, name>>
    OBVIOUS
  <2> QED BY <2>1, <2>2 DEF Resolved
<1> QED BY <1>2, <1>3

\* A name that resolves does so to a table.
LEMMA ResolvedIsATable ==
    ASSUME NEW space, NEW name, Candidates(space, name) # {}
    PROVE  Resolved(space, name) \in tables
<1>1. Candidates(space, name) \subseteq tables
  BY DEF Candidates
<1>2. (CHOOSE r \in Candidates(space, name) : TRUE) \in Candidates(space, name)
  OBVIOUS
<1> QED BY <1>1, <1>2 DEF Resolved

\* Where a handle goes is where it was meant.
LEMMA HandleIsExact ==
    ASSUME handle # None, handle \in {None} \cup [schema : Schemas, name : Names]
    PROVE  /\ qualifiedName = <<SpaceOf(handle.schema), handle.name>>
           /\ qualifiedName \in Relation
BY RelationsAssumption
   DEF Schemas, Spaces, Relation, qualifiedName, rewriteRelation, internalName, SpaceOf

\* The SQLSTATE of an error is the one of its phrase.
LEMMA ErrorsAre ==
    /\ Error({}) = "XX000"
    /\ Error({"no such table"}) = "42P01"
    /\ Error({"no such column"}) = "42703"
    /\ Error({"syntax error"}) = "42601"
    /\ sqlState([code |-> "NOTNULL", text |-> {}]) = "23502"
    /\ sqlState([code |-> "PRIMARYKEY", text |-> {}]) = "23505"
<1> DEFINE Found(text) == {k \in DOMAIN TextStates : TextStates[k][1] \in text}
<1>1. /\ DOMAIN TextStates = 1..4
      /\ TextStates[1][1] = "pgmem function"
      /\ TextStates[2][1] = "no such table" /\ TextStates[2][2] = "42P01"
      /\ TextStates[3][1] = "no such column" /\ TextStates[3][2] = "42703"
      /\ TextStates[4][1] = "syntax error" /\ TextStates[4][2] = "42601"
  BY DEF TextStates
<1>2. /\ Found({}) = {} /\ Found({"no such table"}) = {2}
      /\ Found({"no such column"}) = {3} /\ Found({"syntax error"}) = {4}
  <2>1. Found({}) = {}
    OBVIOUS
  <2>2. Found({"no such table"}) = {2}
    <3>1. \A n \in 1..4 : n = 1 \/ n = 2 \/ n = 3 \/ n = 4
      OBVIOUS
    <3>2. ASSUME NEW n \in 1..4 PROVE TextStates[n][1] = "no such table" <=> n = 2
      BY <1>1, <3>1
    <3>3. 2 \in DOMAIN TextStates /\ TextStates[2][1] \in {"no such table"}
      <4>1. 2 \in 1..4
        OBVIOUS
      <4>2. 2 \in DOMAIN TextStates
        BY <1>1, <4>1, Zenon
      <4> QED BY <1>1, <4>2
    <3>4. \A n \in DOMAIN TextStates : TextStates[n][1] \in {"no such table"} => n = 2
      BY <1>1, <3>2
    <3> QED BY <3>3, <3>4
  <2>3. Found({"no such column"}) = {3}
    <3>1. \A n \in 1..4 : n = 1 \/ n = 2 \/ n = 3 \/ n = 4
      OBVIOUS
    <3>2. ASSUME NEW n \in 1..4 PROVE TextStates[n][1] = "no such column" <=> n = 3
      BY <1>1, <3>1
    <3>3. 3 \in DOMAIN TextStates /\ TextStates[3][1] \in {"no such column"}
      <4>1. 3 \in 1..4
        OBVIOUS
      <4>2. 3 \in DOMAIN TextStates
        BY <1>1, <4>1, Zenon
      <4> QED BY <1>1, <4>2
    <3>4. \A n \in DOMAIN TextStates : TextStates[n][1] \in {"no such column"} => n = 3
      BY <1>1, <3>2
    <3> QED BY <3>3, <3>4
  <2>4. Found({"syntax error"}) = {4}
    <3>1. \A n \in 1..4 : n = 1 \/ n = 2 \/ n = 3 \/ n = 4
      OBVIOUS
    <3>2. ASSUME NEW n \in 1..4 PROVE TextStates[n][1] = "syntax error" <=> n = 4
      BY <1>1, <3>1
    <3>3. 4 \in DOMAIN TextStates /\ TextStates[4][1] \in {"syntax error"}
      <4>1. 4 \in 1..4
        OBVIOUS
      <4>2. 4 \in DOMAIN TextStates
        BY <1>1, <4>1, Zenon
      <4> QED BY <1>1, <4>2
    <3>4. \A n \in DOMAIN TextStates : TextStates[n][1] \in {"syntax error"} => n = 4
      BY <1>1, <3>2
    <3> QED BY <3>3, <3>4
  <2> QED BY <2>1, <2>2, <2>3, <2>4
<1>3. \A k \in Nat : Min({k}) = k
  BY DEF Min
<1>4. /\ TextState({}) = "XX000" /\ TextState({"no such table"}) = "42P01"
      /\ TextState({"no such column"}) = "42703" /\ TextState({"syntax error"}) = "42601"
  <2> DEFINE Of(found) == IF found = {} THEN "XX000" ELSE TextStates[Min(found)][2]
  <2>1. Of({}) = "XX000" /\ Of({2}) = "42P01" /\ Of({3}) = "42703" /\ Of({4}) = "42601"
    <3>1. Min({2}) = 2 /\ Min({3}) = 3 /\ Min({4}) = 4
      BY <1>3
    <3> QED BY <1>1, <3>1
  <2>2. \A text : TextState(text) = Of(Found(text))
    BY DEF TextState
  <2> HIDE DEF Of, Found
  <2> QED BY <1>2, <2>1, <2>2
<1>5. "ERROR" \notin DOMAIN CodeStates
  BY DEF CodeStates
<1>6. \A text : Error(text) = TextState(text)
  BY <1>5 DEF Error, sqlState
<1>7. /\ sqlState([code |-> "NOTNULL", text |-> {}]) = "23502"
      /\ sqlState([code |-> "PRIMARYKEY", text |-> {}]) = "23505"
  BY DEF sqlState, CodeStates
<1> QED BY <1>4, <1>6, <1>7

-----------------------------------------------------------------------------
(* The catalog *)

\* What statements keep: the types, and the history of every relation agrees with
\* the relation.
CatalogInv ==
    /\ CatalogTypeOK
    /\ writers \in [Relation -> SUBSET Relation]
    /\ WritesStayHome
    /\ \A r \in tables : references[r] = declared[r]

\* What a statement of a handle may report.
StatementOutcome ==
    /\ outcome.op \in {"create", "write", "alter", "drop", "table"}
    /\ ForeignKeysKeepTheirMeaning
    /\ UndefinedMeansUndefined

\* CREATE TABLE makes a relation of its own, with the foreign key it means.
LEMMA CreateStep ==
    ASSUME CatalogInv, NEW schema \in Schemas, NEW q \in Qualifiers, NEW name \in Names,
           NEW fq \in Qualifiers, NEW fname \in Names \cup {None},
           Create(schema, q, name, fq, fname)
    PROVE  CatalogInv' /\ StatementOutcome'
<1> DEFINE space == rewriteRelation(schema, q)
           fspace == rewriteRelation(schema, fq)
           created == <<space, name>>
           target == IF fname = None THEN None ELSE <<fspace, fname>>
           left == IF fname = None THEN ""
                   ELSE clearSameSchemaForeignKeyQualifiers(fspace, space)
           Ends(state) == outcome' = [op |-> "create", meant |-> created,
                                      target |-> target, state |-> state]
<1>1. /\ space \in Spaces /\ fspace \in Spaces /\ created \in Relation
      /\ Meaning(schema, q, name) = created
      /\ Meaning(schema, fq, fname) = <<fspace, fname>>
  BY Qualified DEF Relation
<1>2. \/ created \in tables /\ Ends(Error({})) /\ UNCHANGED catalog
      \/ /\ left # "" /\ created \notin tables
         /\ Ends(Error({"syntax error"})) /\ UNCHANGED catalog
      \/ /\ left = "" /\ created \notin tables
         /\ tables' = tables \cup {created}
         /\ references' = [references EXCEPT ![created] =
                             IF fname = None THEN None ELSE <<space, fname>>]
         /\ declared' = [declared EXCEPT ![created] = target]
         /\ writers' = [writers EXCEPT ![created] = {created}]
         /\ Ends("ok") /\ UNCHANGED handle
  BY <1>1 DEF Create
<1>3. left = "" => fname = None \/ fspace = space
  BY <1>1, RelationsAssumption DEF clearSameSchemaForeignKeyQualifiers, Spaces
<1>4. left # "" => fname # None /\ fspace # space
  BY DEF clearSameSchemaForeignKeyQualifiers
<1> HIDE DEF space, fspace, left
<1>5. CASE /\ left # "" /\ created \notin tables
           /\ Ends(Error({"syntax error"})) /\ UNCHANGED catalog
  <2>1. outcome' = [op |-> "create", meant |-> created, target |-> target, state |-> "42601"]
    BY <1>5, ErrorsAre
  <2>2. target = <<fspace, fname>> /\ fspace # space
    BY <1>4, <1>5
  <2>3. target[1] # created[1]
    BY <2>2
  <2> HIDE DEF target, created
  <2>4. /\ outcome'.op = "create" /\ outcome'.state = "42601"
        /\ outcome'.target[1] # outcome'.meant[1]
    BY <2>1, <2>3
  <2> QED BY <1>5, <2>4
     DEF catalog, CatalogInv, CatalogTypeOK, WritesStayHome, StatementOutcome,
         ForeignKeysKeepTheirMeaning, UndefinedMeansUndefined
<1>6. CASE created \in tables /\ Ends(Error({})) /\ UNCHANGED catalog
  <2>1. outcome'.op = "create" /\ outcome'.state = "XX000"
    BY <1>6, ErrorsAre
  <2> QED BY <1>6, <2>1
     DEF catalog, CatalogInv, CatalogTypeOK, WritesStayHome, StatementOutcome,
         ForeignKeysKeepTheirMeaning, UndefinedMeansUndefined
<1>7. CASE /\ left = "" /\ created \notin tables
           /\ tables' = tables \cup {created}
           /\ references' = [references EXCEPT ![created] =
                               IF fname = None THEN None ELSE <<space, fname>>]
           /\ declared' = [declared EXCEPT ![created] = target]
           /\ writers' = [writers EXCEPT ![created] = {created}]
           /\ Ends("ok") /\ UNCHANGED handle
  <2>1. references'[created] = target /\ target \in Relation \cup {None}
    BY <1>1, <1>3, <1>7 DEF CatalogInv, CatalogTypeOK, Relation
  <2>2. CatalogTypeOK' /\ writers' \in [Relation -> SUBSET Relation]
    BY <1>1, <1>7, <2>1 DEF CatalogInv, CatalogTypeOK
  <2>3. WritesStayHome' /\ \A r \in tables' : references'[r] = declared'[r]
    BY <1>1, <1>7, <2>1 DEF CatalogInv, CatalogTypeOK, WritesStayHome
  <2>4. outcome'.op = "create" /\ outcome'.state = "ok"
    BY <1>7
  <2> QED BY <2>2, <2>3, <2>4
     DEF CatalogInv, StatementOutcome, ForeignKeysKeepTheirMeaning,
         UndefinedMeansUndefined
<1> QED BY <1>2, <1>5, <1>6, <1>7

\* A qualified write goes to the relation it means or reports that there is none.
LEMMA WriteStep ==
    ASSUME CatalogInv, NEW schema \in Schemas, NEW q \in Qualifiers, NEW name \in Names,
           Write(schema, q, name)
    PROVE  CatalogInv' /\ StatementOutcome'
<1> DEFINE space == rewriteRelation(schema, q)
           meant == <<space, name>>
<1>1. space \in Spaces /\ meant \in Relation /\ Meaning(schema, q, name) = meant
  BY Qualified DEF Relation
<1>2. /\ Candidates(space, name) = {} <=> meant \notin tables
      /\ meant \in tables => Resolved(space, name) = meant
  BY <1>1, QualifiedIsResolved DEF CatalogInv, CatalogTypeOK
<1>3. /\ UNCHANGED <<tables, references, declared, handle>>
      /\ \/ /\ meant \notin tables
            /\ outcome' = [op |-> "write", meant |-> meant, state |-> "42P01"]
            /\ UNCHANGED writers
         \/ /\ meant \in tables
            /\ outcome' = [op |-> "write", meant |-> meant, state |-> "ok"]
            /\ writers' = [writers EXCEPT ![meant] = @ \cup {meant}]
  BY <1>1, <1>2, ErrorsAre DEF Write, WriteTo, Reports
<1> HIDE DEF space
<1>4. CatalogInv'
  BY <1>1, <1>3 DEF CatalogInv, CatalogTypeOK, WritesStayHome
<1>5. outcome'.op = "write" /\ (outcome'.state = "42P01" => outcome'.meant \notin tables')
  BY <1>3
<1> QED BY <1>4, <1>5
   DEF CatalogInv, StatementOutcome, ForeignKeysKeepTheirMeaning, UndefinedMeansUndefined

\* DROP TABLE takes the history of whatever relation it drops along.
LEMMA DropStep ==
    ASSUME CatalogInv, NEW schema \in Schemas, NEW q \in Qualifiers, NEW name \in Names,
           Drop(schema, q, name)
    PROVE  CatalogInv' /\ StatementOutcome'
<1> DEFINE r == Resolved(q, name)
<1>1. outcome'.op = "drop"
  <2>1. ASSUME NEW state, NEW meant, Reports("drop", meant, state)
        PROVE  outcome'.op = "drop"
    BY <2>1 DEF Reports
  <2>2. ASSUME NEW meant, outcome' = [op |-> "drop", meant |-> meant, gone |-> r, state |-> "ok"]
        PROVE  outcome'.op = "drop"
    BY <2>2
  <2> QED BY <2>1, <2>2, Zenon DEF Drop
<1>2. CASE UNCHANGED catalog
  BY <1>1, <1>2 DEF catalog, CatalogInv, CatalogTypeOK, WritesStayHome, StatementOutcome,
                    ForeignKeysKeepTheirMeaning, UndefinedMeansUndefined
<1>3. CASE /\ Candidates(q, name) # {}
           /\ tables' = tables \ {r}
           /\ references' = [references EXCEPT ![r] = None]
           /\ declared' = [declared EXCEPT ![r] = None]
           /\ writers' = [writers EXCEPT ![r] = {}]
           /\ UNCHANGED handle
  <2>1. r \in tables
    BY <1>3, ResolvedIsATable
  <2> HIDE DEF r
  <2>2. CatalogTypeOK' /\ writers' \in [Relation -> SUBSET Relation]
    BY <1>3, <2>1 DEF CatalogInv, CatalogTypeOK
  <2>3. WritesStayHome' /\ \A t \in tables' : references'[t] = declared'[t]
    BY <1>3, <2>1 DEF CatalogInv, CatalogTypeOK, WritesStayHome
  <2> QED BY <1>1, <2>2, <2>3
     DEF CatalogInv, StatementOutcome, ForeignKeysKeepTheirMeaning, UndefinedMeansUndefined
<1> QED BY <1>2, <1>3 DEF Drop

\* ALTER TABLE fails, with 42P01 if there is no such table, and a Table is handed out if the relation exists.
LEMMA AlterOrGetStep ==
    ASSUME CatalogInv, NEW schema \in Schemas, NEW q \in Qualifiers, NEW name \in Names,
           AlterAddForeignKey(schema, q, name) \/ GetTable(schema, name)
    PROVE  CatalogInv' /\ StatementOutcome'
<1>1. CASE AlterAddForeignKey(schema, q, name)
  <2>1. /\ Meaning(schema, q, name) = <<rewriteRelation(schema, q), name>>
        /\ Candidates(rewriteRelation(schema, q), name) = {}
             <=> Meaning(schema, q, name) \notin tables
    BY Qualified, QualifiedIsResolved DEF CatalogInv, CatalogTypeOK, Relation
  <2>2. /\ outcome'.op = "alter" /\ UNCHANGED catalog
        /\ outcome'.state = "42P01" => outcome'.meant \notin tables
    BY <1>1, <2>1, ErrorsAre DEF AlterAddForeignKey, Reports
  <2> QED BY <2>2 DEF catalog, CatalogInv, CatalogTypeOK, WritesStayHome, StatementOutcome,
                      ForeignKeysKeepTheirMeaning, UndefinedMeansUndefined
<1>2. CASE GetTable(schema, name)
  <2>1. internalName(schema) = SpaceOf(schema)
    BY DEF internalName, SpaceOf
  <2>2. /\ handle' = handle \/ handle' = [schema |-> schema, name |-> name]
        /\ outcome'.op = "table"
        /\ outcome'.state = "42P01" => outcome'.meant \notin tables
        /\ UNCHANGED <<tables, references, writers, declared>>
    BY <1>2, <2>1 DEF GetTable, Reports
  <2> QED BY <2>2 DEF CatalogInv, CatalogTypeOK, WritesStayHome, StatementOutcome,
                      ForeignKeysKeepTheirMeaning, UndefinedMeansUndefined
<1> QED BY <1>1, <1>2

\* So does every statement.
LEMMA CatalogKept ==
    ASSUME CatalogInv, CatalogStep
    PROVE  CatalogInv' /\ StatementOutcome'
<1>1. PICK schema \in Schemas, name \in Names :
        \/ \E q \in Qualifiers :
             \/ Write(schema, q, name) \/ Drop(schema, q, name)
             \/ Create(schema, q, name, "", None)
             \/ \E fq \in Qualifiers, fname \in Names : Create(schema, q, name, fq, fname)
             \/ AlterAddForeignKey(schema, q, name)
        \/ GetTable(schema, name)
  BY DEF CatalogStep
<1>2. "" \in Qualifiers /\ None \in Names \cup {None}
  BY DEF Qualifiers
<1>3. CASE GetTable(schema, name)
  BY <1>2, <1>3, AlterOrGetStep
<1>4. ASSUME NEW q \in Qualifiers,
             \/ Write(schema, q, name) \/ Drop(schema, q, name)
             \/ Create(schema, q, name, "", None)
             \/ \E fq \in Qualifiers, fname \in Names : Create(schema, q, name, fq, fname)
             \/ AlterAddForeignKey(schema, q, name)
      PROVE  CatalogInv' /\ StatementOutcome'
  <2>1. CASE Write(schema, q, name)
    BY <2>1, WriteStep
  <2>2. CASE Drop(schema, q, name)
    BY <2>2, DropStep
  <2>3. CASE Create(schema, q, name, "", None)
    BY <1>2, <2>3, CreateStep
  <2>4. ASSUME NEW fq \in Qualifiers, NEW fname \in Names,
               Create(schema, q, name, fq, fname)
        PROVE  CatalogInv' /\ StatementOutcome'
    BY <2>4, CreateStep
  <2>5. CASE AlterAddForeignKey(schema, q, name)
    BY <2>5, AlterOrGetStep
  <2> QED BY <1>4, <2>1, <2>2, <2>3, <2>4, <2>5
<1> QED BY <1>1, <1>3, <1>4

-----------------------------------------------------------------------------
(* The rows *)

\* Only tables have rows, and the rows of a table have different keys.
KeysDiffer(r) == \A k, l \in DOMAIN rows[r] : l < k => rows[r][l][Width] # rows[r][k][Width]

RowsInv ==
    /\ rows \in [Relation -> Seq(StoredRows)]
    /\ \A r \in Relation : rows[r] # <<>> => r \in tables
    /\ \A r \in Relation : KeysDiffer(r)

\* What the last statement did and reported.
AnswersInv ==
    /\ ForeignKeysKeepTheirMeaning
    /\ InsertIsExact
    /\ FindIsExact
    /\ ErrorsNameTheirCause

TablesInv == CatalogInv /\ RowsInv /\ AnswersInv

\* The rows go with their table.
LEMMA StatementStep ==
    ASSUME CatalogInv, RowsInv, Statement
    PROVE  TablesInv'
<1>1. CatalogInv' /\ StatementOutcome'
  BY CatalogKept DEF Statement
<1>2. RowsInv'
  <2>1. rows' = [r \in Relation |-> IF r \in tables' THEN rows[r] ELSE <<>>]
    BY DEF Statement
  <2>2. <<>> \in Seq(StoredRows) /\ DOMAIN <<>> = {}
    OBVIOUS
  <2>3. \A r \in Relation : rows'[r] = rows[r] \/ rows'[r] = <<>>
    BY <2>1
  <2>4. rows' \in [Relation -> Seq(StoredRows)]
    BY <2>1, <2>2 DEF RowsInv
  <2>5. \A r \in Relation : rows'[r] # <<>> => r \in tables'
    BY <2>1
  <2>6. ASSUME NEW r \in Relation PROVE KeysDiffer(r)'
    <3>1. CASE rows'[r] = rows[r]
      BY <3>1 DEF RowsInv, KeysDiffer
    <3>2. CASE rows'[r] = <<>>
      BY <2>2, <3>2 DEF KeysDiffer
    <3> QED BY <2>3, <3>1, <3>2
  <2> QED BY <2>4, <2>5, <2>6 DEF RowsInv
<1>3. AnswersInv'
  BY <1>1 DEF StatementOutcome, AnswersInv, InsertIsExact, FindIsExact, ErrorsNameTheirCause
<1> QED BY <1>1, <1>2, <1>3 DEF TablesInv

\* Insert stores and returns the row its map says, or reports why not.
LEMMA InsertStep ==
    ASSUME CatalogInv, RowsInv, NEW map \in Maps, Insert(map)
    PROVE  TablesInv'
<1>0. PICK r : r = qualifiedName
  OBVIOUS
<1> DEFINE stored == StoredRow(InsertStatement(map))
           known  == Known(r, DOMAIN map, {})
           state  == IF known = "ok" THEN Checked(r, stored) ELSE known
           Ends(answer) == outcome' = [op |-> "insert", meant |-> r, map |-> map,
                                       state |-> answer.state, row |-> answer.row]
<1> USE TableRowsAssumption
<1>1. /\ r = <<SpaceOf(handle.schema), handle.name>> /\ r \in Relation
  BY <1>0, HandleIsExact DEF Insert, CatalogInv, CatalogTypeOK
<1>2. /\ UNCHANGED <<tables, references, declared, handle>>
      /\ \/ /\ state # "ok"
            /\ Ends([state |-> state, row |-> None])
            /\ UNCHANGED <<writers, rows>>
         \/ /\ state = "ok"
            /\ rows' = [rows EXCEPT ![r] = Append(@, stored)]
            /\ writers' = [writers EXCEPT ![r] = @ \cup {r}]
            /\ Ends(OneContext(<<stored>>))
  BY <1>0, <1>1, SMTT(60) DEF Insert
<1>3. known = IF r \notin tables THEN "42P01"
              ELSE IF DOMAIN map \subseteq Columns THEN "ok" ELSE "XX000"
  BY ErrorsAre DEF Known
<1>4. ASSUME DOMAIN map \subseteq Columns
      PROVE  /\ stored \in StoredRows
             /\ stored[Width] = Null <=> Width \in DOMAIN map /\ map[Width] = Null
             /\ stored = [c \in Columns |-> IF c \in DOMAIN map THEN map[c] ELSE Default]
  BY <1>4, StoredRowTypes, StoredRowIs
<1>5. Checked(r, stored) =
        IF stored[Width] = Null THEN "23502"
        ELSE IF \A k \in DOMAIN rows[r] : rows[r][k][Width] # stored[Width] THEN "ok"
        ELSE "23505"
  BY ErrorsAre DEF Checked
<1>6. OneContext(<<stored>>) = [state |-> "ok", row |-> stored]
  BY DEF OneContext
<1> HIDE DEF stored, known
<1>7. CASE /\ state # "ok"
           /\ Ends([state |-> state, row |-> None])
           /\ UNCHANGED <<writers, rows>>
  <2>1. /\ outcome'.op = "insert" /\ outcome'.meant = r /\ outcome'.map = map
        /\ outcome'.state = state
    BY <1>7
  <2>2. state = IF r \notin tables THEN "42P01"
                ELSE IF ~(DOMAIN map \subseteq Columns) THEN "XX000"
                ELSE IF Width \in DOMAIN map /\ map[Width] = Null THEN "23502"
                ELSE "23505"
    <3>1. CASE known # "ok"
      BY <1>3, <3>1
    <3>2. CASE known = "ok"
      BY <1>3, <1>4, <1>5, <1>7, <3>2
    <3> QED BY <3>1, <3>2
  <2> HIDE DEF state
  <2>3. AnswersInv'
    <3>1. ErrorsNameTheirCause'
      BY <1>2, <2>1, <2>2 DEF ErrorsNameTheirCause, UndefinedMeansUndefined
    <3>2. ForeignKeysKeepTheirMeaning'
      BY <1>2, <2>1 DEF ForeignKeysKeepTheirMeaning, CatalogInv
    <3>3. InsertIsExact' /\ FindIsExact'
      BY <1>7, <2>1 DEF InsertIsExact, FindIsExact
    <3> QED BY <3>1, <3>2, <3>3 DEF AnswersInv
  <2> QED BY <1>2, <1>7, <2>3
     DEF TablesInv, CatalogInv, CatalogTypeOK, WritesStayHome, RowsInv, KeysDiffer
<1>8. CASE /\ state = "ok"
           /\ rows' = [rows EXCEPT ![r] = Append(@, stored)]
           /\ writers' = [writers EXCEPT ![r] = @ \cup {r}]
           /\ Ends(OneContext(<<stored>>))
  <2>1. /\ r \in tables /\ DOMAIN map \subseteq Columns
        /\ \A k \in DOMAIN rows[r] : rows[r][k][Width] # stored[Width]
    BY <1>3, <1>5, <1>8
  <2>2. /\ outcome'.op = "insert" /\ outcome'.meant = r /\ outcome'.map = map
        /\ outcome'.state = "ok" /\ outcome'.row = stored
    BY <1>6, <1>8
  <2>3. stored \in StoredRows /\ rows[r] \in Seq(StoredRows)
    BY <1>1, <1>4, <2>1 DEF RowsInv
  <2>4. /\ rows'[r] = Append(rows[r], stored)
        /\ \A t \in Relation : t # r => rows'[t] = rows[t]
        /\ rows' \in [Relation -> Seq(StoredRows)]
    BY <1>1, <1>8, <2>3 DEF RowsInv
  <2>5. /\ rows'[r] # <<>> /\ Last(rows'[r]) = stored
        /\ DOMAIN rows'[r] = 1..(Len(rows[r]) + 1) /\ DOMAIN rows[r] = 1..Len(rows[r])
        /\ rows'[r][Len(rows[r]) + 1] = stored
        /\ \A k \in 1..Len(rows[r]) : rows'[r][k] = rows[r][k]
    BY <2>3, <2>4 DEF Last
  <2>6. KeysDiffer(r)'
    <3>1. Len(rows[r]) \in Nat
      BY <2>3
    <3>2. ASSUME NEW k \in 1..(Len(rows[r]) + 1), NEW l \in 1..(Len(rows[r]) + 1), l < k
          PROVE  rows'[r][l][Width] # rows'[r][k][Width]
      <4>1. CASE k = Len(rows[r]) + 1
        <5>1. l \in DOMAIN rows[r]
          BY <2>5, <3>1, <3>2, <4>1
        <5>2. rows'[r][l] = rows[r][l] /\ rows'[r][k] = stored
          BY <2>5, <4>1, <5>1
        <5> QED BY <2>1, <5>1, <5>2
      <4>2. CASE k # Len(rows[r]) + 1
        <5>1. k \in DOMAIN rows[r] /\ l \in DOMAIN rows[r]
          BY <2>5, <3>1, <3>2, <4>2
        <5>2. rows[r][l][Width] # rows[r][k][Width]
          BY <1>1, <3>2, <5>1 DEF RowsInv, KeysDiffer
        <5> QED BY <2>5, <5>1, <5>2
      <4> QED BY <4>1, <4>2
    <3> QED BY <2>5, <3>2 DEF KeysDiffer
  <2>7. RowsInv'
    <3>1. \A t \in Relation : rows'[t] # <<>> => t \in tables'
      BY <1>2, <2>1, <2>4 DEF RowsInv
    <3>2. \A t \in Relation : KeysDiffer(t)'
      BY <2>4, <2>6 DEF RowsInv, KeysDiffer
    <3> QED BY <2>4, <3>1, <3>2 DEF RowsInv
  <2>8. CatalogInv'
    BY <1>1, <1>2, <1>8, <2>1 DEF CatalogInv, CatalogTypeOK, WritesStayHome
  <2>9. AnswersInv'
    <3>1. ErrorsNameTheirCause'
      BY <2>2 DEF ErrorsNameTheirCause, UndefinedMeansUndefined
    <3>2. ForeignKeysKeepTheirMeaning'
      BY <2>2, <2>8 DEF ForeignKeysKeepTheirMeaning, CatalogInv
    <3>3. FindIsExact'
      BY <2>2 DEF FindIsExact
    <3>4. \A c \in Columns : stored[c] = IF c \in DOMAIN map THEN map[c] ELSE Default
      BY <1>4, <2>1
    <3>5. InsertIsExact'
      BY <2>2, <2>5, <3>4 DEF InsertIsExact, Last
    <3> QED BY <3>1, <3>2, <3>3, <3>5 DEF AnswersInv
  <2> QED BY <2>7, <2>8, <2>9 DEF TablesInv
<1> QED BY <1>2, <1>7, <1>8

\* Find returns the rows its template means, or reports why not.
LEMMA FindStep ==
    ASSUME CatalogInv, RowsInv, NEW template \in Maps, Find(template)
    PROVE  TablesInv'
<1>0. PICK r : r = qualifiedName
  OBVIOUS
<1> DEFINE state == Known(r, DOMAIN template, {"no such column"})
           found == Selected(r, FindStatement(template))
<1>1. r = <<SpaceOf(handle.schema), handle.name>> /\ r \in Relation
  BY <1>0, HandleIsExact DEF Find, CatalogInv, CatalogTypeOK
<1>2. /\ UNCHANGED <<catalog, rows>>
      /\ outcome' = [op |-> "find", meant |-> r, map |-> template, state |-> state,
                     found |-> IF state = "ok" THEN found ELSE <<>>]
  BY <1>0, <1>1, Zenon DEF Find
<1>3. state = IF r \notin tables THEN "42P01"
              ELSE IF DOMAIN template \subseteq Columns THEN "ok" ELSE "42703"
  BY ErrorsAre DEF Known
<1>4. found = Among(rows[r], {row \in Stored(r) :
                                \A c \in DOMAIN template : row[c] = template[c]})
  <2>1. {row \in Stored(r) : \A p \in FindStatement(template).predicates :
                                Matches(row, FindStatement(template), p)}
        = {row \in Stored(r) : \A c \in DOMAIN template : row[c] = template[c]}
    BY FindMatches
  <2> QED BY <2>1 DEF Selected
<1> HIDE DEF state, found
<1>5. /\ outcome'.op = "find" /\ outcome'.meant = r /\ outcome'.map = template
      /\ outcome'.state = state
      /\ state = "ok" => outcome'.found = found
  BY <1>2
<1>6. UNCHANGED <<tables, references, writers, declared, handle, rows>>
  BY <1>2 DEF catalog
<1>7. AnswersInv'
  <2>1. ErrorsNameTheirCause'
    BY <1>3, <1>5, <1>6 DEF ErrorsNameTheirCause, UndefinedMeansUndefined
  <2>2. ForeignKeysKeepTheirMeaning'
    BY <1>5, <1>6 DEF ForeignKeysKeepTheirMeaning, CatalogInv
  <2>3. InsertIsExact'
    BY <1>5 DEF InsertIsExact
  <2>4. Stored(r)' = Stored(r)
    BY <1>6 DEF Stored
  <2>5. FindIsExact'
    BY <1>4, <1>5, <1>6 DEF FindIsExact, Stored
  <2> QED BY <2>1, <2>2, <2>3, <2>5 DEF AnswersInv
<1> QED BY <1>6, <1>7
   DEF TablesInv, CatalogInv, CatalogTypeOK, WritesStayHome, RowsInv, KeysDiffer

\* An answer of an interceptor is returned if it is one row, and stores nothing.
LEMMA InterceptedStep ==
    ASSUME CatalogInv, RowsInv, NEW n \in 0..2, InsertIntercepted([k \in 1..n |-> "row"])
    PROVE  TablesInv'
<1> DEFINE found == [k \in 1..n |-> "row"]
<1>1. /\ UNCHANGED <<tables, references, writers, declared, handle, rows>>
      /\ outcome' = [op |-> "intercepted", found |-> found,
                     state |-> OneContext(found).state, row |-> OneContext(found).row]
  BY DEF InsertIntercepted, catalog
<1>2. found \in Seq({"row"}) /\ Len(found) = n
  OBVIOUS
<1>3. /\ OneContext(found).state \in {"ok", "ErrNoRows", "ErrTooManyRows"}
      /\ OneContext(found).state = "ok" => Len(found) = 1 /\ OneContext(found).row = found[1]
  BY <1>2 DEF OneContext
<1>4. Len(found) = 1 => found = <<found[1]>>
  BY <1>2
<1> HIDE DEF found
<1>5. /\ outcome'.op = "intercepted"
      /\ outcome'.state \in {"ok", "ErrNoRows", "ErrTooManyRows"}
      /\ outcome'.state = "ok" => outcome'.found = <<outcome'.row>>
  BY <1>1, <1>3, <1>4
<1>6. AnswersInv'
  BY <1>1, <1>5
     DEF AnswersInv, ForeignKeysKeepTheirMeaning, InsertIsExact, FindIsExact,
         ErrorsNameTheirCause, UndefinedMeansUndefined, CatalogInv
<1> QED BY <1>1, <1>6
   DEF TablesInv, CatalogInv, CatalogTypeOK, WritesStayHome, RowsInv, KeysDiffer

-----------------------------------------------------------------------------
(* The invariant *)

LEMMA TablesInit == Init => TablesInv
<1> SUFFICES ASSUME Init PROVE TablesInv
  OBVIOUS
<1>1. CatalogInv
  BY DEF Init, CatalogInit, CatalogInv, CatalogTypeOK, WritesStayHome
<1>2. RowsInv
  <2>1. <<>> \in Seq(StoredRows) /\ DOMAIN <<>> = {}
    OBVIOUS
  <2> QED BY <2>1 DEF Init, RowsInv, KeysDiffer
<1>3. outcome.op = "none" /\ outcome.state = "ok" /\ tables = {}
  BY DEF Init, CatalogInit
<1>4. AnswersInv
  BY <1>3 DEF AnswersInv, ForeignKeysKeepTheirMeaning, InsertIsExact, FindIsExact,
              ErrorsNameTheirCause, UndefinedMeansUndefined
<1> QED BY <1>1, <1>2, <1>4 DEF TablesInv

LEMMA TablesStep == TablesInv /\ [Next]_vars => TablesInv'
<1> SUFFICES ASSUME TablesInv, [Next]_vars PROVE TablesInv'
  OBVIOUS
<1>1. CatalogInv /\ RowsInv
  BY DEF TablesInv
<1>2. CASE Statement
  BY <1>1, <1>2, StatementStep
<1>3. ASSUME NEW map \in Maps, Insert(map) \/ Find(map)
      PROVE  TablesInv'
  BY <1>1, <1>3, InsertStep, FindStep
<1>4. ASSUME NEW n \in 0..2, InsertIntercepted([k \in 1..n |-> "row"])
      PROVE  TablesInv'
  BY <1>1, <1>4, InterceptedStep
<1>5. CASE UNCHANGED vars
  BY <1>5 DEF vars, catalog, TablesInv, CatalogInv, CatalogTypeOK, WritesStayHome, RowsInv,
              KeysDiffer, AnswersInv, ForeignKeysKeepTheirMeaning, InsertIsExact,
              FindIsExact, ErrorsNameTheirCause, UndefinedMeansUndefined, Stored
<1> QED BY <1>2, <1>3, <1>4, <1>5 DEF Next

LEMMA TablesAlways == Spec => []TablesInv
BY TablesInit, TablesStep, PTL DEF Spec

-----------------------------------------------------------------------------
(* The theorems *)

\* The catalog and the rows keep their types; only tables have rows and foreign
\* keys, and the keys of a table are distinct.
THEOREM TableTypes == Spec => []TypeOK
<1>1. TablesInv => TypeOK
  <2> SUFFICES ASSUME TablesInv PROVE TypeOK
    OBVIOUS
  <2>1. CatalogInv /\ RowsInv
    BY DEF TablesInv
  <2>2. CatalogTypeOK
    BY <2>1 DEF CatalogInv
  <2>3. ASSUME NEW r \in Relation, NEW k \in DOMAIN rows[r]
        PROVE  /\ rows[r][k] \in StoredRows
               /\ \A l \in 1..(k - 1) : rows[r][l][Width] # rows[r][k][Width]
    <3>1. rows[r] \in Seq(StoredRows) /\ KeysDiffer(r)
      BY <2>1 DEF RowsInv
    <3>2. DOMAIN rows[r] = 1..Len(rows[r]) /\ Len(rows[r]) \in Nat
      BY <3>1
    <3>3. rows[r][k] \in StoredRows
      BY <3>1, <3>2
    <3>4. \A l \in 1..(k - 1) : l \in DOMAIN rows[r] /\ l < k
      BY <3>2
    <3> QED BY <3>1, <3>3, <3>4 DEF KeysDiffer
  <2> QED BY <2>1, <2>2, <2>3 DEF TypeOK, RowsInv
<1> QED BY <1>1, TablesAlways, PTL

\* Same-named tables of different schemas stay apart, through every handle,
\* qualifier and stale Table.
THEOREM Isolation == Spec => []WritesStayHome
<1>1. TablesInv => WritesStayHome
  BY DEF TablesInv, CatalogInv
<1> QED BY <1>1, TablesAlways, PTL

\* A foreign key points where its statement said, and is refused only if that is
\* in another schema.
THEOREM ForeignKeys == Spec => []ForeignKeysKeepTheirMeaning
<1>1. TablesInv => ForeignKeysKeepTheirMeaning
  BY DEF TablesInv, AnswersInv
<1> QED BY <1>1, TablesAlways, PTL

\* Insert stores and returns the row its map describes.
THEOREM InsertExactness == Spec => []InsertIsExact
<1>1. TablesInv => InsertIsExact
  BY DEF TablesInv, AnswersInv
<1> QED BY <1>1, TablesAlways, PTL

\* Find returns the rows that agree with its template.
THEOREM FindExactness == Spec => []FindIsExact
<1>1. TablesInv => FindIsExact
  BY DEF TablesInv, AnswersInv
<1> QED BY <1>1, TablesAlways, PTL

\* Insert and Find report the SQLSTATE of what is wrong, and nothing reports an
\* undefined table that exists.
THEOREM ErrorExactness == Spec => []ErrorsNameTheirCause
<1>1. TablesInv => ErrorsNameTheirCause
  BY DEF TablesInv, AnswersInv
<1> QED BY <1>1, TablesAlways, PTL

=============================================================================
