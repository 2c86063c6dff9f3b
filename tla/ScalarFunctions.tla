--------------------------- MODULE ScalarFunctions ---------------------------
(***************************************************************************)
(* Registered scalar functions (function.go): the registry of overloads of *)
(* each DB, the rewriting of calls when a statement is prepared, and the   *)
(* dispatcher that runs when the statement is executed.                    *)
(*                                                                         *)
(* There is one function name, and one statement with one call of it (or   *)
(* of the dispatcher), prepared and executed while others register.        *)
(* Statements share only the registry, which they do not change.  A direct *)
(* Exec is a Prepare and one Execute.                                      *)
(***************************************************************************)
EXTENDS Integers, Diagnostics

CONSTANTS
    DBs,           \* the DB values of the process
    Schemas,       \* schema names, "public" among them
    MaxArity,      \* bound on the number of arguments
    Registrations, \* bound on the number of implementations registered
    Half,          \* half the range of a 64-bit integer: math.MaxInt64 is Half - 1
    None

Arities == 0..MaxArity

\* Implementations are numbered in the order of their registration.
Impls == 1..Registrations

\* What an implementation is registered as.
Homes == [db : DBs, schema : Schemas, arity : Arities, variadic : BOOLEAN]

ASSUME FunctionsAssumption ==
    /\ "public" \in Schemas /\ "main" \notin Schemas
    /\ MaxArity \in Nat /\ Registrations \in Nat
    /\ Half \in Nat \ {0}
    /\ None \notin Impls \cup DBs /\ None \notin Schemas /\ None \notin Homes

VARIABLES
    open,        \* functionDatabases: the DBs that are not closed
    fixed,       \* overloads.fixed
    variadic,    \* overloads.variadic
    stmt,        \* the statement
    pc,
    chosen,      \* the implementation the dispatcher found
    returned,    \* what the callback answered
    outcome,     \* what the dispatcher answered
    home,        \* history: what each implementation was registered as
    successor,   \* history: what replaced it
    known,       \* history: the implementations registered at Prepare, until
                 \* the first Execute
    before       \* history: those registered at Execute, until it returns

registry == <<fixed, variadic, home, successor>>
running  == <<chosen, returned, outcome>>
vars == <<open, registry, stmt, pc, running, known, before>>

\* A call: its schema qualifier ("" without one, "deep" with more than one part)
\* and number of arguments; plain is plainScalarCall, private a call of the
\* dispatcher itself.
CallShapes ==
    [qualifier : Schemas \cup {"", "main", "deep"}, arity : Arities,
     plain : {TRUE}, private : {FALSE}]
    \cup [qualifier : {""}, arity : Arities, plain : {FALSE}, private : {FALSE}]
    \cup [qualifier : {"", "public"}, arity : {0}, plain : BOOLEAN, private : {TRUE}]

\* route is the schema the rewritten call carries, None if it is left alone.
Unprepared == [db |-> None]
StatementsOf(d) ==
    [db : {d}, schema : Schemas, call : CallShapes, route : Schemas \cup {None}]

\* Values a callback may return: integers of either sign, unsigned integers,
\* values kept as they are and types refused; errors and panics with any text.
Results ==
    [kind : {"signed"}, n : {-Half, Half - 1}]
    \cup [kind : {"unsigned"}, n : {0, Half - 1, Half, 2 * Half - 1}]
    \cup [kind : {"kept", "unsupported"}]
    \cup [kind : {"error", "panic"}, text : {{}, {"no such table"}}]

Nothing == [kind |-> "nothing"]

Init ==
    /\ open = DBs
    /\ fixed = [d \in DBs |-> [s \in Schemas |-> [a \in Arities |-> None]]]
    /\ variadic = [d \in DBs |-> [s \in Schemas |-> None]]
    /\ stmt = Unprepared /\ pc = "idle"
    /\ chosen = None /\ returned = Nothing /\ outcome = Nothing
    /\ home = [f \in Impls |-> None]
    /\ successor = [f \in Impls |-> None]
    /\ known = {} /\ before = {}

Registered == {f \in Impls : home[f] # None}

-----------------------------------------------------------------------------
(* The registry *)

\* The overload a registration replaces, None for a new one.
Replaced(d, s, arity, isVariadic) ==
    IF isVariadic THEN variadic[d][s] ELSE fixed[d][s][arity]

Store(d, s, f, arity, isVariadic) ==
    IF isVariadic THEN variadic' = [variadic EXCEPT ![d][s] = f] /\ UNCHANGED fixed
                  ELSE fixed' = [fixed EXCEPT ![d][s][arity] = f] /\ UNCHANGED variadic

\* The history of a registration.
Recorded(d, s, f, arity, isVariadic) ==
    LET old == Replaced(d, s, arity, isVariadic)
    IN  /\ f = Cardinality(Registered) + 1
        /\ home' = [home EXCEPT ![f] =
             [db |-> d, schema |-> s, arity |-> arity, variadic |-> isVariadic]]
        /\ successor' = [g \in Impls |-> IF g = old THEN f ELSE successor[g]]

\* Mutant: an overload that exists is kept.
RegisterFunctionKept(d, s, f, arity, isVariadic) ==
    /\ d \in open
    /\ Recorded(d, s, f, arity, isVariadic)
    /\ IF Replaced(d, s, arity, isVariadic) = None
         THEN Store(d, s, f, arity, isVariadic)
         ELSE UNCHANGED <<fixed, variadic>>
    /\ UNCHANGED <<open, stmt, pc, running, known, before>>

\* Refused once the DB is closed; a valid function otherwise (a valid name, not
\* the dispatcher's, a number of arguments, an implementation).
RegisterFunction(d, s, f, arity, isVariadic) ==
    /\ d \in open
    /\ Recorded(d, s, f, arity, isVariadic)
    /\ Store(d, s, f, arity, isVariadic)
    /\ UNCHANGED <<open, stmt, pc, running, known, before>>

has(d, s) == variadic[d][s] # None \/ \E a \in Arities : fixed[d][s][a] # None
hasAny(d) == \E s \in Schemas : has(d, s)

\* Mutant: the variadic overload is looked up first.
implementationVariadicFirst(d, s, arity) ==
    LET v == variadic[d][s]
    IN  IF v # None /\ arity >= home[v].arity THEN v ELSE fixed[d][s][arity]

\* The fixed overload of that arity, else a variadic one whose minimum allows
\* it (variadic.minimum is the arity it was registered with), else None.
implementation(d, s, arity) ==
    LET v == variadic[d][s]
    IN  IF fixed[d][s][arity] # None THEN fixed[d][s][arity]
        ELSE IF v # None /\ arity >= home[v].arity THEN v
        ELSE None

Close(d) ==
    /\ open' = open \ {d}
    /\ UNCHANGED <<registry, stmt, pc, running, known, before>>

-----------------------------------------------------------------------------
(* Prepare: rewriteRegisteredFunctions *)

Goto(label) == pc' = label

\* Translate has parsed the statement; the prefilter comes next.
Prepare(d, s, call) ==
    /\ pc = "idle"
    /\ d \in open
    /\ stmt' = [db |-> d, schema |-> s, call |-> call, route |-> None]
    /\ known' = Registered
    /\ Goto("prefilter")
    /\ UNCHANGED <<open, registry, running, before>>

\* Mutant: the prefilter does not look for the dispatcher's name.
PrefilterRegistry ==
    /\ pc = "prefilter"
    /\ Goto(IF hasAny(stmt.db) THEN "rewrite" ELSE "prepared")
    /\ UNCHANGED <<open, registry, stmt, running, known, before>>

\* The statement is used as it is if nothing is registered in the DB and the
\* dispatcher's name does not occur in it.
Prefilter ==
    /\ pc = "prefilter"
    /\ Goto(IF hasAny(stmt.db) \/ stmt.call.private THEN "rewrite" ELSE "prepared")
    /\ UNCHANGED <<open, registry, stmt, running, known, before>>

\* Mutant: an unqualified call means public, whatever the handle.
calledFunctionPublic(schema, call) ==
    CASE call.qualifier = "deep" -> None
      [] call.qualifier \in {"", "main"} -> "public"
      [] OTHER -> call.qualifier

\* The schema a call is looked up in.
calledFunction(schema, call) ==
    CASE call.qualifier = "deep" -> None
      [] call.qualifier = "main" -> "public"
      [] call.qualifier = "" -> schema
      [] OTHER -> call.qualifier

\* rewriteFunctionTree.  A call of the dispatcher is refused (0A000), and so is,
\* whatever it calls, what the parser cannot read or write: a Translator of the
\* application's own may have made it.
Rewrite ==
    /\ pc = "rewrite"
    /\ LET target == calledFunction(stmt.schema, stmt.call)
           routed == stmt.call.plain /\ target # None /\ has(stmt.db, target)
       IN  \/ stmt' = Unprepared /\ known' = {} /\ Goto("idle")
           \/ /\ ~stmt.call.private
              /\ stmt' = [stmt EXCEPT !.route = IF routed THEN target ELSE None]
              /\ Goto("prepared") /\ UNCHANGED known
    /\ UNCHANGED <<open, registry, running, before>>

-----------------------------------------------------------------------------
(* Execute: dispatchScalarFunction, once per row *)

\* A closed pool refuses it.
Execute ==
    /\ pc = "prepared"
    /\ stmt.db \in open
    /\ before' = Registered
    /\ known' = {}
    /\ Goto("row")
    /\ UNCHANGED <<open, registry, stmt, running>>

\* An error of the dispatcher, with the text it wraps, after executionError.
\* Every one begins with "pgmem function".
Fails(text) ==
    [kind |-> "error",
     state |-> sqlState([code |-> "ERROR", text |-> {"pgmem function"} \cup text])]

\* A call the engine evaluates by itself, with a function of its own or none.
EngineCall ==
    /\ pc = "row" /\ stmt.route = None
    /\ Goto("prepared")
    /\ before' = {}
    /\ UNCHANGED <<open, registry, stmt, running, known>>

\* Mutant: the dispatcher does not look whether there is an overload.
DispatchAnyway ==
    /\ pc = "row" /\ stmt.route # None
    /\ chosen' = implementation(stmt.db, stmt.route, stmt.call.arity)
    /\ Goto("callback")
    /\ UNCHANGED <<open, registry, stmt, returned, outcome, known, before>>

\* The DB is looked up by its dispatch ID, then the overload.
Dispatch ==
    /\ pc = "row" /\ stmt.route # None
    /\ LET f == implementation(stmt.db, stmt.route, stmt.call.arity)
       IN  IF stmt.db \in open /\ f # None
             THEN chosen' = f /\ Goto("callback") /\ UNCHANGED outcome
             ELSE outcome' = Fails({}) /\ Goto("answered") /\ UNCHANGED chosen
    /\ UNCHANGED <<open, registry, stmt, returned, known, before>>

\* int64(n) of an unsigned n.
ToInt64(n) == IF n < Half THEN n ELSE n - 2 * Half

\* Mutant: unsigned values are converted without a check.
normalizeUnchecked(r) ==
    CASE r.kind = "unsigned" -> [kind |-> "value", n |-> ToInt64(r.n)]
      [] r.kind = "signed" -> [kind |-> "value", n |-> r.n]
      [] r.kind = "kept" -> r
      [] OTHER -> Fails({})

normalizeFunctionResult(r) ==
    CASE r.kind = "unsigned" -> IF r.n > Half - 1 THEN Fails({})
                                  ELSE [kind |-> "value", n |-> ToInt64(r.n)]
      [] r.kind = "signed" -> [kind |-> "value", n |-> r.n]
      [] r.kind = "kept" -> r
      [] OTHER -> Fails({})

\* The callback answers; an error and a recovered panic are wrapped.
Invoke(r) ==
    /\ pc = "callback"
    /\ returned' = r
    /\ outcome' = IF r.kind \in {"error", "panic"} THEN Fails(r.text)
                    ELSE normalizeFunctionResult(r)
    /\ Goto("answered")
    /\ UNCHANGED <<open, registry, stmt, chosen, known, before>>

Forget ==
    /\ chosen' = None /\ returned' = Nothing /\ outcome' = Nothing
    /\ UNCHANGED <<open, registry, stmt, known>>

\* The next row, unless the call failed.
NextRow ==
    /\ pc = "answered" /\ outcome.kind # "error"
    /\ Goto("row") /\ Forget /\ UNCHANGED before

Return ==
    /\ pc = "answered"
    /\ Goto("prepared") /\ Forget /\ before' = {}

-----------------------------------------------------------------------------
(* The specification *)

Next ==
    \/ \E d \in DBs, s \in Schemas :
         \/ \E f \in Impls, arity \in Arities, v \in BOOLEAN :
              RegisterFunction(d, s, f, arity, v)
         \/ \E call \in CallShapes : Prepare(d, s, call)
    \/ \E d \in DBs : Close(d)
    \/ Prefilter \/ Rewrite \/ Execute \/ EngineCall \/ Dispatch
    \/ \E r \in Results : Invoke(r)
    \/ NextRow \/ Return

Spec == Init /\ [][Next]_vars

-----------------------------------------------------------------------------
(* Properties *)

\* Every variable has its type; the dispatcher calls nothing but an
\* implementation.
TypeOK ==
    /\ open \subseteq DBs
    /\ fixed \in [DBs -> [Schemas -> [Arities -> Impls \cup {None}]]]
    /\ variadic \in [DBs -> [Schemas -> Impls \cup {None}]]
    /\ stmt = Unprepared \/ \E d \in DBs : stmt \in StatementsOf(d)
    /\ pc \in {"idle", "prefilter", "rewrite", "prepared", "row", "callback",
               "answered"}
    /\ chosen \in Impls \cup {None} /\ (pc = "callback" => chosen # None)
    /\ known \subseteq Registered /\ before \subseteq Registered

\* The implementations a call means: those registered in its own DB and in the
\* schema its qualifier or its handle names.
Meant ==
    LET q == stmt.call.qualifier
        s == IF q = "" THEN stmt.schema ELSE IF q = "main" THEN "public" ELSE q
    IN  {f \in Registered : home[f].db = stmt.db /\ home[f].schema = s}

\* The callback that runs was registered for this DB and schema (a prepared
\* statement of another handle never gets it) and accepts the arguments; a
\* variadic one runs only if no fixed overload of the arity existed when the
\* statement was executed.
RightOverload ==
    pc = "callback" =>
      /\ chosen \in Meant
      /\ IF home[chosen].variadic
           THEN /\ stmt.call.arity >= home[chosen].arity
                /\ ~\E f \in before \cap Meant :
                      ~home[f].variadic /\ home[f].arity = stmt.call.arity
           ELSE stmt.call.arity = home[chosen].arity

\* An implementation that was replaced before the statement was executed does
\* not run, however long ago the statement was prepared and whichever row it is.
NoStaleImplementation ==
    pc = "callback" => successor[chosen] \notin before

\* A plain call of a function registered before Prepare is always rewritten,
\* although the prefilter and the lookup read the registry at different times,
\* and no call is rewritten in whose schema nothing is registered.
KnownCallsAreRouted ==
    pc = "prepared" =>
      /\ stmt.call.plain /\ stmt.call.qualifier # "deep" /\ known \cap Meant # {}
           => stmt.route # None
      /\ stmt.route # None => Meant # {}

\* The engine never sees a call of the dispatcher that pgmem did not write.
DispatcherIsPrivate ==
    pc \in {"prepared", "row"} => ~stmt.call.private

\* An integer the caller gets is the integer the callback returned, whatever its
\* Go type; an integer that does not fit is an error.
ResultIsExact ==
    pc = "answered" /\ returned.kind \in {"signed", "unsigned"} =>
      \/ outcome.kind = "value" /\ outcome.n = returned.n
      \/ outcome.kind = "error" /\ returned.n \notin (-Half)..(Half - 1)

\* Everything that goes wrong in or around a callback is SQLSTATE 38000, also
\* when the callback's own text reads like an error of the engine.
CallbackFailuresAre38000 ==
    outcome.kind = "error" => outcome.state = "38000"

=============================================================================
