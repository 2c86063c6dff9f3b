--------------------------- MODULE FunctionsExact ----------------------------
(***************************************************************************)
(* ScalarFunctions for every set of DBs and schemas, every bound on the    *)
(* arguments and the registrations and every width of integers: the        *)
(* implementation that runs is the one the call means, and its answer      *)
(* reaches the caller unchanged or as SQLSTATE 38000.                      *)
(***************************************************************************)
EXTENDS ScalarFunctions, FiniteSetTheorems, TLAPS

(* The registry *)

RegistryType ==
    /\ fixed \in [DBs -> [Schemas -> [Arities -> Impls \cup {None}]]]
    /\ variadic \in [DBs -> [Schemas -> Impls \cup {None}]]
    /\ home \in [Impls -> Homes \cup {None}]
    /\ successor \in [Impls -> Impls \cup {None}]

\* f is the current overload of schema s in DB d, a variadic one or not.
CurrentIn(f, d, s, isVariadic) ==
    /\ f \in Registered /\ successor[f] = None
    /\ home[f].db = d /\ home[f].schema = s /\ home[f].variadic = isVariadic

\* The implementation a DB would run is registered as just that and has not been
\* replaced.
VariadicIsHome ==
    \A d \in DBs, s \in Schemas :
        variadic[d][s] # None => CurrentIn(variadic[d][s], d, s, TRUE)
FixedAt(d, s, a) ==
    LET f == fixed[d][s][a]
    IN  f # None => CurrentIn(f, d, s, FALSE) /\ home[f].arity = a
FixedIsHome == \A d \in DBs, s \in Schemas, a \in Arities : FixedAt(d, s, a)

\* An overload, once there, is never removed.
OverloadsStay ==
    \A f \in Registered :
        Replaced(home[f].db, home[f].schema, home[f].arity, home[f].variadic) # None

\* Implementations are numbered without a gap.
RegistryInv ==
    /\ RegistryType
    /\ \E n \in Nat : Registered = 1..n
    /\ VariadicIsHome /\ FixedIsHome /\ OverloadsStay
    /\ \A f \in Impls \ Registered : successor[f] = None

\* What a registration leaves alone.
Registers(f) ==
    /\ f \in Impls \ Registered
    /\ Registered' = Registered \cup {f}
    /\ \A g \in Registered : home'[g] = home[g]
    /\ \A g \in Impls : successor'[g] \in {successor[g], f}

\* A registration adds one implementation, and the next number is not in use.
LEMMA RegistersOne ==
    ASSUME RegistryInv, NEW d \in DBs, NEW s \in Schemas, NEW f \in Impls,
           NEW arity \in Arities, NEW v \in BOOLEAN, RegisterFunction(d, s, f, arity, v)
    PROVE  Registers(f) /\ RegistryInv'
<1> DEFINE new == [db |-> d, schema |-> s, arity |-> arity, variadic |-> v]
           old == Replaced(d, s, arity, v)
<1>1. PICK n \in Nat : Registered = 1..n
  BY DEF RegistryInv
<1>2. Cardinality(Registered) = n
  BY <1>1, FS_Interval
<1>3. f = n + 1 /\ home' = [home EXCEPT ![f] = new]
         /\ successor' = [g \in Impls |-> IF g = old THEN f ELSE successor[g]]
  BY <1>2 DEF RegisterFunction, Recorded
<1>4. new \in Homes /\ new # None
  BY FunctionsAssumption DEF Homes
<1>5. new.db = d /\ new.schema = s /\ new.arity = arity /\ new.variadic = v
  OBVIOUS
<1> HIDE DEF new
<1>6. RegistryType
  BY DEF RegistryInv
<1>7. f \in Impls \ Registered
  BY <1>1, <1>3
<1>8. \A g \in Impls : home'[g] = IF g = f THEN new ELSE home[g]
  BY <1>3, <1>6 DEF RegistryType
<1>9. Registered' = Registered \cup {f}
  BY <1>4, <1>7, <1>8 DEF Registered
<1>10. \A g \in Registered : g \in Impls /\ g # f /\ home'[g] = home[g]
  BY <1>7, <1>8 DEF Registered
<1>11. Registers(f)
  BY <1>3, <1>7, <1>9, <1>10 DEF Registers
<1>12. home' \in [Impls -> Homes \cup {None}] /\ successor' \in [Impls -> Impls \cup {None}]
  BY <1>3, <1>4, <1>6 DEF RegistryType
<1>13. old = None \/ (CurrentIn(old, d, s, v) /\ (~v => home[old].arity = arity))
  <2>1. CASE v = TRUE
    BY <2>1 DEF Replaced, RegistryInv, VariadicIsHome
  <2>2. CASE v = FALSE
    <3>1. old = fixed[d][s][arity]
      BY <2>2 DEF Replaced
    <3>2. FixedAt(d, s, arity)
      BY DEF RegistryInv, FixedIsHome
    <3> QED BY <2>2, <3>1, <3>2 DEF FixedAt
  <2> QED BY <2>1, <2>2
<1>14. successor'[f] = None
  BY <1>3, <1>7, <1>13, FunctionsAssumption DEF RegistryInv, CurrentIn
<1>15. /\ variadic' \in [DBs -> [Schemas -> Impls \cup {None}]]
       /\ \A d2 \in DBs, s2 \in Schemas :
            variadic'[d2][s2] = IF v /\ d2 = d /\ s2 = s THEN f ELSE variadic[d2][s2]
  <2>1. CASE v
    <3>1. variadic' = [variadic EXCEPT ![d] = [variadic[d] EXCEPT ![s] = f]]
      BY <2>1 DEF RegisterFunction, Store
    <3>2. variadic[d] \in [Schemas -> Impls \cup {None}]
      BY <1>6 DEF RegistryType
    <3>3. PICK row : row = [variadic[d] EXCEPT ![s] = f]
      OBVIOUS
    <3>4. /\ row \in [Schemas -> Impls \cup {None}]
          /\ \A s2 \in Schemas : row[s2] = IF s2 = s THEN f ELSE variadic[d][s2]
      BY <3>2, <3>3
    <3> QED BY <1>6, <2>1, <3>1, <3>3, <3>4 DEF RegistryType
  <2>2. CASE ~v
    BY <1>6, <2>2 DEF RegisterFunction, Store, RegistryType
  <2> QED BY <2>1, <2>2
<1>16. /\ fixed' \in [DBs -> [Schemas -> [Arities -> Impls \cup {None}]]]
       /\ \A d2 \in DBs, s2 \in Schemas, a \in Arities :
            fixed'[d2][s2][a] = IF ~v /\ d2 = d /\ s2 = s /\ a = arity THEN f
                                  ELSE fixed[d2][s2][a]
  <2>1. CASE ~v
    <3>1. fixed' = [fixed EXCEPT ![d] =
                      [fixed[d] EXCEPT ![s] = [fixed[d][s] EXCEPT ![arity] = f]]]
      BY <2>1 DEF RegisterFunction, Store
    <3>2. /\ fixed[d] \in [Schemas -> [Arities -> Impls \cup {None}]]
          /\ fixed[d][s] \in [Arities -> Impls \cup {None}]
      BY <1>6 DEF RegistryType
    <3>3. PICK row : row = [fixed[d][s] EXCEPT ![arity] = f]
      OBVIOUS
    <3>4. /\ row \in [Arities -> Impls \cup {None}]
          /\ \A a \in Arities : row[a] = IF a = arity THEN f ELSE fixed[d][s][a]
      BY <3>2, <3>3
    <3>5. PICK rows : rows = [fixed[d] EXCEPT ![s] = row]
      OBVIOUS
    <3>6. /\ rows \in [Schemas -> [Arities -> Impls \cup {None}]]
          /\ \A s2 \in Schemas : rows[s2] = IF s2 = s THEN row ELSE fixed[d][s2]
      BY <3>2, <3>4, <3>5
    <3>7. fixed' = [fixed EXCEPT ![d] = rows]
      BY <3>1, <3>3, <3>5
    <3> QED BY <1>6, <2>1, <3>4, <3>6, <3>7 DEF RegistryType
  <2>2. CASE v
    BY <1>6, <2>2 DEF RegisterFunction, Store, RegistryType
  <2> QED BY <2>1, <2>2
<1>17. VariadicIsHome'
  <2> SUFFICES ASSUME NEW d2 \in DBs, NEW s2 \in Schemas, NEW g,
                      g = variadic'[d2][s2], g # None
               PROVE  CurrentIn(g, d2, s2, TRUE)'
    BY DEF VariadicIsHome
  <2>1. CASE v = TRUE /\ d2 = d /\ s2 = s
    <3>1. g = f
      BY <1>15, <2>1
    <3> QED BY <1>5, <1>8, <1>9, <1>14, <2>1, <3>1 DEF CurrentIn
  <2>2. CASE ~(v = TRUE /\ d2 = d /\ s2 = s)
    <3>1. CurrentIn(g, d2, s2, TRUE)
      BY <1>15, <2>2 DEF RegistryInv, VariadicIsHome
    <3>2. g # old
      BY <1>13, <2>2, <3>1 DEF CurrentIn
    <3> QED BY <1>3, <1>9, <1>10, <3>1, <3>2 DEF CurrentIn
  <2> QED BY <2>1, <2>2
<1>18. FixedIsHome'
  <2> SUFFICES ASSUME NEW d2 \in DBs, NEW s2 \in Schemas, NEW a \in Arities
               PROVE  FixedAt(d2, s2, a)'
    BY DEF FixedIsHome
  <2> SUFFICES ASSUME NEW g, g = fixed'[d2][s2][a], g # None
               PROVE  CurrentIn(g, d2, s2, FALSE)' /\ home'[g].arity = a
    BY DEF FixedAt
  <2>1. CASE v = FALSE /\ d2 = d /\ s2 = s /\ a = arity
    <3>1. g = f
      BY <1>16, <2>1
    <3> QED BY <1>5, <1>8, <1>9, <1>14, <2>1, <3>1 DEF CurrentIn
  <2>2. CASE ~(v = FALSE /\ d2 = d /\ s2 = s /\ a = arity)
    <3>1. g = fixed[d2][s2][a]
      BY <1>16, <2>2
    <3>2. FixedAt(d2, s2, a)
      BY DEF RegistryInv, FixedIsHome
    <3>3. g # old
      BY <1>13, <2>2, <3>1, <3>2 DEF CurrentIn, FixedAt
    <3> QED BY <1>3, <1>9, <1>10, <3>1, <3>2, <3>3 DEF CurrentIn, FixedAt
  <2> QED BY <2>1, <2>2
<1>19. OverloadsStay'
  <2> SUFFICES ASSUME NEW g \in Registered', NEW h, h = home'[g]
               PROVE  IF h.variadic THEN variadic'[h.db][h.schema] # None
                                    ELSE fixed'[h.db][h.schema][h.arity] # None
    BY DEF OverloadsStay, Replaced
  <2>1. f # None
    BY FunctionsAssumption
  <2>2. CASE g = f
    BY <1>5, <1>7, <1>8, <1>15, <1>16, <2>1, <2>2
  <2>3. CASE g \in Registered
    <3>1. h = home[g] /\ h \in Homes
      BY <1>6, <1>10, <2>3 DEF Registered, RegistryType
    <3>2. IF h.variadic THEN variadic[h.db][h.schema] # None
                        ELSE fixed[h.db][h.schema][h.arity] # None
      BY <2>3, <3>1 DEF RegistryInv, OverloadsStay, Replaced
    <3>3. h.db \in DBs /\ h.schema \in Schemas /\ h.arity \in Arities
      BY <3>1 DEF Homes
    <3> QED BY <1>15, <1>16, <2>1, <3>2, <3>3
  <2> QED BY <1>9, <2>2, <2>3
<1>20. \A g \in Impls \ Registered' : successor'[g] = None
  BY <1>3, <1>9, <1>13, FunctionsAssumption DEF RegistryInv, CurrentIn
<1>21. \E m \in Nat : Registered' = 1..m
  <2>1. Registered' = 1..(n + 1)
    BY <1>1, <1>3, <1>9
  <2> QED BY <2>1
<1> QED BY <1>11, <1>12, <1>15, <1>16, <1>17, <1>18, <1>19, <1>20, <1>21
  DEF RegistryInv, RegistryType

-----------------------------------------------------------------------------
(* The statement *)

Statements ==
    [db : DBs, schema : Schemas, call : CallShapes, route : Schemas \cup {None}]

\* A statement that was rewritten calls in the schema its qualifier or its handle
\* names, where something is registered, and does not call the dispatcher itself.
Routed ==
    /\ stmt.call.private = FALSE
    /\ stmt.route # None => /\ stmt.route = calledFunction(stmt.schema, stmt.call)
                            /\ Meant # {}

FlowInv ==
    /\ open \subseteq DBs
    /\ pc \in {"idle", "prefilter", "rewrite", "prepared", "row", "callback", "answered"}
    /\ pc = "idle" => stmt = Unprepared
    /\ pc # "idle" => stmt \in Statements
    /\ pc \in {"prefilter", "rewrite"} => stmt.route = None
    /\ pc \in {"prepared", "row", "callback", "answered"} => Routed
    /\ pc \in {"row", "callback", "answered"} => known = {}
    /\ chosen \in Impls \cup {None}
    /\ known \subseteq Registered /\ before \subseteq Registered
    /\ pc # "answered" => returned = Nothing /\ outcome = Nothing

\* The inductive invariant of the functions.
FunctionInv ==
    /\ RegistryInv /\ FlowInv
    /\ RightOverload /\ NoStaleImplementation /\ KnownCallsAreRouted
    /\ ResultIsExact /\ CallbackFailuresAre38000

-----------------------------------------------------------------------------
(* What the operators give *)

\* Whatever a callback's text says, the error of the dispatcher is 38000: its own
\* phrase is looked for first.
LEMMA FailsIs ==
    ASSUME NEW text
    PROVE  Fails(text) = [kind |-> "error", state |-> "38000"]
<1> DEFINE all == {"pgmem function"} \cup text
           found == {k \in DOMAIN TextStates : TextStates[k][1] \in all}
<1>1. DOMAIN TextStates = 1..4
  BY DEF TextStates
<1>2. TextStates[1][1] = "pgmem function" /\ TextStates[1][2] = "38000"
  BY DEF TextStates
<1>3. 1 \in found /\ found \subseteq 1..4
  <2>1. 1 \in DOMAIN TextStates
    BY <1>1
  <2>2. TextStates[1][1] \in all
    BY <1>2
  <2>3. found \subseteq DOMAIN TextStates
    OBVIOUS
  <2>4. 1 \in found
    BY <2>1, <2>2
  <2> QED BY <1>1, <2>3, <2>4
<1>4. Min(found) = 1
  <2> HIDE DEF found
  <2>1. \A x \in found : (\A y \in found : x =< y) => x = 1
    BY <1>3
  <2>2. \A y \in found : 1 =< y
    BY <1>3
  <2> QED BY <1>3, <2>1, <2>2 DEF Min
<1>5. TextState(all) = "38000"
  BY <1>2, <1>3, <1>4 DEF TextState
<1>6. "ERROR" \notin DOMAIN CodeStates
  BY DEF CodeStates
<1>7. sqlState([code |-> "ERROR", text |-> all]) = "38000"
  BY <1>5, <1>6 DEF sqlState
<1> QED BY <1>7 DEF Fails

\* A callback's answer reaches the caller as the very value, or as an error if it
\* is not a 64-bit integer or of no type the engine has.
LEMMA NormalizedIs ==
    ASSUME NEW r \in Results, r.kind \notin {"error", "panic"}
    PROVE  LET o == normalizeFunctionResult(r)
           IN  /\ o.kind = "error" => o.state = "38000"
               /\ r.kind \in {"signed", "unsigned"} =>
                    \/ o.kind = "value" /\ o.n = r.n
                    \/ o.kind = "error" /\ r.n \notin (-Half)..(Half - 1)
<1>1. Half \in Nat \ {0}
  BY FunctionsAssumption
<1>2. CASE r.kind = "signed"
  BY <1>2 DEF normalizeFunctionResult
<1>3. CASE r.kind = "unsigned"
  <2>1. r.n \in {0, Half - 1, Half, 2 * Half - 1}
    BY <1>3 DEF Results
  <2>2. CASE r.n > Half - 1
    BY <1>1, <1>3, <2>1, <2>2, FailsIs DEF normalizeFunctionResult
  <2>3. CASE ~(r.n > Half - 1)
    BY <1>1, <1>3, <2>1, <2>3 DEF normalizeFunctionResult, ToInt64
  <2> QED BY <2>2, <2>3
<1>4. CASE r.kind \notin {"signed", "unsigned"}
  BY <1>4, FailsIs DEF normalizeFunctionResult, Results
<1> QED BY <1>2, <1>3, <1>4

\* The schema of a call is one the DB may have, unless its name has too many parts.
LEMMA CalledIn ==
    ASSUME stmt \in Statements
    PROVE  LET s == calledFunction(stmt.schema, stmt.call)
           IN  /\ stmt.call.qualifier = "deep" => s = None
               /\ stmt.call.qualifier # "deep" =>
                    /\ s \in Schemas
                    /\ Meant = {f \in Registered : home[f].db = stmt.db
                                                   /\ home[f].schema = s}
<1>1. /\ stmt.schema \in Schemas /\ "public" \in Schemas
      /\ stmt.call.qualifier \in Schemas \cup {"", "main", "deep"}
  BY FunctionsAssumption DEF Statements, CallShapes
<1> QED BY <1>1 DEF calledFunction, Meant

\* Something is there to be called exactly if something was registered.
LEMMA HasMeans ==
    ASSUME RegistryInv, NEW d \in DBs, NEW s \in Schemas
    PROVE  has(d, s) <=> \E f \in Registered : home[f].db = d /\ home[f].schema = s
<1>1. ASSUME has(d, s)
      PROVE  \E f \in Registered : home[f].db = d /\ home[f].schema = s
  <2>1. CASE variadic[d][s] # None
    BY <2>1 DEF RegistryInv, VariadicIsHome, CurrentIn
  <2>2. CASE \E a \in Arities : fixed[d][s][a] # None
    <3>1. PICK a \in Arities : fixed[d][s][a] # None
      BY <2>2
    <3>2. FixedAt(d, s, a)
      BY DEF RegistryInv, FixedIsHome
    <3> QED BY <3>1, <3>2 DEF FixedAt, CurrentIn
  <2> QED BY <1>1, <2>1, <2>2 DEF has
<1>2. ASSUME NEW f \in Registered, home[f].db = d, home[f].schema = s
      PROVE  has(d, s)
  <2>1. home[f] \in Homes
    BY DEF Registered, RegistryInv, RegistryType
  <2>2. home[f].arity \in Arities
    BY <2>1 DEF Homes
  <2>3. Replaced(home[f].db, home[f].schema, home[f].arity, home[f].variadic) # None
    BY DEF RegistryInv, OverloadsStay
  <2> QED BY <1>2, <2>2, <2>3 DEF Replaced, has
<1> QED BY <1>1, <1>2

\* The implementation that is looked up is current, of that schema, and accepts the
\* arguments; no fixed overload is passed over.
LEMMA ImplementationIs ==
    ASSUME RegistryInv, NEW d \in DBs, NEW s \in Schemas, NEW a \in Arities,
           NEW f, f = implementation(d, s, a), f # None
    PROVE  /\ f \in Registered /\ successor[f] = None
           /\ home[f].db = d /\ home[f].schema = s
           /\ IF home[f].variadic
                THEN /\ a >= home[f].arity
                     /\ ~\E g \in Registered :
                          /\ home[g].db = d /\ home[g].schema = s
                          /\ ~home[g].variadic /\ home[g].arity = a
                ELSE a = home[f].arity
<1>1. CASE fixed[d][s][a] # None
  <2>1. f = fixed[d][s][a]
    BY <1>1 DEF implementation
  <2>2. FixedAt(d, s, a)
    BY DEF RegistryInv, FixedIsHome
  <2> QED BY <1>1, <2>1, <2>2 DEF FixedAt, CurrentIn
<1>2. CASE fixed[d][s][a] = None
  <2>1. f = variadic[d][s] /\ a >= home[f].arity
    BY <1>2 DEF implementation
  <2>2. CurrentIn(f, d, s, TRUE)
    BY <2>1 DEF RegistryInv, VariadicIsHome
  <2>3. ASSUME NEW g \in Registered, home[g].db = d, home[g].schema = s,
               ~home[g].variadic, home[g].arity = a
        PROVE  FALSE
    <3>1. Replaced(home[g].db, home[g].schema, home[g].arity, home[g].variadic) # None
      BY DEF RegistryInv, OverloadsStay
    <3> QED BY <1>2, <2>3, <3>1 DEF Replaced
  <2> QED BY <2>1, <2>2, <2>3 DEF CurrentIn
<1> QED BY <1>1, <1>2

-----------------------------------------------------------------------------
(* Steps *)

\* What a call means when something is registered meanwhile: the same, and perhaps
\* the new implementation.
LEMMA MeantGrows ==
    ASSUME NEW f \in Impls, Registers(f), UNCHANGED stmt
    PROVE  Meant \subseteq Meant' /\ Meant' \cap Registered = Meant
BY DEF Registers, Meant

\* A registration while a statement is prepared or executed.
LEMMA RegisterStep ==
    ASSUME FunctionInv, NEW d \in DBs, NEW s \in Schemas, NEW f \in Impls,
           NEW arity \in Arities, NEW v \in BOOLEAN, RegisterFunction(d, s, f, arity, v)
    PROVE  FunctionInv'
<1>1. Registers(f) /\ RegistryInv'
  BY RegistersOne DEF FunctionInv
<1>2. UNCHANGED <<open, stmt, pc, running, known, before>>
  BY DEF RegisterFunction
<1>3. Meant \subseteq Meant' /\ Meant' \cap Registered = Meant
  BY <1>1, <1>2, MeantGrows
<1>4. known \subseteq Registered /\ before \subseteq Registered /\ Registered \subseteq Registered'
  BY <1>1 DEF FunctionInv, FlowInv, Registers
<1>5. FlowInv'
  BY <1>2, <1>3, <1>4 DEF FunctionInv, FlowInv, Routed, running
<1>6. RightOverload'
  <2> SUFFICES ASSUME pc = "callback" PROVE RightOverload'
    BY <1>2 DEF RightOverload
  <2>1. chosen \in Meant /\ chosen \in Registered
    BY DEF FunctionInv, RightOverload, Meant
  <2>2. home'[chosen] = home[chosen]
    BY <1>1, <2>1 DEF Registers
  <2>3. \A g \in before \cap Meant' : g \in before \cap Meant /\ home'[g] = home[g]
    BY <1>1, <1>3, <1>4 DEF Registers
  <2> QED BY <1>2, <1>3, <2>1, <2>2, <2>3 DEF FunctionInv, RightOverload, running
<1>7. NoStaleImplementation'
  <2>1. pc = "callback" => chosen \in Impls
    BY DEF FunctionInv, RightOverload, Meant, Registered
  <2>2. f \notin before
    BY <1>1, <1>4 DEF Registers
  <2> QED BY <1>1, <1>2, <2>1, <2>2 DEF FunctionInv, NoStaleImplementation, Registers,
         running
<1>8. KnownCallsAreRouted'
  BY <1>2, <1>3, <1>4 DEF FunctionInv, KnownCallsAreRouted
<1>9. ResultIsExact' /\ CallbackFailuresAre38000'
  BY <1>2 DEF FunctionInv, ResultIsExact, CallbackFailuresAre38000, running
<1> QED BY <1>1, <1>5, <1>6, <1>7, <1>8, <1>9 DEF FunctionInv

\* Every other step leaves the registry alone.
LEMMA RegistryKept ==
    ASSUME UNCHANGED registry
    PROVE  /\ Registered' = Registered /\ (RegistryInv => RegistryInv')
           /\ UNCHANGED stmt => Meant' = Meant
<1>1. Registered' = Registered /\ UNCHANGED <<fixed, variadic, home, successor>>
  BY DEF registry, Registered
<1>2. RegistryType => RegistryType'
  BY <1>1 DEF RegistryType
<1>3. VariadicIsHome => VariadicIsHome'
  BY <1>1 DEF VariadicIsHome, CurrentIn
<1>4. FixedIsHome => FixedIsHome'
  BY <1>1 DEF FixedIsHome, FixedAt, CurrentIn
<1>5. OverloadsStay => OverloadsStay'
  BY <1>1 DEF OverloadsStay, Replaced
<1>6. RegistryInv => RegistryInv'
  BY <1>1, <1>2, <1>3, <1>4, <1>5 DEF RegistryInv
<1>7. UNCHANGED stmt => Meant' = Meant
  BY <1>1 DEF Meant
<1> QED BY <1>1, <1>6, <1>7

\* Prepare, up to the answer of the prefilter.
LEMMA PrepareSteps ==
    ASSUME FunctionInv, \/ \E d \in DBs, s \in Schemas, c \in CallShapes : Prepare(d, s, c)
                        \/ \E d \in DBs : Close(d)
                        \/ Prefilter
    PROVE  FunctionInv'
<1>1. UNCHANGED registry
  BY DEF Prepare, Close, Prefilter
<1>2. /\ Registered' = Registered /\ RegistryInv'
      /\ UNCHANGED stmt => Meant' = Meant
  BY <1>1, RegistryKept DEF FunctionInv
<1>3. CASE \E d \in DBs, s \in Schemas, c \in CallShapes : Prepare(d, s, c)
  <2>1. PICK d \in DBs, s \in Schemas, c \in CallShapes : Prepare(d, s, c)
    BY <1>3
  <2>2. FlowInv'
    BY <1>2, <2>1 DEF FunctionInv, FlowInv, Prepare, Goto, Statements, running
  <2>3. KnownCallsAreRouted' /\ RightOverload' /\ NoStaleImplementation'
    BY <2>1 DEF Prepare, Goto, KnownCallsAreRouted, RightOverload, NoStaleImplementation
  <2>4. ResultIsExact' /\ CallbackFailuresAre38000'
    BY <2>1 DEF FunctionInv, Prepare, Goto, ResultIsExact, CallbackFailuresAre38000, running
  <2> QED BY <1>2, <2>2, <2>3, <2>4 DEF FunctionInv
<1>4. CASE \E d \in DBs : Close(d)
  <2>1. UNCHANGED <<stmt, pc, running, known, before>> /\ open' \subseteq open
    BY <1>4 DEF Close
  <2> QED BY <1>1, <1>2, <2>1 DEF FunctionInv, FlowInv, Routed, KnownCallsAreRouted,
         RightOverload, NoStaleImplementation, ResultIsExact, CallbackFailuresAre38000,
         running, registry
<1>5. CASE Prefilter
  <2>1. /\ pc = "prefilter" /\ UNCHANGED <<open, stmt, running, known, before>>
        /\ pc' = IF hasAny(stmt.db) \/ stmt.call.private THEN "rewrite" ELSE "prepared"
    BY <1>5 DEF Prefilter, Goto
  <2>2. stmt \in Statements /\ stmt.route = None
    BY <2>1 DEF FunctionInv, FlowInv
  <2>3. stmt.call.private \in BOOLEAN
    BY <2>2 DEF Statements, CallShapes
  <2>4. FlowInv'
    BY <1>2, <2>1, <2>2, <2>3 DEF FunctionInv, FlowInv, Routed, running
  <2>5. KnownCallsAreRouted'
    <3> SUFFICES ASSUME pc' = "prepared", stmt.call.qualifier # "deep"
                 PROVE  Meant = {}
      BY <1>2, <2>1, <2>2 DEF KnownCallsAreRouted
    <3>1. PICK s \in Schemas : Meant = {f \in Registered : home[f].db = stmt.db
                                                          /\ home[f].schema = s}
      BY <2>2, CalledIn
    <3>2. ~has(stmt.db, s)
      BY <2>1 DEF hasAny
    <3> QED BY <2>2, <3>1, <3>2, HasMeans DEF FunctionInv, Statements
  <2>6. RightOverload' /\ NoStaleImplementation' /\ ResultIsExact'
    BY <2>1 DEF RightOverload, NoStaleImplementation, ResultIsExact
  <2>7. CallbackFailuresAre38000'
    BY <2>1 DEF FunctionInv, CallbackFailuresAre38000, running
  <2> QED BY <1>2, <2>4, <2>5, <2>6, <2>7 DEF FunctionInv
<1> QED BY <1>3, <1>4, <1>5

\* The rewriting, which routes a plain call of a schema with functions.
LEMMA RewriteStep ==
    ASSUME FunctionInv, Rewrite
    PROVE  FunctionInv'
<1>1. UNCHANGED registry /\ pc = "rewrite" /\ UNCHANGED <<open, running, before>>
  BY DEF Rewrite
<1>2. Registered' = Registered /\ RegistryInv'
  BY <1>1, RegistryKept DEF FunctionInv
<1>3. stmt \in Statements /\ stmt.route = None
  BY <1>1 DEF FunctionInv, FlowInv
<1>4. CASE stmt' = Unprepared /\ known' = {} /\ Goto("idle")
  <2>1. stmt' = Unprepared /\ known' = {} /\ pc' = "idle"
    BY <1>4 DEF Goto
  <2>2. FlowInv'
    BY <1>1, <1>2, <2>1 DEF FunctionInv, FlowInv, running
  <2> QED BY <1>1, <1>2, <2>1, <2>2 DEF FunctionInv, RightOverload, NoStaleImplementation,
         KnownCallsAreRouted, ResultIsExact, CallbackFailuresAre38000, running
<1>5. CASE ~(stmt' = Unprepared /\ known' = {} /\ Goto("idle"))
  <2>1. PICK target : target = calledFunction(stmt.schema, stmt.call)
    OBVIOUS
  <2>2. PICK r : r = IF stmt.call.plain /\ target # None /\ has(stmt.db, target)
                       THEN target ELSE None
    OBVIOUS
  <2>3. /\ ~stmt.call.private
        /\ stmt' = [stmt EXCEPT !.route = r] /\ pc' = "prepared" /\ UNCHANGED known
    BY <1>5, <2>1, <2>2 DEF Rewrite, Goto
  <2>4. /\ stmt.call.qualifier = "deep" => target = None
        /\ stmt.call.qualifier # "deep" =>
             /\ target \in Schemas
             /\ Meant = {f \in Registered : home[f].db = stmt.db
                                            /\ home[f].schema = target}
    BY <1>3, <2>1, CalledIn
  <2>5. r \in Schemas \cup {None} /\ stmt.db \in DBs /\ stmt.call.private = FALSE
    BY <1>3, <2>2, <2>3, <2>4 DEF Statements, CallShapes
  <2>6. /\ stmt' \in Statements /\ stmt'.route = r /\ stmt'.db = stmt.db
        /\ stmt'.schema = stmt.schema /\ stmt'.call = stmt.call
    BY <1>3, <2>3, <2>5 DEF Statements
  <2>7. Meant' = Meant
    BY <1>1, <1>2, <2>6 DEF Meant, registry
  <2>8. r # None => r = target /\ Meant # {}
    BY <2>2, <2>4, <2>5, HasMeans DEF FunctionInv
  <2>9. stmt.call.plain /\ stmt.call.qualifier # "deep" /\ Meant # {} => r # None
    BY <2>2, <2>4, <2>5, HasMeans, FunctionsAssumption DEF FunctionInv
  <2>10. FlowInv'
    BY <1>1, <1>2, <2>1, <2>3, <2>5, <2>6, <2>7, <2>8 DEF FunctionInv, FlowInv, Routed,
       running
  <2>11. KnownCallsAreRouted'
    BY <2>3, <2>6, <2>7, <2>8, <2>9 DEF KnownCallsAreRouted
  <2> QED BY <1>1, <1>2, <2>3, <2>10, <2>11 DEF FunctionInv, RightOverload,
         NoStaleImplementation, ResultIsExact, CallbackFailuresAre38000, running
<1> QED BY <1>4, <1>5

\* The dispatcher takes the current overload of the schema the call was routed to.
LEMMA DispatchStep ==
    ASSUME FunctionInv, Dispatch
    PROVE  FunctionInv'
<1>1. /\ UNCHANGED registry /\ UNCHANGED <<open, stmt, returned, known, before>>
      /\ pc = "row" /\ stmt.route # None
  BY DEF Dispatch
<1>2. /\ Registered' = Registered /\ RegistryInv' /\ Meant' = Meant
      /\ UNCHANGED <<home, successor>>
  BY <1>1, RegistryKept DEF FunctionInv, registry
<1>3. stmt \in Statements /\ Routed /\ returned = Nothing /\ outcome = Nothing
  BY <1>1 DEF FunctionInv, FlowInv
<1>4. PICK f : f = implementation(stmt.db, stmt.route, stmt.call.arity)
  OBVIOUS
<1>5. CASE stmt.db \in open /\ f # None
  <2>1. chosen' = f /\ pc' = "callback" /\ UNCHANGED outcome
    BY <1>4, <1>5 DEF Dispatch, Goto
  <2>2. stmt.db \in DBs /\ stmt.route \in Schemas /\ stmt.call.arity \in Arities
    <3>1. stmt.call \in CallShapes /\ stmt.db \in DBs /\ stmt.route \in Schemas
      BY <1>1, <1>3 DEF Statements
    <3>2. 0 \in Arities
      BY FunctionsAssumption DEF Arities
    <3>3. stmt.call.arity \in Arities
      BY <3>1, <3>2 DEF CallShapes
    <3> QED BY <3>1, <3>3
  <2>3. /\ f \in Registered /\ successor[f] = None
        /\ home[f].db = stmt.db /\ home[f].schema = stmt.route
        /\ IF home[f].variadic
             THEN /\ stmt.call.arity >= home[f].arity
                  /\ ~\E g \in Registered :
                       /\ home[g].db = stmt.db /\ home[g].schema = stmt.route
                       /\ ~home[g].variadic /\ home[g].arity = stmt.call.arity
             ELSE stmt.call.arity = home[f].arity
    BY <1>4, <1>5, <2>2, ImplementationIs DEF FunctionInv
  <2>4. Meant = {g \in Registered : home[g].db = stmt.db /\ home[g].schema = stmt.route}
    BY <1>1, <1>3, CalledIn DEF Routed
  <2>5. before \subseteq Registered /\ None \notin Registered /\ Registered \subseteq Impls
    BY FunctionsAssumption DEF FunctionInv, FlowInv, Registered
  <2>6. FlowInv'
    BY <1>1, <1>2, <1>3, <2>1, <2>3, <2>5 DEF FunctionInv, FlowInv, Routed
  <2>7. RightOverload'
    BY <1>1, <1>2, <2>1, <2>3, <2>4, <2>5 DEF RightOverload
  <2>8. NoStaleImplementation'
    BY <1>1, <1>2, <2>1, <2>3, <2>5 DEF NoStaleImplementation
  <2> QED BY <1>2, <1>3, <2>1, <2>6, <2>7, <2>8 DEF FunctionInv, KnownCallsAreRouted,
         ResultIsExact, CallbackFailuresAre38000, Nothing
<1>6. CASE ~(stmt.db \in open /\ f # None)
  <2>1. outcome' = [kind |-> "error", state |-> "38000"] /\ pc' = "answered"
          /\ UNCHANGED chosen
    BY <1>4, <1>6, FailsIs DEF Dispatch, Goto
  <2>2. FlowInv'
    BY <1>1, <1>2, <1>3, <2>1 DEF FunctionInv, FlowInv, Routed
  <2>3. ResultIsExact' /\ CallbackFailuresAre38000'
    BY <1>1, <1>3, <2>1 DEF ResultIsExact, CallbackFailuresAre38000, Nothing
  <2> QED BY <1>2, <2>1, <2>2, <2>3 DEF FunctionInv, KnownCallsAreRouted, RightOverload,
         NoStaleImplementation
<1> QED BY <1>5, <1>6

\* The callback answers.
LEMMA InvokeStep ==
    ASSUME FunctionInv, NEW r \in Results, Invoke(r)
    PROVE  FunctionInv'
<1>1. /\ UNCHANGED registry /\ UNCHANGED <<open, stmt, chosen, known, before>>
      /\ pc = "callback" /\ pc' = "answered" /\ returned' = r
  BY DEF Invoke, Goto
<1>2. Registered' = Registered /\ RegistryInv' /\ Meant' = Meant
  BY <1>1, RegistryKept DEF FunctionInv
<1>3. FlowInv'
  BY <1>1, <1>2 DEF FunctionInv, FlowInv, Routed
<1>4. ResultIsExact' /\ CallbackFailuresAre38000'
  <2>1. CASE r.kind \in {"error", "panic"}
    <3>1. outcome' = [kind |-> "error", state |-> "38000"]
      BY <2>1, FailsIs DEF Invoke
    <3> QED BY <1>1, <2>1, <3>1 DEF ResultIsExact, CallbackFailuresAre38000
  <2>2. CASE r.kind \notin {"error", "panic"}
    <3>1. outcome' = normalizeFunctionResult(r)
      BY <2>2 DEF Invoke
    <3> QED BY <1>1, <2>2, <3>1, NormalizedIs DEF ResultIsExact, CallbackFailuresAre38000
  <2> QED BY <2>1, <2>2
<1> QED BY <1>1, <1>2, <1>3, <1>4 DEF FunctionInv, KnownCallsAreRouted, RightOverload,
       NoStaleImplementation

\* A row begins, a call the engine evaluates by itself, the next row, the return.
LEMMA RowSteps ==
    ASSUME FunctionInv, Execute \/ EngineCall \/ NextRow \/ Return
    PROVE  FunctionInv'
<1>1. /\ UNCHANGED registry /\ UNCHANGED <<open, stmt>>
      /\ pc \in {"prepared", "row", "answered"} /\ pc' \in {"prepared", "row"}
      /\ known' \in {known, {}} /\ before' \in {before, {}, Registered}
      /\ pc' = "prepared" => UNCHANGED known
      /\ chosen' \in {chosen, None}
  BY DEF Execute, EngineCall, NextRow, Return, Forget, Goto, running
<1>2. Registered' = Registered /\ RegistryInv' /\ Meant' = Meant
  BY <1>1, RegistryKept DEF FunctionInv
<1>3. returned' = Nothing /\ outcome' = Nothing
  BY DEF FunctionInv, FlowInv, Execute, EngineCall, NextRow, Return, Forget, running
<1>4. FlowInv'
  <2>1. pc' = "row" => known' = {}
    BY DEF FunctionInv, FlowInv, Execute, EngineCall, NextRow, Return, Forget, Goto
  <2> QED BY <1>1, <1>2, <1>3, <2>1 DEF FunctionInv, FlowInv, Routed
<1>5. KnownCallsAreRouted'
  <2>1. pc' = "prepared" => known = {}
    BY DEF FunctionInv, FlowInv, Execute, Goto, EngineCall, NextRow, Return
  <2> QED BY <1>1, <1>2, <1>4, <2>1 DEF KnownCallsAreRouted, FlowInv, Routed
<1> QED BY <1>1, <1>2, <1>3, <1>4, <1>5 DEF FunctionInv, RightOverload,
       NoStaleImplementation, ResultIsExact, CallbackFailuresAre38000, Nothing

-----------------------------------------------------------------------------
(* Theorems *)

\* The invariant holds initially, ...
LEMMA FunctionInit == Init => FunctionInv
<1> SUFFICES ASSUME Init PROVE FunctionInv
  OBVIOUS
<1>1. Registered = {} /\ Registered = 1..0
  BY DEF Init, Registered
<1>2. RegistryType
  BY DEF Init, RegistryType
<1>3. VariadicIsHome /\ FixedIsHome
  BY DEF Init, VariadicIsHome, FixedIsHome, FixedAt
<1>4. OverloadsStay /\ \A f \in Impls \ Registered : successor[f] = None
  BY <1>1 DEF Init, OverloadsStay
<1>5. FlowInv
  BY <1>1 DEF Init, FlowInv
<1>6. \E n \in Nat : Registered = 1..n
  BY <1>1
<1> QED BY <1>2, <1>3, <1>4, <1>5, <1>6 DEF Init, FunctionInv, RegistryInv, RightOverload,
       NoStaleImplementation, KnownCallsAreRouted, ResultIsExact,
       CallbackFailuresAre38000, Nothing

\* ... every step keeps it, ...
LEMMA FunctionStep == FunctionInv /\ [Next]_vars => FunctionInv'
<1> SUFFICES ASSUME FunctionInv, [Next]_vars PROVE FunctionInv'
  OBVIOUS
<1>1. CASE UNCHANGED vars
  <2>1. Registered' = Registered /\ RegistryInv' /\ Meant' = Meant
    BY <1>1, RegistryKept DEF vars, FunctionInv
  <2> QED BY <1>1, <2>1 DEF vars, running, registry, FunctionInv, FlowInv, Routed,
         RightOverload, NoStaleImplementation, KnownCallsAreRouted, ResultIsExact,
         CallbackFailuresAre38000
<1>2. CASE Next
  BY <1>2, RegisterStep, PrepareSteps, RewriteStep, DispatchStep, InvokeStep, RowSteps
     DEF Next
<1> QED BY <1>1, <1>2

\* ... so it holds of every reachable state.
LEMMA FunctionAlways == Spec => []FunctionInv
BY FunctionInit, FunctionStep, PTL DEF Spec

\* Every variable keeps its type, and the dispatcher calls nothing but an
\* implementation (function.go: its lookup is checked before the call).
THEOREM FunctionTypes == Spec => []TypeOK
<1>1. FunctionInv => TypeOK
  <2> SUFFICES ASSUME FunctionInv PROVE TypeOK
    OBVIOUS
  <2>1. stmt = Unprepared \/ \E d \in DBs : stmt \in StatementsOf(d)
    BY DEF FunctionInv, FlowInv, Statements, StatementsOf
  <2>2. pc = "callback" => chosen # None
    BY FunctionsAssumption DEF FunctionInv, RightOverload, Meant, Registered
  <2> QED BY <2>1, <2>2 DEF TypeOK, FunctionInv, FlowInv, RegistryInv, RegistryType
<1> QED BY <1>1, FunctionAlways, PTL

\* The callback that runs belongs to the DB and the schema of the call, and it is the
\* overload Go's registry would choose, although registrations happen between
\* Prepare, Execute and each row.
THEOREM OverloadIsRight == Spec => []RightOverload
<1>1. FunctionInv => RightOverload
  BY DEF FunctionInv
<1> QED BY <1>1, FunctionAlways, PTL

\* An implementation replaced before the statement was executed never runs.
THEOREM NothingStaleRuns == Spec => []NoStaleImplementation
<1>1. FunctionInv => NoStaleImplementation
  BY DEF FunctionInv
<1> QED BY <1>1, FunctionAlways, PTL

\* What the prefilter lets through unread has nothing to be rewritten.
THEOREM KnownCallsRouted == Spec => []KnownCallsAreRouted
<1>1. FunctionInv => KnownCallsAreRouted
  BY DEF FunctionInv
<1> QED BY <1>1, FunctionAlways, PTL

\* A statement that names the dispatcher is refused before it is prepared, with and
\* without functions in the registry.
THEOREM DispatcherStaysPrivate == Spec => []DispatcherIsPrivate
<1>1. FunctionInv => DispatcherIsPrivate
  BY DEF FunctionInv, FlowInv, Routed, DispatcherIsPrivate
<1> QED BY <1>1, FunctionAlways, PTL

\* No integer is wrapped or truncated on its way from the callback to the caller,
\* at any width.
THEOREM ResultsAreExact == Spec => []ResultIsExact
<1>1. FunctionInv => ResultIsExact
  BY DEF FunctionInv
<1> QED BY <1>1, FunctionAlways, PTL

\* Every failure in or around a callback is reported as 38000, whatever its text.
THEOREM CallbacksFailAs38000 == Spec => []CallbackFailuresAre38000
<1>1. FunctionInv => CallbackFailuresAre38000
  BY DEF FunctionInv
<1> QED BY <1>1, FunctionAlways, PTL

=============================================================================
