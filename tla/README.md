# pgmem in TLA+

pgmem is an in-memory PostgreSQL emulator for Go tests: SQL is parsed with
PostgreSQL's parser, rewritten, and executed by an embedded SQLite database
through **one** connection that every caller of a `DB` shares. What is hard to
get right in it is not the SQL but the sharing: three kinds of locks around one
connection, snapshots taken schema by schema, transactions that pin the
connection, contexts that are canceled in the middle, and callbacks that run
while the connection is held. Around that core are the places where a statement
changes its meaning on the way to the engine: schema qualification, the routing
of registered functions, the row helpers, the mapping of errors. This directory
models both, checks them with TLC and proves the core with TLAPS.

## Inventory

| Component | State | Operations | Hard part |
| --- | --- | --- | --- |
| DB and schema topology (`database.go`) | `closed`, `schemas`, `mu` (RWMutex), `topologyMu`, the pool `sqlDB` of one connection | `NewContext`, `CreateSchema`, `Schema`, `SchemaNames`, `Close` | waits for the connection between two looks at `closed`; Close races everything |
| Backup and restore (`backup.go`) | `Backup`: names, versions, images | `BackupContext`, `RestoreContext` | several engine calls that must look like one; early returns with three locks; `schema_version` as a stand-in for the definition |
| Schema execution (`schema.go`) | none of its own | `Exec`, `Query` (and `None`, `Many`, `One` on top) | scripts in one transaction; cancellation |
| `database/sql` adapter (`driver.go`) | per logical connection: `mu`, `closed`, `transaction`; per transaction: `finished`, the `sql.Conn` it pins, the inner `sql.Tx` | `Connect`, `BeginTx`, `Exec`, `Query`, `Prepare`, `Ping`, `Commit`, `Rollback`, `Close`, rows, statements | the engine connection must always come back; stale handles |
| Interceptors (`intercept.go`) | `entries`, `nextID`, a `sync.Once` per subscription | `InterceptQueries`, `Unsubscribe`, `runInterceptors` | entries are copied and called without a lock; callbacks reenter |
| Scalar functions (`function.go`) | registry of overloads per schema and name, a global map of open DBs | `RegisterFunction`, rewriting at Prepare, dispatch at every row, conversion of results | the registry changes between Prepare and Execute, and between two rows; fixed against variadic overloads; unsigned results at 2^63 |
| Translator (`translator.go`) | none | schema qualification, foreign-key qualifiers, type names, `ILIKE` | which names are qualified, and what the engine makes of the others |
| Table helpers (`table.go`) | a `Table`: schema and name, checked once | `TableContext`, `InsertContext`, `FindContext` | a handle outlives its relation; placeholders and nil entries |
| Errors (`errors.go`, `sqlState`) | none | result code and text to SQLSTATE | the order of the tests; texts that quote other texts |
| Options (`options.go`) | none | configure | - |

How they interact: every `Schema` call first takes `db.mu.RLock` for a moment
(`isClosed`), then asks the pool for the connection. `CreateSchema`, `Backup` and
`Restore` take `topologyMu` first; `Backup` and `Restore` keep the read lock until
they return, `CreateSchema` does not. `Close` takes the write lock. An adapter
transaction keeps the connection from `BeginTx` to `finish` and takes the read
lock for each of its statements in between. A registered function runs inside a
statement, on the connection, and may take the read lock too. A Go RWMutex
admits no new reader while a writer waits: that is how readers come to wait for
one another.

The properties that make each part correct are the ones listed under *Runs*; the
places where the code could go wrong are `hazards` in `PROJECT.json`.

## Modules

| Module | What it is |
| --- | --- |
| `Database` | `database.go`, `backup.go`, the execution paths of `schema.go`, transactions as seen from the DB, callbacks that register functions |
| `LinearStore` | what the DB promises: every call takes effect at one instant or not at all |
| `DatabaseRefinement` | the mapping from `Database` to `LinearStore` |
| `DatabaseMemory` | `Database` with the memory of the public images: which slice shares its bytes with the engine |
| `MCDatabase`, `MCMemory` | which goroutine makes which calls in the runs |
| `Adapter` | `driver.go` |
| `Interceptors` | `intercept.go` |
| `Transactions`, `MCTransactions` | what the transactions of `schema.go` and `driver.go` do to the data when something fails; `MCTransactions` adds the symmetry of the calls |
| `Diagnostics` | `sqlState` of `database.go`, used by the next three |
| `ScalarFunctions`, `MCFunctions` | `function.go`; `MCFunctions` adds the symmetry of the DBs |
| `Relations` | `translator.go` and the handles of `table.go`: which relation a statement reaches |
| `TableRows` | `Relations` with `Insert` and `Find` of `table.go` and `OneContext`: the specification that is checked |
| `DatabaseLocks`, `DatabaseSnapshots` | theorems about `Database`, and about `DatabaseMemory` |
| `DatabaseLinearizable` | the proof that `Database` implements `LinearStore` |
| `TransactionsAtomic`, `AdapterPins`, `InterceptorsExact` | theorems about `Transactions`, `Adapter`, `Interceptors` |
| `FunctionsExact`, `TablesExact` | theorems about `ScalarFunctions`, and about `Relations` with `TableRows` |

### Database

Each goroutine has a program counter `pc[p]` and the local variables of its call,
`call[p]`. One action is the code between two points where the goroutine can wait
or be overtaken; `PROJECT.json` maps each action to its lines. Labels carry the
name of the operation (`backup_rlock`: about to take `db.mu.RLock` in Backup).
`Roles` says which calls a goroutine makes, so that a run can pit chosen calls
against each other.

- `topologyMu` is the owner of the mutex; `readers` the goroutines that hold the
  read lock across a wait; `writer` the goroutine that has *announced*
  `db.mu.Lock`. A short read section is one step with the guard
  `writer = None`. (The alternative `Canceled(p)` in these guards is
  `runInterceptors` and `validLocked` looking at the context before any lock.)
- `conn` is the goroutine that holds the engine connection. Waiting for it ends
  when it is free, when the pool is closed, or when the context is canceled
  (`ConnRefused`).
- `live` is what the connection sees, `committed` what a ROLLBACK would leave,
  `txn` whose transaction is open. A schema's contents are its rows, its
  definition (`shape`) and its `schema_version`: DML changes the first, DDL the
  other two.
- Backups: `VACUUM ... INTO` of a named schema increments the version in the
  image; `sqlite3_deserialize` gives public its recorded version back; a named
  schema is written by the online backup API into a new in-memory database and
  comes out with version 1 whatever the image said (`OnlineRestored`; this is
  SQLite's behaviour, observed with 3.40.1).
- Cancellation (`Cancel`) may come at any moment of a call with a cancelable
  context. A statement or an ATTACH canceled while it runs may have taken effect
  and still report the cancellation. `database/sql` rolls back the transaction of
  a canceled context on its own goroutine: `ScriptAbort` takes the connection
  away from a script, `TxAbort` ends an adapter transaction but leaves its
  connection pinned by `BeginTx`'s `sql.Conn`.
- `EngineFaults` lets the engine calls of CreateSchema, Backup and Restore fail
  by themselves.
- `outdated` is a history variable: the Backups after which DDL or a new schema
  was committed.

`DatabaseMemory` runs the actions of `Database` and says which bytes they touch.
An image is a Go slice, that is, a reference to a buffer of `heap`; `main` is the
buffer the engine keeps public in, `slice[b]` that of the Backup's
`images["public"]`. The interfaces `connectionSerializer` and
`connectionDeserializer` say nothing of who owns the bytes, so the driver is the
worst they allow: Serialize returns the engine's own buffer, Deserialize makes the
engine work in the one it is given, and every write happens in place
(`EngineWrites`). What keeps an image apart is `cloneBytes` in
`serializeConnection` and `deserializeConnection`; the mutant leaves the second one
out. Named schemas leave and enter through files, so only public needs this.

### Adapter

`pin` is the logical connection that holds the engine connection, for a
transaction or for open rows; `tx` are the `sqlTransaction` objects with the
state of their inner `sql.Tx`; `prepared` says whether a statement is bound to
the pool or to the transaction. A call is two steps, the checks under `c.mu` and
the part that needs the engine; `database/sql` never makes two driver calls on
one connection at once. `ResetSession` and `IsValid` (`SessionUsable`) tell
`database/sql` whether to keep a connection; it closes one that is not usable
(`Discard`).

### Interceptors

`entries` holds ids in order, `queue[p]` a query's private copy. A callback
(`pc = "callback"`) may register and unsubscribe before it answers or passes on.

### Transactions

`Database` treats a transaction as something that always works. Here it is split
in two: what the engine does (`begun`, `live`, `committed`, `orphan`) and what
`database/sql` believes (`tx`, and `conn`, who holds the connection). Three things
change one side without the other. A COMMIT fails because of a deferred
constraint (`orphan`): `sql.Tx` is done, and the SQLite driver clears the
transaction. A writing statement is interrupted by a context of its own: SQLite
rolls the whole transaction back, `sql.Tx` stays open (`AdapterInterrupted`). And
BEGIN, COMMIT or ROLLBACK arrives as SQL text. History variables record what the
promises depend on: `textual` the calls that sent such text, `dropped` the calls
whose transaction the engine rolled back by itself, `stray` what these wrote after
that. A call that sends no text keeps its promises whatever text *others* send; of a
dropped transaction exactly the stray writes stay. Only the text of a statement of
its own, outside a script or transaction, excepts others: it can leave the shared
connection in a transaction (`NoLooseControl`). A write is a pair of the call and
its number, so the properties can say whose writes are where.

### ScalarFunctions

One name, one statement with one call of it, and registrations by others at any
moment: `Prepare`, `Prefilter` and `Rewrite` are three readings of the registry,
`Dispatch` a fourth at every row. `Rewrite` may refuse any statement: a Translator
of the application's own may produce text that does not parse or deparse. The histories `known` and `before` keep what was
registered at Prepare and at Execute, `home` and `successor` what each
implementation was registered as and what replaced it. Integers have the width
`2 * Half` and results lie at its edges.

### Relations and TableRows

A relation is a space of the engine (`main` for public, or an attached schema) and
a name. `Meaning` is what a name means to PostgreSQL with the handle's schema as
search path; `rewriteRelation` is what the translator makes of it; `Candidates`
and `Resolved` are the engine's own lookup, main first. `writers` and `declared`
record what statements and foreign keys *meant* per relation they reached. DROP
and the qualifiers of foreign keys are where the translator does something else
than qualify. `TableRows` adds rows; columns are numbered in the order
`sort.Strings` gives their names, an `InsertStatement` or `FindStatement` is its
columns, placeholders and arguments, and the engine reads them back. An unknown
column has a simple name (one that needs quotes may be a string to SQLite).
Columns of foreign keys are beside the modelled ones and stay NULL. The last
column is the key, of a type other than INTEGER and declared NOT NULL: SQLite's
PRIMARY KEY alone does not refuse NULL, and an INTEGER PRIMARY KEY replaces it by
a generated id.

## Runs

| Run | Expect | Shows |
| --- | --- | --- |
| `snapshot` | pass | Backup and Restore against scripts, transactions, CreateSchema and Close, every context cancelable: `LocksFollowCalls`, `TransactionsArePinned`, `BackupExcludesTopology`, `BackupIsConsistent`, `RestoreIsExact`, `PublishedIsAttached`, and that `Database` refines `LinearStore` |
| `topology` | pass | `EveryCallReturns`: without Backup and Restore nobody waits for ever |
| `versions` | pass | two named schemas, DDL and failing engine calls: `FaultsAreContained`; for public the version check is sound (`PublicDefinitionKept`) and repeatable (`PublicIsRepeatable`); the memory of the images: `BackupsAreImmutable`, no write and no Restore changes a returned Backup |
| `adapter` | pass | `PinHasOwner`, `EndedStaysEnded`, `DriverCallsReturn` for two logical connections |
| `interceptors` | pass | `RegistryIsExact`, `UnsubscribeIsSettled`, `LaterQueriesSkipIt`, `NobodyIsSkipped` |
| `transactions` | pass | `AcknowledgedIsKept`: Commit never reports success for writes that are gone; `FailedLeavesNothing`: a failed script or transaction leaves exactly its stray writes, none if it was not dropped; `IdleConnectionIsClean`: the pool gets no connection back in a transaction from a script or an `sql.Tx`; `PinnedIsPrivate`: nobody writes or commits on a held connection |
| `functions` | pass | `RightOverload`, `NoStaleImplementation` (a row uses what was registered last before the Execute, or later), `KnownCallsAreRouted` (what was registered before Prepare is never left to the engine), `DispatcherIsPrivate`, `ResultIsExact`, `CallbackFailuresAre38000` |
| `tables` | pass | `WritesStayHome`, `ForeignKeysKeepTheirMeaning`, `InsertIsExact`, `FindIsExact`, `ErrorsNameTheirCause` |
| `backup_close_deadlock` | violation | Backup waits for the connection with the read lock, Close waits for Backup, a callback on the connection waits for Close (`backup.go:61`) |
| `named_restore_repeat` | violation | a second Restore of a Backup with a named schema is refused although nothing changed |
| `adapter_statement` | violation | a statement prepared before Begin and used in the transaction waits for its own transaction |
| `drop_isolation` | violation | an unqualified DROP TABLE through a named schema drops public's table of that name (`translator.go:50`) |

The four violations are disagreements between the code and its own comments and
documents; `findings` in `PROJECT.json` quotes both sides. In the deadlock run
the holder of the connection is a query whose callback registers a function
(the situation of `function_test.go:288`); an adapter transaction that executes
its next statement plays the same part.

Further deviations that the models contain and the properties step around,
without a run of their own:

- The reset of a named schema's version also works the other way: DDL can bring
  the version back to the one a Backup recorded, and Restore then undoes the DDL
  (`backup.go:144`; `PublicDefinitionKept` is stated for public only).
- COMMIT as SQL text inside a script ends the script's transaction: when a later
  statement fails, the earlier ones stay (`schema.go:84`; `FailedLeavesNothing` and
  `AcknowledgedIsKept` except the call that sent the text, and no other).
- BEGIN as a statement of its own leaves the shared connection in a transaction,
  in which the next callers work (`schema.go:61`; `IdleConnectionIsClean` and, for
  single statements, `AcknowledgedIsKept` assume `NoLooseControl`).
- After a statement interrupted by its own context, the next statements of the
  same `sql.Tx` are committed one by one and survive Rollback (`driver.go:181`;
  they are the `stray` writes, and `FailedLeavesNothing` says that nothing else of the
  transaction stays). `Commit` reports an error, so `AcknowledgedIsKept` needs no
  exception.
- An ATTACH that takes effect and reports a cancellation leaves a schema attached
  that `db.schemas` does not have; creating it again fails (`database.go:133`;
  `PublishedIsAttached` and `LinearStore` speak of published schemas).
- An interceptor may start after its Unsubscribe has returned, in a query that
  copied the entries before (`intercept.go:97`; `LaterQueriesSkipIt` is about
  queries that start later).
- `DROP TABLE public.t` fails with 42P01: only RangeVar nodes get public renamed to
  main (`translator.go:52`; `UndefinedMeansUndefined` excludes DROP).
- An INSERT that names an unknown column reports XX000, not 42703: the engine says
  "has no column named" (`database.go:227`; an exception in
  `ErrorsNameTheirCause`).
- `ALTER TABLE ... ADD COLUMN ... REFERENCES` always fails, with 42601 if the table
  exists: only CREATE TABLE clears
  the qualifier of the target (`AlterAddForeignKey`).

Bounds. `snapshot`: two row values tell apart "before" and "after" for every
schema, one named schema beside public makes a snapshot two steps long, one
Backup can be taken and restored repeatedly, and three goroutines put one
snapshot, one writer and Close side by side. `versions`: versions go up to 2 and
there are two definitions, enough for a version to come back to an earlier value
after a reset to 1; two named schemas let a fault hit one of two; a buffer for the
engine, one for the Backup and a free one for the next copy are all that the code
ever holds. `topology`:
every lock has a holder, a waiter and a pending writer. `adapter`: two logical
connections compete for the engine, two transactions make a handle stale.
`interceptors`: three registrations make the removal of a middle entry matter,
two goroutines race. `transactions`: three calls, so that one holds the
connection, one waits and one has ended; two statements, so that one succeeds
before another fails; calls differ in nothing but their names, hence the symmetry.
`functions`: two DBs and two schemas to confuse, two
implementations for a replacement or a pair of overloads, arities around the
minimum of a variadic one; `Half = 8` keeps every edge of the conversion. `tables`:
one name in two schemas is the case isolation is about, two columns the least that
can be swapped, two rows the least that Find can tell apart or a key can refuse.

What is assumed of code outside the repository: the SQLite driver rolls back a
transaction whose COMMIT fails; an interrupted INSERT, UPDATE or DELETE rolls back
the transaction it is in (SQLite's documented behaviour of `sqlite3_interrupt`);
its Serialize and Deserialize copy nothing themselves (the worst case);
an unqualified name is looked up in main before the attached schemas; a foreign
key's target is in the schema of its table, and a qualifier on it is a syntax
error. These definitions are marked external in `PROJECT.json`.

Fairness. `FairSpec` of `Database` gives strong fairness to the steps of a call
in progress and to the end of a transaction: a goroutine that can run does; a
`sync.Mutex` in starvation mode and the request queue of `database/sql` serve a
waiter that could be served again and again; `COMPATIBILITY.md` asks clients to
end the transactions they begin. No fairness is assumed of new calls or of
cancellation. In `Adapter` the same holds of the driver calls, and clients end
rows and transactions.

## Proofs

Every invariant of the passing runs and every action property, the refinement of
`LinearStore` among them, is a theorem. The theorems hold for all finite or
infinite sets of goroutines, calls, connections, names, contents and Backups, for
every `Roles`, with and without cancelable contexts and engine faults (two
exceptions are named below). They rest on the named assumption of each module
only: `None` is none of the values it stands beside, public is no named schema,
the initial rows and definition are among the possible ones, bounds are natural
numbers.

- `DatabaseLocks`: `TypeCorrect`, `LocksBalanced` and `Isolation`. `TypeOK` is not
  inductive: a Restore reads `backups[call[p].backup]`, so `TypeInv` adds what the
  local variables refer to at the program points that use them. `ControlStep` and
  `SharedStep` treat the two halves action by action. `LocksFollowCalls` is
  inductive with the types: a goroutine that releases a lock unconditionally
  (`topologyMu' = None`) must be its owner, which the equivalence with program
  points gives. `TransactionsArePinned` is inductive relative to it: whoever
  commits, rolls back or begins owns the connection, so no other goroutine has a
  transaction open.
- `DatabaseSnapshots`, first part: `SnapshotExclusion`, `SnapshotConsistency`,
  `RestoreExactness`. The invariant `SnapshotInv` adds `CloseOrder`
  (the pool of an open DB is open), `BackupsOwned` (a Backup under construction
  has one owner, a Restore works from a returned one) and `SwapSoFar`
  (`RestoreIsExact` while a schema is detached). The argument is a frame lemma
  and two own-step lemmas: while a goroutine holds the read lock and the
  connection, no step of another touches the schemas, the Backups' contents or
  the data (`ReaderFrame`); its own steps extend the part already copied
  (`OwnTopology`, `OwnSnapshot`).
- `DatabaseSnapshots`, attached schemas: `FaultContainment`,
  `HandlesStayAttached`. `AttachInv` says who may work while a schema is missing:
  at most one is, CreateSchema publishes only what it has attached, and
  preparing or copying starts with all attached. `HandlesStayAttached` assumes
  `~EngineFaults`: an ATTACH that fails for a reason of its own does lose the
  schema, which is what `FaultContainment` bounds, without that assumption.
- `DatabaseSnapshots`, versions of public: `DefinitionKept`, `PublicRepeatable`.
  That two versions agree says nothing about two definitions until it is known
  how both came about. `PublicInv` adds `VersionInv`: what the connection sees is
  `Later` than what is committed, and what is committed `Later` than every image
  of public a Backup took (a higher version, or the same one with the same
  definition), and a Backup that is not `outdated` still has the current version.
  A restore of public puts back an image with the current version, and so
  changes neither.
- `DatabaseSnapshots`, memory: `Immutability`, over `MemorySpec`. `MemoryInv` says that
  the engine's buffer is no Backup's slice, and that a slice holds its image from the
  moment it is filled (`Filled`: the Backup need not
  have returned yet). `MemoryStep` shows that a write in place and the two copies keep
  it. `MemorySpecImplementsSpec` maps the memory away, so that everything proved of
  `Spec` holds here too; `SnapshotInv` is used that way.
- `DatabaseLinearizable`: `Linearizability`, for `~EngineFaults` (`LinearStore` has no
  operation that loses a schema). The proof goes step by step: each action is the
  abstract operation of its call at the instant it takes effect, or leaves the
  abstract variables alone. `LinearInv` adds to `PublicInv` and the attached schemas
  that a transaction changes its own schema only (`WritesStayHere`), that a schema
  not in `db.schemas` holds nothing even if it is attached (`UnusedIsEmpty`), and
  that a Backup holds nothing for schemas it does not name (`ImagesAreNamed`). The
  last three are what makes "every schema of the DB" on one side and "every
  schema" on the other the same data. A canceled statement that took effect,
  and an aborted transaction, are the cases where instant and report differ.
- `TransactionsAtomic`: `TypeCorrect`, `Durability`, `Atomicity`, `CleanConnection`,
  `Privacy`. None of the properties is inductive; `AtomicInv` ties the two views of
  a transaction together. `Holder`: an open `sql.Tx` has the connection. `Aligned`:
  the engine's transaction is the holder's and has all its writes, unless the holder
  was dropped or sent SQL text. `Tidy`: with `NoLooseControl` a transaction is open in
  the engine only while an `sql.Tx` is. `Private`: only the holder has uncommitted
  writes; this part needs no exception for SQL text, because a BEGIN of the pool is
  refused while one is open. `Unstarted` and `Undone` follow a call's writes from
  nothing to its stray ones; `Controls` is what SQL text can do to the engine. `ExecutesEffect` reduces a statement to two effects, so that each part
  is one lemma with one step per action.
- `AdapterPins`: `TypeCorrect`, `PinsAreOwned`, `EndIsFinal`. `PinInv` adds to
  `PinHasOwner` that calls run on open connections only (`CallsAreOpen`: rows
  opened by a call in progress would otherwise pin the engine for a closed
  connection) and that a finished transaction has no inner one to abort
  (`FinishedIsOver`).
- `InterceptorsExact`: `TypeCorrect`, `RegistryExactness`, `RemovedStayAway`,
  `UnsubscribeSettles`, `EveryoneIsAsked`. `ExactInv` adds that ids are given out in
  order (so that a new entry is the largest), that one goroutine removes an entry
  (`OneRemoves`), and that a query's copy still holds whoever is subscribed and not
  asked (`CopiesAreExact`). Three lemmas about sorted sequences carry the rest:
  appending, cutting out the first match, taking the head.

- `FunctionsExact`: `FunctionTypes`, `OverloadIsRight`, `NothingStaleRuns`,
  `KnownCallsRouted`, `DispatcherStaysPrivate`, `ResultsAreExact`,
  `CallbacksFailAs38000`. `FunctionInv` has two further parts. `RegistryInv`: the
  registry and the histories `home` and `successor` agree: an implementation in the
  registry stands where it was registered and has not been replaced
  (`VariadicIsHome`, `FixedIsHome`), and a place once taken is never empty again
  (`OverloadsStay`). `FlowInv`: what the statement in
  flight carries from one reading of the registry to the next, in particular that
  what was known at Prepare is still meant later (`MeantGrows`: the registry
  replaces, and never removes). Registration may come between any two steps, so
  it has a lemma of its own (`RegisterStep`, `RegistryKept`). `ResultIsExact` needs
  no bound on the width.
- `TablesExact`: `TableTypes`, `Isolation`, `ForeignKeys`, `InsertExactness`,
  `FindExactness`, `ErrorExactness`. `CatalogInv` and `RowsInv` are inductive; the
  properties about the last statement follow from its step. `Qualified` is what
  isolation rests on: the translator gives a relation the space it means, and a
  name with a space resolves to nothing else (`QualifiedIsResolved`). For the
  statements of Insert and Find, `RankIs` shows by counting that the places of
  sorted columns are exactly 1 to n; with it `StoredRowIs` and `FindMatches` show
  that every argument reaches its column, for any number of columns. The order of
  the rows Find returns is the order of `Among`, which stays unexpanded in the
  model and in the property: the proof shows that both select by the same set.

Only model-checked: liveness (`EveryCallReturns`, `DriverCallsReturn`), which this
prover does not treat, and the four violations, which are counterexamples. What a
recursive function computes is out of its reach too, so nothing is proved about
`SelectSeq` itself.

## Plan

1. `Database`, `LinearStore`, their runs; types, locks and snapshots proved. *(done)*
2. `Adapter` and `Interceptors` with runs. *(done)*
3. `ScalarFunctions`, `Transactions`, `Relations` and `TableRows`, `Diagnostics` with
   their runs. *(done)*
4. `TransactionsAtomic`, `AdapterPins`, `InterceptorsExact`. *(done)*
5. `FunctionsExact`, `TablesExact`, the attached schemas and the versions of public,
   the refinement of `LinearStore` step by step. *(done)*
6. `RejectsOnlyChanged` for a DB without named schemas, where it should hold;
   a frame for what remains of `LinearStore` when the engine fails.

## Not modelled

- In the translator: the mapping of type names and `ILIKE` (renamings without
  control), and statements that are qualified into something the engine refuses
  (the name of a CTE, `CREATE INDEX ... ON`, columns written `public.t.c`): these
  only fail.
- SQLite's execution of single statements beyond the rows and constraints above,
  PostgreSQL parsing and deparsing, command tags, the conversion and copying of
  values and rows.
- Options (read once before any concurrency), the CI configuration and the script
  that checks the style of tests.
- Whether `database/sql` ever discards the one engine connection, and the data
  with it: that is decided by the SQLite driver.
