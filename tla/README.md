# rust-ef in TLA+

A verification project for rust-ef, an asynchronous object-relational mapper in
Rust modelled on EF Core. It covers the parts whose correctness depends on
order, failure or interleaving, or on several parts of the code agreeing: the
connection session of a context, the unit of work and `save_changes`, the
ordering of entity types, migrations, the way from a `linq!` closure to an
answer of the database, the loading of navigations, and the entity model that
all of these read.

Paths below are relative to `src/crates/core/src` unless they start with
`crates/` or `docs/`.

## 1. The system

### Components, their state and their operations

| Component | State | Operations | Interacts with |
| --- | --- | --- | --- |
| Session (`session.rs`) | slot `Option<Arc<SharedTxn>>` behind a tokio mutex; the connection inside `SharedTxn` behind another | `get_connection`, `begin_with`, `is_active`, `clear`, `clear_now` | connection pool, transaction handles, every statement |
| Transaction handles (`transaction.rs`) | the shared transaction, `consumed`, `ConnectionGuard` | `commit`, `rollback`, `drop`, background rollback, savepoints | session (registration), connection (`discard`) |
| Connections (`crates/sqlite`, `crates/postgres`, `crates/mysql`) | open transaction, savepoints, pool slot | execute, query, begin, commit, rollback, savepoint, `discard` | pool, blocking threads (SQLite) |
| Change tracker (`tracking.rs`) | entries: state, original snapshot, modified properties, upsert flag | `track`, `detect_changes`, `set_state`, `accept_all_changes`, `reject_all_changes`, `detach`, `clear` | shared by all DbSets of a context |
| DbSets (`db_set.rs`, `db_context/set_ops.rs`) | a `Vec` of entity and entry id for each type | `add`, `attach`, `update`, `upsert`, `remove_at`, `retain`, `load_all`, ... | change tracker, save pipeline |
| Save pipeline (`db_context/save_pipeline.rs`, `save_phases.rs`, `change_executor/`) | phase, fix-up links, cascade directives, transaction source | `save_changes`, `fail_save` | all of the above, interceptors, dependency graph |
| Cascades (`cascade.rs`) | children in navigation fields, directives | drain, key fix-up, SET NULL, DELETE | save pipeline |
| Dependency graph (`dependency_graph.rs`) | nodes, edges, in-degrees, queue | `build`, `topological_sort`, `deletion_order` | decides the order of the phases |
| Migrations (`migration/`, `crates/cli`) | scripts on disk, `__ef_migrations_history`, the schema | `generate`, `apply`, `apply_pending`, `revert_last`, `revert_to_target`, ... | provider pool, one command for each statement |
| `linq!` (`crates/macros/src/linq`) | none: closures and clauses become builder calls | conditions, clauses, terminals | query builder, constants of the derive macro |
| Query builder and compiler (`query/`) | `QueryState`: condition tree, parameters, page, order, groups, joins, table expressions, set operations | `filter` and the other calls, compilation, terminals, bulk DML | session (one statement), filters of the model |
| Derive macro (`crates/macros/src/entity`) | static metadata, conversions between rows and entities | `entity_meta`, `from_row`, navigation setters | everything reads it |
| Navigations (`navigation_loader.rs`, `lazy.rs`, `relations.rs`) | containers of an entity: items, loaded flag, lazy context | `include`, `then`, `load`, `add` | session, filters, metadata |
| Model builder (`model_builder.rs`) | registrations, configurations, two caches | Fluent API, `build`, `filters_by_table` | DbSets copy from it, saves and DDL read it |
| Metadata cache (`metadata_cache.rs`) | built metadata by context key behind an `RwLock`, for the process | `get_or_build` | every new context |
| DI, observability, value conversion, scaffolding | static data or none | wiring, formatting | |

### What is hard

- **Concurrency.** `&DbContext` is enough to run a statement, and a transaction
  handle lives on its own, so statements, saves, handles and the background
  task of a dropped handle interleave at every `await`. Two locks (session and
  slot) and the pool are waited for. All requests share one metadata cache.
- **Cancellation.** Any future may be dropped at an `await`: a connection then
  has to be discarded, not given back with a transaction open.
- **Failure.** Every statement, `BEGIN`, `COMMIT`, savepoint and rollback may
  fail, with others executed before it. PostgreSQL aborts the transaction then,
  MySQL rolls it back after a deadlock, SQLite does neither. A `configure()`
  callback may panic with the lock of the cache held.
- **Order.** INSERT, key fix-up, UPDATE, SET NULL, DELETE and cascade DELETE run
  in an order that has to suit the foreign keys; the tracker is accepted once
  for each DbSet in hash order; types are sorted in hash order; DDL is generated
  in hash order. Parameters are collected in the order of the builder calls and
  placeholders numbered in the order of the clauses.
- **Agreement.** A condition is rewritten four times (closure, calls, tree, SQL);
  table names, columns, keys and filters are copied from the model into sets,
  metadata and constants, which have to stay equal.
- **Stale reads.** A call with includes takes several statements, between which
  other connections write; a lazy reference works from a snapshot of the keys.
- **Retry.** A failed save or migration is repeated on what the failure left.

### What makes each component correct

- Session, handles, connections: a pooled connection is never inside a
  transaction; a live handle owns the session; acknowledged work is durable and
  abandoned work never commits; calls return and connections come back.
- Tracker, DbSets, save: sets and tracker agree; after Ok the rows are the
  entities; the commit is exactly the unit of work; a save that has committed is
  over, also when it returned an error.
- Cascades: no row refers to a missing principal, and the database never has a
  reason to refuse a statement of a save.
- Dependency graph: every type once; principals before dependents.
- Migrations: an apply that returned Ok leads to the model, a revert back.
- Queries: the answer is what the closures and clauses ask for, by whatever
  terminal; a bulk statement touches those rows; the global filter holds; the
  database accepts the statement.
- Navigations: a container holds the related rows, all, once, none hidden.
- Model: what was declared, the same for every reader; built once.

Every hazard of this kind is listed with its line in `PROJECT.json`.

## 2. Modules

| Module | Models | State | Actions |
| --- | --- | --- | --- |
| `TxnSession` | `session.rs`, `transaction.rs`, the transaction frame of `save_pipeline.rs`, what the three providers do with a connection | `holder` (who owns each connection), `txs`, `pending`, `mark` (the stack of savepoints of a transaction, each with the work that was pending when it was set), `durable` (database), `active` (registered handle), `points` (the savepoints the holder of a handle counts on), program counters of statements, saves, handles and background tasks | one for each stretch between two awaits, e.g. `StmtRoute`, `BeginAcquire`, `SaveRollbackTo`, `CreatePoint`, `RollbackPoint`, `ReleasePoint`, `SetIsolation`, `TakeConn`, `BackgroundClear`, and the cancellations |
| `ChangeTracker` | `tracking.rs` as operators on a tracker | | |
| `SaveChanges` | DbSets, the calls of a context and every phase of `save_changes` | `tracker`, `entity`, `db`, `work` (the rows as the transaction sees them), `pc`, `links`, `directives` | one for each call, one for each phase and type of a save |
| `DependencyGraph` | `dependency_graph.rs` | `degree`, `queue`, `result`, `children` | `Start`, `Pop`, `Visit`, `VisitDone`, `Rest` |
| `SchemaDiff` | `migration/engine.rs`, `diff.rs`, `engine_sql.rs`: the changes between two models, their scripts, what the database makes of them | | |
| `Migrations` | `migration/engine_ops.rs`, `history.rs`, `snapshot_io.rs`, the commands of `crates/cli` | `store`, `schema`, `history`, the position of each applier | `Generate`, `ApplyPending`, `RevertLast`, `RevertToTarget`, `TakeNext`, `Execute`, `Breaks`, `Returns` |
| `QueryExpr` | `crates/macros/src/linq/compile`, `query/ast.rs`, `query/compile.rs`: a condition as a closure, as builder calls, as a tree, as SQL, and what each means for a row | | |
| `QueryBuilder` | `query/state.rs`, `query/builder`: the state after each call, the statement, its parameters, what a database answers | | |
| `Queries` | one query from `query()` to its terminal, next to what the caller asked for | `qb` (QueryState), `asked`, `tables`, `scope`, `answer` | one for each builder call or clause and each terminal, bulk statements included |
| `QueryScope` | what a query promises, without builder or SQL: implemented by `Queries` | `stored`, `hidden`, `open`, `scope`, `shown` | `Begin`, `Narrow`, `Show`, `Change` |
| `EntityDerive` | `crates/macros/src/entity`: keys, foreign keys and navigations of a struct, rows to entities | | |
| `Navigations` | `navigation_loader.rs`, `lazy.rs`, `relations.rs`: one `to_list` with includes and what the caller does with the entities | `heap` (entities), `todo` (what the call has still to do), `tables`, `result`, `answer` | one for each statement (`LoadScalar`, `LoadJoin`, `LoadRelated`, `LazyScalar`, ...), `Restore` of nested children, `Add`, `Edit`, `Write` of another connection |
| `ModelConfig` | `metadata_cache.rs`, `model_builder.rs`, `registration.rs`, `db_context/context.rs` | `cache`, `writer`, `poisoned`, a builder, the sets and the last statement of each request | `ReadCache`, `WriteCache`, `Configured`, `Panic`, `Discovered`, `FinishBuild`, `Configure`, `GetSet`, `EnsureCreated`, and one for each kind of statement: `Query`, `Find`, `Include`, `Insert`, `Upsert`, `Update`, `Delete`, `SelfReference`, `Cascade` |
| `TxnSessionProofs`, `SaveChangesProofs`, `DependencyGraphProofs`, `ModelConfigProofs`, `NavigationsProofs` | theorems about the module of that name | | |
| `TxnSequentialProofs` | further theorems about `TxnSession`, on top of `TxnSessionProofs` | | |
| `SaveExactProofs` | further theorems about `SaveChanges`, on top of `SaveChangesProofs` | | |
| `NaturalLemmas` | a least and a greatest number with a property, bounds of finite sets, for the proofs | | |
| `SaveModels`, `SchemaModels` | entity models and projects for the instances | | |
| `MC*` | instances for TLC | | |

`SaveChanges` extends `ChangeTracker`; `Migrations` extends `SchemaDiff`;
`Queries` extends `QueryBuilder`, which extends `QueryExpr`, and instantiates
`QueryScope`; `Navigations` extends `EntityDerive`. The saves of `TxnSession` and
of `SaveChanges` are two views of one function: the first knows locks,
connections, savepoints and cancellation and treats a save as one piece of work,
the second knows rows and treats the transaction as atomic. That the second view
is sound is what `UndoneIsGone`, `PoolIsClean` and `AcknowledgedIsDurable`
of the first show. `DependencyGraph` produces what is the constant `InsertOrder`
in `SaveChanges`. `ModelConfig` shows that the filters and names that `Queries`
and `Navigations` take as given are those of the context.

Where several shapes of the environment are checked in one run, a variable that
never changes holds the one chosen by `Init`: `navs` and `nodes` in
`DependencyGraph`, `policy` in `SaveChanges`, `models` and `setting` in
`Migrations`, `setup` in `Queries` (dialect, filter and menu of calls) and in
`Navigations`. Definitions named `X_Something` after a definition `X` are
plausible bugs of `X`; no specification uses them. They show that each property
can fail.

### Abstractions

- A piece of work is a name, a row a function from columns to small integers, a
  column in a migration a kind, a reference and an index. SQL text is left out.
- A closed connection is identified with the fresh one the pool makes instead.
- Hash order is a nondeterministic order. In `SchemaDiff.InitialCreate`, which
  follows a `Vec`, one order stands for all: its tables precede its keys.
- A statement for several rows of a type is one step, as one failure undoes all.
- `SaveChanges` has one HasMany level: children of children are not drained. Every
  type a navigation leads to has a DbSet (without one a save returns an error while
  it drains, `db_context/save_phases.rs:62-68`). A COMMIT that fails was not
  applied; in `TxnSession` it may have been. For a type that refers to itself, the
  UPDATE of the new foreign keys is part of the step of its INSERT; when it fails,
  keys and foreign keys are set already, as they are when a later phase fails
  (`db_context/save_pipeline.rs:303-312`), which is the case the model has.
- The key of an entity is `NoKey` until its row is inserted; keys then ascend,
  and an upsert uses a key of its own. SQLite reuses a freed key, PostgreSQL
  does not; the model has the former, which is the harder case.
- The caller does not attach one row twice.
- A query is on blogs with posts as the related table. Its statement is a record
  of clauses whose placeholders have numbers; the model database binds them by
  position (`?`) or number (`$n`), has three-valued logic, and refuses what the
  dialect refuses. Rows that compare equal come in the order of their keys.
- In `Navigations` the rows of a table come in the order in which they are
  stored, and statements do not fail; a failure returns from `to_list` or
  `load()` at once and leaves the container as it was.
- A handle that is locked, waiting for a lock or building in `ModelConfig` is a
  value of `at`; `configure()` of one registration is one step.

## 3. What is checked

| Run | Instance | Shows |
| --- | --- | --- |
| `TxnSequential` | SQLite, 2 connections, 2 statements, 1 save, 2 handles, savepoints of 2 names and up to 3 at a time, every call awaited; the pool, BEGIN, statements, SAVEPOINT, COMMIT and ROLLBACK may fail, handles may be dropped | `PoolIsClean`, `HandleOwnsSession`, `AcknowledgedIsDurable`, `UndoneIsGone` |
| `TxnConcurrent` | PostgreSQL, 2 connections, a statement, a save and 2 handles at once, faults, cancellations, the runtime may stop | `PoolIsClean`, `AbandonedIsGone`, `CommittedIsDurable` |
| `TxnOneConnection` | MySQL, one connection, a statement, a save, 2 handles, up to 2 savepoints of one name, calls awaited, deadlocks and other failures, begins cancelled, fair | `SessionRecovers` |
| `TxnAbandoned` | PostgreSQL, one connection, 2 statements and 2 handles at once, statements, COMMIT and ROLLBACK may fail, handles dropped, the runtime may be gone, fair | `ConnectionsReturn`, `CallsReturn` |
| `SaveTracked` | one type with 2 columns and 2 rows, up to 3 entries and 5 calls, 2 failures of anything from `on_saving` to `on_saved`, saves repeated | `SetsMatchTracker`, `SavedMeansStored`, `CommitIsExact`, `CommittedIsAccepted` |
| `SaveCallers` | callers with `update()` and `upsert` who do not edit, and who `retain`, reject and detach, up to 3 entries and 4 calls, a failure, one write of another connection between the calls | `CommitIsExact` (after the other connection wrote: no row of an entity that is not pending is touched, and none is made) |
| `Cascades` | a blog and its posts, up to 4 entries and 4 calls, deletes that cascade with and without constraints in the database, or set NULL, a failure | `ReferencesHold`, `FailuresHaveACause` |
| `GraphModels` | every model of 3 types with single navigations, acyclic ones with repeated navigations and one mutual pair, any subset registered | `EveryTypeOnce`, `PopsInOrder`, `PlainPrincipalsFirst` |
| `Deployments` | PostgreSQL, every pair of 21 models of a blog and its posts, one operator with 3 calls and a failure, or two programs at startup | `AppliedMeansModel`, `RevertedMeansTarget`, `ScriptsAreAccepted` |
| `Queries` | 3 dialects, with and without a global filter, 5 menus of builder calls, 8 closure bodies, 5 blogs and 4 posts, every terminal | `ListsWhatWasAsked`, `ScalarsAgreeWithTheList`, `BulkTouchesWhatWasAsked`, `NothingIsRefused`, and the refinement of `QueryScope` (`StaysInScope`) |
| `Navigations` | blogs, posts, comments, tags and a join type; three eager queries with nesting, three with lazy contexts, one more with a join entity of two keys; one of 5 writes of another connection, up to 3 uses of the entities | `MembersBelong`, `NothingIsMissing`, `HiddenStayHidden`, `LoadTakesEffect`, `AddedIsKept` |
| `ModelConfig` | 3 types in 2 context keys, 3 registered configurations, tokens, a type that refers to itself, 2 requests with 5 kinds of calls on their builders and every statement a save sends, a panic | `CachesAreCurrent`, `ModelIsDeclared`, `StatementsFitTheTables`, `StatementsAreScoped`, `BuiltOnce` |

`TxnSequential` and `GraphModels` also check the type invariant of their module.
`CHECK_DEADLOCK FALSE` is set everywhere: a program may stop calling, and every
bound ends the behaviour. `Cascades` with the `Tree` definitions of `MCSaveChanges`
(nodes that have nodes), `Calls = {"add", "include", "attach", "edit", "clear"}`,
no fault, both `AfterFailure` and `AfterSave` `"clear"`, up to 4 entries and 6
calls is a further instance on which `ReferencesHold` passes.

### Bounds

A conflict over the session needs a transaction, the next transaction, work that
is routed between the two, and a connection outside: 2 handles, 1 or 2 pieces of
work and 2 connections. One connection is where waiting in a circle would show.
Two names (`Points`) and three savepoints at a time (`MaxPoints`) contain one
that is nested in another of its name, one between them, and a save's savepoint
on top, so that rolling back or releasing the wrong one shows.
Two or three entries of a type are needed for a batch of two and a row beside
it; a save, a call, and a second save need `MaxCalls` 4 or 5. A migration that
is applied, reverted and applied again is 3 calls; two models are one
`InitialCreate` and one `diff`. Cycles of length 1, 2 and 3 exist with 3 types.

The menus of `Queries` bound how often one query makes each kind of call: two
conditions, so that one joins another and the filter; one of each for pages,
orders, groups, joins, table expressions and set operations, with a condition
before or after each, so that every pair whose parameters can change places
occurs. The rows of `MCQueries` tell every closure body from every other: ratings
with NULL, hidden rows, no post, posts of one score and of both. In `Navigations`
two levels of nesting have children of several parents to mix up, the rows
contain a parent without children, a child without a parent, a hidden parent, a
shared tag; one write can come between any two statements. In `ModelConfig` two
requests are enough to race for the cache, one panic to poison it, and three
calls to configure, take a set and configure again.

### Fairness

Only in `FairSpec` of `TxnSession`. The runtime polls a future that is woken and
tokio's mutexes and the pools are first-in-first-out, so each statement, begin,
save, handle and background task has weak fairness for its own steps. The caller
has none: nothing obliges it to begin, commit or drop, and a cancellation need
not happen. Calls are awaited in `TxnOneConnection`, which checks `SessionRecovers`;
with overlapping calls a handle can stay registered (`TxnWedged` below). They
overlap in `TxnAbandoned`, where a begin waits for the one connection with the
session lock held while statements, a commit and a background rollback want a
slot, that lock or both: `CallsReturn` is about these waits. A transaction that
the caller never ends, or whose handle stays registered, keeps its connection, so
the property excepts behaviours in which one is held for ever (`HandleIsHeld`). No begin
fails in that instance: begins that fail and are repeated without end could
overtake a waiter for ever under weak fairness, although the queues of the code
are first-in-first-out. Queries, navigations and the model have no fairness: their
calls end by themselves.

### Abstract specification

`QueryScope` has no builder: a query starts from the rows of its set, less the
hidden ones, every call may only narrow it, a read shows rows in scope and
changes nothing, a bulk statement leaves the rows out of scope alone. The
refinement maps `scope` to the rows for which the database would find the
condition of the statement true, so it holds only if each call builds the
condition, and binds the parameters, so that nothing is added. One call does add
rows and is excepted: an `||` in a closure over a global filter (the use
`or over a filter` below).

### Disagreements with the code's documentation

Each configuration below can be run with `tlc -config X.cfg M`; TLC finds the
property violated, and the counterexample is a behaviour of the code.

| Configuration | Module | Violates | What happens |
| --- | --- | --- | --- |
| `TxnStaleClear` | `MCTxnSession` | `HandleOwnsSession` | the background task of a dropped handle clears the session after the next `begin` (`transaction.rs:288`) |
| `TxnWedged` | `MCTxnSession` | `SessionRecovers` | `clear_now` gives up when the lock is taken; the dropped handle stays registered (`session.rs:116`) |
| `TxnDirtyBegin` | `MCTxnSession` | `PoolIsClean` | a begin cancelled while `BEGIN` runs returns the connection unguarded (`session.rs:98`) |
| `TxnDirtySqlite` | `MCTxnSession` | `PoolIsClean` | a SQLite statement cancelled in `spawn_blocking` returns the connection with its transaction open (`crates/sqlite/src/connection.rs:81`) |
| `ZombieEntries` | `MCSaveChanges` | `SetsMatchTracker` | with two DbSets, the acceptance of the first removes the Deleted entries of both, and the second keeps its deleted entity (`tracking.rs:183`) |
| `LostEditAfterDetect` | `MCSaveChanges` | `SavedMeansStored` | an edit after `detect_changes()` is not written and becomes the original (`tracking.rs:112`) |
| `LostUpdateInBatch` | `MCSaveChanges` | `SavedMeansStored` | `update()` in a batch with a detected change writes only that change's columns (`change_executor/executor_dml.rs:57`) |
| `StaleKeyDelete` | `MCSaveChanges` | `CommitIsExact` | keys backfilled by a save that was rolled back stay; removing the entity deletes another row (`db_context/save_pipeline.rs:602`) |
| `LostLink` | `MCSaveChanges` | `ReferencesHold` | the retry of a failed save no longer knows which principal a drained child belongs to (`db_context/save_phases.rs:28`) |
| `UnsavedLink` | `MCSaveChanges` | `SavedMeansStored` | the foreign key of a drained child that exists already is never written (`db_context/save_pipeline.rs:230`) |
| `TrackedDependents` | `MCSaveChanges` | `SavedMeansStored` | a cascade deletes rows of dependents that stay tracked as Unchanged (`db_context/set_ops.rs:459`) |
| `ErrAfterCommit` | `MCSaveChanges` | `ErrMeansUnchanged` | an error of `on_saved` is returned after the commit (`db_context/save_pipeline.rs:588`) |
| `GraphRepeated` | `MCDependencyGraph` | `PrincipalsFirst` | two navigations to one principal are counted twice and subtracted once (`dependency_graph.rs:51`) |
| `MigrationOutOfOrder` | `MCMigrations` | `RevertsMostRecent` | "the most recently applied migration" (`migration/engine_ops.rs:126`) is the last by name |
| `FilterEscapes` | `MCQueries` | `HiddenRowsStayHidden` | the global filter and the conditions are joined without parentheses around a condition whose top is `\|\|`, so `f AND a OR b` lets hidden rows through (`query/builder/filter.rs:128`) |
| `MetadataRebuilt` | `MCModelConfig` | `BuiltOncePerPanic` | a panic in `configure()` poisons the lock; from then on every context builds the model again (`metadata_cache.rs:79`) |

The following need only other constants:

| Start from | Change | Violates | What happens |
| --- | --- | --- | --- |
| `TxnSequential` | one save, two handles, `Faults = {"stmt"}`, `Concurrent = TRUE` | `AcknowledgedIsDurable` | `ROLLBACK TO` of a failed save undoes a statement that ran meanwhile (`db_context/save_pipeline.rs:618`) |
| `TxnSequential` | the same with `Stmts = {}` | `UndoneIsGone` | a commit between the statements of a failing save and its `ROLLBACK TO` commits half of the save (`db_context/save_pipeline.rs:618`) |
| `TxnSequential` | PostgreSQL, two statements, no save, `Faults = {"stmt"}` | `AcknowledgedIsDurable` | `commit` of an aborted transaction returns Ok and earlier work is gone (`transaction.rs:151`) |
| `TxnDirtySqlite` | MySQL, two statements, one handle, `Faults = {"deadlock"}`, `Cancels = {}` | `AbandonedIsGone` | after a deadlock MySQL has rolled the whole transaction back; the handle stays live, and the next statement commits on its own, to survive a rollback (`crates/mysql/src/connection.rs:66`) |
| `ZombieEntries` | `Calls = {"add", "edit"}`, 2 entries, 5 calls | `SavedMeansStored` | an added entity of a later set is Unchanged without a snapshot; its next edit is not seen (`tracking.rs:190`) |
| `SaveTracked` | `UpsertKeys = {3}` | `CommitIsExact` | the INSERT of a save is given the key that the caller chose for an upsert of the same save, which then replaces the new row (`db_context/save_pipeline.rs:401`) |
| `LostUpdateInBatch` | `Calls = {"attach", "edit"}`, 2 entries, 5 calls, `MaxOther = 1` | `OnlyDirtyColumns` | a batch writes the union of the changed columns for each entity (`change_executor/executor_dml.rs:57`) |
| `Deployments` | `Histories <- Reworked`, `Settings <- Applying`, no fault, 1 call | `ScriptsAreAccepted` | two new (or dropped) tables that refer to each other come in hash order and are refused (`migration/engine.rs:131`) |
| `Deployments` | `Dialect = "Sqlite"`, `Settings <- Applying`, no fault, 1 call | `ScriptsAreAccepted` | `ADD CONSTRAINT` and `DROP COLUMN IF EXISTS` are no SQLite statements (`migration/engine_sql.rs`) |
| `Deployments` | `Generator = "stored"`, `Settings <- Applying`, no fault, 1 call | `AppliedMeansModel` | a stored snapshot loses `max_length`, so losing the limit is not noticed (`migration/snapshot_io.rs:101`) |
| `Deployments` | the same with `Generator = "cli"` | `AppliedMeansModel` | `migration add` rebuilds the model without navigations, so no foreign key is created (`crates/cli/src/main.rs:457`) |
| `Deployments` | `Histories <- Restored`, `Settings <- Starting`, no fault, 2 calls | `AppliedMeansModel` | a slow second applier repeats an idempotent drop after the first has gone on (`migration/engine_ops.rs:27`) |

`Queries`, `Navigations` and `ModelConfig` have a constant `Uses` for the rest:
each name stands for a use of the code that the API allows and that breaks a
property. The passing runs set it to `{}`, which closes exactly the guards that
name a use; setting it to one name shows what that use leads to.

| Module | Use | Violates |
| --- | --- | --- |
| `Queries` | `or over a filter` | `StaysInScope` |
| | `filter after having`, `skip alone on SQLite`, `single after take` | `ListsWhatWasAsked` |
| | `aggregate of a page` | `ScalarsAgreeWithTheList` |
| | `bulk of a page or join` | `BulkTouchesWhatWasAsked` |
| | `exists in select or update`, `count of distinct`, `ordered aggregate`, `sum of nothing`, `bulk of a CTE`, `operand with parameters`, `ordered set operation`, `ambiguous column`, `join written backwards`, `exists over a CTE` (it correlates with the table of the entity, `query/compile.rs:280`, which `from_cte` has replaced) | `NothingIsRefused` |
| | `Bodies <- OrOnTheRight` or `OrInExists`: `a && (b \|\| c)` becomes `(a AND b) OR c` | `ListsWhatWasAsked` |
| `Navigations` | `edit before load` | `MembersBelong` |
| | `add before load` | `AddedIsKept` |
| | `lazy beside include` | `LoadTakesEffect` |
| | `lazy join with an own key`: `load()` of a many-to-many reads the related key at its position in the whole join row, from a row of one column (`lazy.rs:241-244, 386-396`). With the join entity of `docs/rust-ef/04-relationships/many-to-many.md:30-42`, whose own key comes first, the container is loaded and empty | `NothingIsMissing` |
| | `then below then`: `include b.posts then b.comments then b.author` looks for `author` in posts and drops it (`query/builder/join.rs:43-66`); `docs/rust-ef/04-relationships/eager-loading.md:31` says that a chain goes on down | `NothingIsMissing` |
| `ModelConfig` | `configure after set` | `StatementsAreScoped`, `StatementsFitTheTables` |
| | `rename after create`, `navigation to a renamed table` (an include or a cascade), `query of a renamed column`, `find by a new key` | `StatementsFitTheTables` |
| | `save by a new key`: after `has_key`, a save takes the values of a key from the compiled `key_values()`; a batch UPDATE binds NULL, a batch DELETE leaves the entity out, one row at a time and a self-reference go by the old key (`change_executor/executor_dml.rs:139, 321, 451`, `db_context/save_pipeline.rs:292`) | `StatementsFitTheTables` |
| | `key in a column of another name`: `find`, and a save that goes one row at a time, name the field of the key and not its column | `StatementsFitTheTables` |
| | `apply_configuration of a new type` | `ModelIsDeclared` |

`IncludedIsLoaded` of `Navigations` (every included container is loaded,
`docs/rust-ef/04-relationships/lazy-loading.md:56`) does not hold either: a
parent without children keeps `is_loaded` false.

A comment at `db_context/save_pipeline.rs:550-552` says that a failed RELEASE
leaves the transaction usable; on PostgreSQL any error aborts it. A handle's
`commit` and `rollback` end with `clear().await` and the drop clears again
(`transaction.rs:259`), a second way to the state of `TxnStaleClear`.

## 4. What is proved

`TxnSessionProofs`, for any sets of connections, statements, saves and handles
and each of the three providers:

- `TypeCorrect`: `Spec => []TypeOK`.
- `PoolStaysClean`: `SafeUse => (Spec => []PoolIsClean)`. `SafeUse` says that no
  begin is cancelled, that the isolation level and the ROLLBACK after it do not
  both fail, and that on SQLite nothing is cancelled and RELEASE does not fail:
  the places where the code lets go of a connection without discarding it.
  `TxnDirtyBegin` and `TxnDirtySqlite` are two of the counterexamples.
  `PoolIsClean` is not inductive: a connection comes back from a statement or
  from the owner, so `PoolInv` adds that whoever holds one outside a transaction
  holds a clean one (`OwnerIsClean`, `StmtIsClean`), that the owner holds at most
  one, in the phases that use it (`OwnerHasOne`, `OwnerUses`, `OneSave`), how a
  phase knows its transaction source (`UnjoinedUsesPool`, `BeginIsManaged`), that
  a connection of a save outside a transaction is not PostgreSQL's
  (`RawNotPostgres`) and on SQLite keeps the savepoint whose RELEASE commits it
  (`RawHasMark`), and that SQLite never aborts. A save on MySQL that found no
  slot but believes in a scoped transaction runs in autocommit mode: its
  connection stays clean throughout (`RawStaysClean`).
- `SequentialOwnership`: `~Concurrent => (Spec => []HandleOwnsSession)`. The
  invariant `CallInv` says that a call in progress is alone (`StmtAlone`,
  `OwnerAlone`, `HandleAlone`, `NoBackground`), so a begin that found the slot
  empty still finds it so. With `Concurrent`, `TxnStaleClear` is a
  counterexample.
- `AbandonedStaysGone`: `SlotsAreKept => (Spec => []AbandonedIsGone)`, with calls
  that overlap. `SlotsAreKept` leaves out a deadlock in MySQL (a counterexample
  is among those of section 3) and, on SQLite, a cancelled future other than a begin, which
  lets the connection of a slot go back to the pool with its transaction open.
  `GoneInv` says why abandoned work cannot surface: what a connection has
  uncommitted, in its transaction or in a savepoint it may roll back to, was
  routed to the transaction whose slot or guard holds the connection, or to none
  (`HeldByItsOwn`); only a commit of that transaction made it durable
  (`DurableIsCommitted`, `LiveIsUndecided`); work is done after it is routed and
  only once (`StmtsRunOnce`, `SavesRunOnce`); a slot is inside a transaction
  (`SlotIsOpen`), so that no statement there commits on its own; and a save that
  began a transaction of its own uses that one (`ManagedIsAlone`).

- `CommitIsDurable`: `CommitSafe => (Spec => []CommittedIsDurable)`, also with
  calls that overlap. `CommitSafe`
  says that nobody calls `rollback_point` (`Points = {}`: one that overlaps a save
  or a statement takes acknowledged work back), and that on PostgreSQL neither
  RELEASE nor the isolation level fails: the code ignores the one and goes on
  after the other, but either has aborted the transaction, and the COMMIT of an
  aborted transaction reports success. `FrameInv` says which calls have begun,
  which are over and that a handle has one connection at most. On top of it
  `Kept` says that until a call routed to it has failed, the connection of a
  handle is inside the transaction and holds all that the handle's calls did;
  `Ended` that a commit found it so; `JoinedMark` that on PostgreSQL a save inside
  a scoped transaction still has its savepoint, so that its failure is undone
  without the loss of anything else.

`TxnSequentialProofs`, for the same instances where every call is awaited, and
where the hypotheses of `PoolStaysClean` and `AbandonedStaysGone` hold (`SeqSafe`):

- `AcknowledgedStays`: `SeqSafe /\ KeepSafe => (Spec => []AcknowledgedIsDurable)`.
  `KeepSafe` concerns PostgreSQL only, where any failing statement aborts the
  transaction and its COMMIT still reports success: there no statement of a
  transaction may fail and no point is set. Section 3 has the counterexample.
- `UndoneStaysGone`: `SeqSafe /\ UndoSafe => (Spec => []UndoneIsGone)`. `UndoSafe`
  says that no `ROLLBACK TO` fails (`fail_save` ignores its error, and the
  handle's owner may go on and commit half of a save) and that on a server no
  COMMIT fails after it took effect.

  Both follow from `SeqInv`, which describes the stack of savepoints on the
  connection of a handle: each savepoint has no more than the one above it and
  than what is pending (`StacksGrow`, which `CutStack`, `GrownStack` and the
  lemmas after them preserve for each statement on a savepoint); the owner's
  `points` are on it in their order, with at least what the owner had been told
  when they were set (`PointsMatch`, `PointsAreSettled`); a save inside a scoped
  transaction has its savepoint on top and the rest as it was (`SaveIsMarked`,
  `AckIsMarked`); and what was acknowledged is pending (`AckIsPending`, the
  converse of `HeldByItsOwn`). `NeverAborted` and `UndoneIsNowhere` are what each
  of the two theorems adds.

`DependencyGraphProofs`, for any set of types and any navigations:

- `GraphTypeCorrect`, `SortIsPermutation` (`EveryTypeOnce`) and
  `QueueRespectsPrincipals` (`PopsInOrder`). The invariant has to relate the
  degrees to the principals still to come: `DegreeOk` says that a type's degree
  is at least the number of its principals whose visit is still to come, which
  holds at the start by `DegreeBoundsParents`, so degree zero means that all were
  popped. `VisitOk`, `QueueOk` and `ResultOk` keep the loop, the queue and the
  result apart.
- `PlainTypesInOrder`: `Spec => []PlainPrincipalsFirst`, for every model, cycles and
  repeated navigations elsewhere included. `PopsInOrder` says nothing of the types
  that `Rest` appends, so it has to be shown that a plain type is popped. `OrderInv`
  adds that the degree of a type without repeated navigations is exactly the
  number of its principals still to come (`ExactDegree`) and that a type of degree
  zero is queued or in the result (`FreeIsQueued`). When the queue is empty, a plain
  type that was not popped would have a principal that was not, and that one
  another: by `EndlessIsCyclic`, which counts the finite set of types, the chain
  has a cycle among the ancestors of a plain type.

`SaveChangesProofs`, for any types, columns, values, calls and bounds:

- `SetsStayMatched`: with one entity type, and calls that do not separate an
  entity from its entry (`SplitCalls`: retain, reject, detach),
  `Spec => []SetsMatchTracker`. `SetInv` adds the shape of entries and entities
  and what the acceptance has done so far. With two types `ZombieEntries` is a
  counterexample; with `SplitCalls` the two differ by definition.

Further down in `SaveChangesProofs`, for any types, columns, values, seed rows, calls, failures
and bounds:

- `ReferencesStay`: `RefSafe => (Spec => []ReferencesHold)`. Nothing in the code
  checks `RefSafe`, and TLC has a counterexample for each part that is dropped. A
  context is cleared after a failed save (`LostLink`) and after a successful one
  (a row that a cascade set to NULL keeps its old key in the tracked entity, which
  `update()` writes again); no other connection writes between the calls (a
  principal is gone when its new dependent is inserted); no dependent has
  dependents of its own (`Apart`: a cascade goes one level down); principals come
  first in `InsertOrder`; and `Restrict` is used only where the database enforces
  it. In the order of `SortIsPermutation` the types are once each; that
  principals come first is `PlainTypesInOrder` of `DependencyGraphProofs` for a
  model without cycles and repeated navigations.
- `FailuresAreCaused`: if also no entity is removed that was never saved
  (`remove_added`) and no deletion is restricted, then
  `Spec => []FailuresHaveACause`: no statement of a save is one that the database
  refuses or that misses its rows (`NothingIsRefused`).

  Both follow from `RefInv`. `ReferencesHold` speaks of the committed rows only, so
  the invariant has to follow the rows of the open transaction (`TablesRefer`) and
  say why each statement leaves them so: what is about to be sent refers to a row
  or is linked to an entity still to be inserted (`EntitiesRefer`, `LinksJoin`);
  a link is set once the turn of its principal is over (`LinksAreSet`), which the
  order of the remaining types brings before the dependent's turn (`InOrder`); no
  row goes before the deletions (`RowsStay`), so a key read when an entity was
  tracked is still there. While principals are deleted the rows need not refer:
  `Loose` allows only what a directive of the same save will remove or has
  already set to NULL, and `DirectivesAreMade` says that each deleted principal
  has its directive. `EntitiesAreStored` (an entity that is not Added has a row)
  and `UpsertsAreKeyed` are for the statements that must reach a row.

`SaveExactProofs`, for any types, columns, values, seed rows, calls, failures and
bounds:

- `CommitStaysExact`: `ExactSafe => (Spec /\ []KeysApart => CommitIsExact)`. TLC has
  a counterexample for each part that is dropped. `ExactSafe` says that the types
  have no navigations (a cascade removes rows that no entry names); that edits are
  made in a context of one type (the second set of a save keeps a stale original,
  and the next update leaves a column out), in which neither `update()` nor
  `detect_changes()` is called (`LostUpdateInBatch`, `LostEditAfterDetect`) and
  nothing is edited after a failed save; and that nothing is removed that a failed
  save had inserted (`StaleKeyDelete`). `KeysApart` says that the key the database
  is about to assign is not the one the caller chose for an upserted entity of the
  same type: the INSERT comes first, so the upsert would replace the row just
  inserted. The code checks neither, and it could not know the key. `SaveTracked`
  and `SaveCallers` meet all of this within their bounds: they upsert a key that is
  stored and one no assignment reaches. Once another connection has written, an
  entity may have no row any more, or a key of it may be another one's, and a part
  of `CommitIsExact` is left: no row but those of pending entities is touched, and
  none is made. Its invariant, `Within`, needs neither the keys nor `KeysApart`; the
  rest is `ExactInv`, which speaks of the states before that write.
- `KeysStayApart`: `KeysApart` always holds where the calls are not both `add` and
  `upsert`.

  `CommitIsExact` compares the rows before and after one commit, so the invariant has
  to say throughout the save what the open transaction holds: `WorkIs` gives the
  rows of each type as the committed ones, with those of the entities whose
  statement was sent (`DoneIds`) and without those deleted (`GoneIds`). For a
  statement to write its own entities and no others, keys must be distinct
  (`KeysDiffer`): of two entities that were given a key, none has the other's, and
  an assigned key is greater than all in the table (`NextKeyIsGreater`). For an
  update to write all that differs, `EntryGood` says what is known of an entry
  between saves (its row is there, its original is the row, its dirty columns are
  those that differ), and `Detected` that no edit is left when the statements
  start. `Turns` says which types each phase has still to visit, and `Calm` what
  only holds as long as no save has failed.
- `SavedIsStored`: `StoredSafe => (Spec /\ []KeysApart => []SavedMeansStored)`.
  `StoredSafe` is `ExactSafe` with edits, in a context whose entries are neither
  rejected nor detached (either leaves an edited entity that no save looks at) and
  without another writer; types have a column besides the key, since a snapshot
  without columns is the model's `NoSnapshot`. `StoredInv` adds that each entity has
  its entry (`Tracked`), that an Unchanged one has an original (`Snapped`) and that
  nothing was edited since detection when the save is accepted (`Unedited`); a save
  with nothing to write, and one that was accepted, then both leave every original
  equal to the row and to the entity. Calls with `edit` among them include those of
  a caller who never edits.

`ModelConfigProofs`, for any types, registrations, requests and calls:

- `CachesStayCurrent`: `Spec => []CachesAreCurrent`. By `BuilderInv` every
  builder is `Good`: what its caches hold is what its registrations and
  configurations would build now, for which the shape of both (`Shaped`) is
  needed.
- `ModelIsBuiltOnce`: `Spec => []BuiltOnce`. `LockInv` says that only the holder
  of the write lock builds, that it found nothing under its key, and that an
  unpoisoned cache has what was built.
- `StatementsStayScoped`: if no configuring call follows the making of a set,
  `Spec => []StatementsAreScoped`, which is about the statements that carry a filter:
  queries, includes, the UPDATE and the DELETE of a save. `ScopeInv` relates each set to the history of
  its request: a set that was taken is a copy of what the builder still says
  (`Copies`), because whatever was asked after it was for a set.
- `ContextsHaveTheirModel`: if `apply_configuration` is called for types that are
  registered and every `has_key` names fields of the type (`KeysAreFields`: a name
  that is no field is dropped by the code), `Spec => []ModelIsDeclared`. `StageInv`
  says for every builder, in the cache or in a request, how many configurations it
  has seen and that it is what those, and then the calls of the request, declare
  (`Declared`). `GreatestNat` gives the last call that sets a value.
- `StatementsFit`: without the seven uses in `FitUses`, each of which violates it
  (section 3), `Spec => []StatementsFitTheTables`. `FitInv` relates what a set copied,
  what a statement read and what `ensure_created` made to the model of the builder
  as long as the guards keep it from changing.

`NavigationsProofs`, for any scenarios (structs, rows, filters, queries, writes of
another connection), bounds and uses:

- `ShapeIsKept`: `Spec => []Shape`, on which the others rest. Besides types, it
  says that every container is a sequence of entities of the related type, that
  what a call has still to do is about objects of one type with that navigation,
  that the counts of a nested include add up to the children it took out
  (`RestoreOk`), and that `load()` and `to_list` never mix in `todo`.
- `MembersStay`: `MetadataAgrees /\ ~EditsEarly => (Spec => []MembersBelong)`.
  `MetadataAgrees` says that the derive macro takes the foreign key, columns and
  row indexes that the fields of the structs declare. Two BelongsTo to one type,
  or a HasOne, do not satisfy it (section 5); the structs of the run do, which
  TLC evaluates as `ConditionsHold`. `EditsEarly` is an edit between the query and
  a `load()`, which then looks for the rows of the old key (section 3). The
  property speaks of what was fetched; `MembersInv` says of every container that
  its items are the caller's own or belong to the values the container was
  filled for (`Owns`), and that one that `load()` may still fill looks for the
  values its owner has now and holds only what the caller added (`Ready`).
  Between the statements of `to_list` it says more (`Plainly`: no container has a
  context, none holds anything of the caller) and follows what the call carries
  from one statement to the next: join rows were read from the table (`JoinsRead`)
  and children taken out for a nested include still belong to the parents they
  return to (`SegmentsBelong`). A lazy many-to-many carries its ids (`IdRead`).
  Other connections may delete or change all of these rows meanwhile: `ever`
  holds every row there has been and only grows (`EverGrows`), so what was true
  when it was read is still a fact about the history.
- `LoadsTakeEffect`: `~BesideInclude => (Spec => []LoadTakesEffect)`. `LoadInv` adds
  that after a `to_list` without includes in a lazy context every container of an
  entity that was read has a context (`HasContexts`); one beside an include has
  none, and `load()` returns Ok without a statement (section 3).
- `AddedStays`: `~AddsEarly => (Spec => []AddedIsKept)`. What `load()` is about to
  fill is empty (`EmptyFor`), also after its first statement; includes come
  before the caller has the entities, so they replace nothing of the caller's.
- `HiddenStays`: `FiltersSee => (Spec => []HiddenStayHidden)`, for structs that read
  the column their filter looks at (others could not tell whether a row was
  hidden). `Seen` excepts only the roots of a query that ignores the filters.

The proofs rest on the assumptions named in the modules (`NamesAssumption`,
`ModeAssumption`, `TypesAssumption`, `ModelsAssumption`, `ShapeAssumption` (one
navigation for each principal and for each dependent, which is what `SaveChanges`
models), `RowsAssumption` (the rows at the start fit their tables and refer to each
other), `CallerAssumption`, `ModelAssumption`, `NothingAssumption`, `NavigationsAssumption`,
`ScenariosAssumption` (rows and queries fit the structs)), which TLC evaluates on
each instance, and on nothing else.

Only model-checked: liveness (fairness and ENABLED are beyond the prover);
everything about `Queries` and `QueryScope`, whose expressions are recursive;
`NothingIsMissing` of `Navigations` (it would need the converse of each step of
`MembersStay`, that every row that belongs was read, and that it was read once) and `AppliedMeansModel`, `RevertedMeansTarget` and
`ScriptsAreAccepted` of `Migrations` (a difference of schemas applied statement by
statement, for every pair of schemas).

## 5. What is not modelled

- Sessions: the cancellation of a savepoint call or of `set_isolation`; what an
  isolation level means, so also the `PRAGMA read_uncommitted` that stays on a
  pooled SQLite connection and the level that a failed `START TRANSACTION`
  leaves behind in MySQL; the shared in-memory SQLite database.
- Saves: in `SaveChanges`, concurrency tokens and query filters (which columns and
  filters the statements of a save have is in `ModelConfig`: an INSERT, the UPDATE
  of a self-reference and the statements of a cascade carry no filter); batches of
  more than 900 parameters, join rows of many-to-many navigations, several
  interceptors and their order, children of children.
- Migrations: a statement that the rows of a table refuse (SET NOT NULL over a
  NULL), the MySQL dialect, `generate_script`, `ensure_deleted`, seed data,
  sequences, changed primary keys.
- Queries: windows, recursive table expressions, right and full joins, `avg`, raw
  SQL, projections to other types, `let` bindings of `linq!`.
- Navigations: errors of the provider in the middle, which return at once, and
  the order in which a database without ORDER BY returns rows.
- Model: `entity_metas_mut`, through which the caller rewrites any metadata; what a
  foreign key refers to after `has_key`; a type without a flagged key, for which a
  self-reference uses the name `id`;
  indexes, precision, seed data; owned types and conversions of the derive macro.
- Dependency injection, value conversion, observability, scaffolding, schema
  creation as text: static or formatting only.

What the models follow although one would not expect it from the documentation:
the foreign key of a HasOne is looked for in the struct that declares the
navigation; two BelongsTo navigations to one type share the first foreign key;
`then` nests one level; `query_ignore_filters` keeps the filters of navigations;
`apply_configuration` alone registers no type; `has_key` leaves the key constants
of the derive macro as they are.

## 6. What is left

1. `TransactionScope`, an abstract specification (a context is in at most one
   transaction; work is durable, gone or pending) implemented by `TxnSession`
   without overlapping calls, and `UnitOfWork` (rows, pending entities, an atomic
   commit) implemented by `SaveChanges`.
2. Proofs that the history of `Migrations` has no id twice, and that a context's
   entries are exact with navigations, up to what cascades remove.
3. Concurrency tokens, join rows and children of children in `SaveChanges`.
4. A proof of `NothingIsMissing`, from the invariants of `NavigationsProofs` and a
   converse of `Owns`: a row that belongs was read.
5. Windows, typed projections and further joins in `QueryBuilder`; widths and
   conversions of integers (`DbValues`).
