# OpenIVM in TLA+

OpenIVM is a DuckDB extension for incremental view maintenance.
`CREATE MATERIALIZED VIEW` compiles a query into a data table
(`openivm_data_<v>`), a delta table (`openivm_delta_<v>`) and metadata rows; an
optimizer rule captures DML on the source tables into delta tables;
`PRAGMA refresh('v')`, or a background daemon, turns pending delta rows into
SQL that brings the data table up to date.

This directory specifies what has to stay true while those parts run beside
each other. It is checked with TLC on small instances, and proved with TLAPS
for every instance where the argument allows it.

Contents: [the system](#1-the-system) - [the modules](#2-the-modules) -
[the model and the code](#3-the-model-and-the-code) - [what is
abstracted](#4-what-is-abstracted-and-assumed) - [runs](#5-runs) -
[properties](#6-properties) - [fairness](#7-fairness) - [proofs](#8-proofs) -
[disagreements with the documentation](#9-where-the-documentation-and-the-code-disagree) -
[what is not modelled](#10-not-modelled).

Paths are relative to `src/src/` unless they begin with `docs/`.

## 1. The system

### State

| state | where | who writes it |
|---|---|---|
| base tables | the user's tables | DML |
| `openivm_delta_<t>`: rows with multiplicity +1/-1 and `openivm_timestamp` | one per source table and per view | the insert rule (base tables); the refresh of `v` (its own delta table); every reader's refresh purges it |
| `openivm_data_<v>` | one per view | refreshes of `v` |
| `openivm_delta_tables (view, table)`: `last_update` (the cursor), `last_refresh_ts`, `last_snapshot_id` | metadata | CREATE, refreshes, DROP, ALTER |
| `openivm_views`: query, type, `refresh_in_progress`, interval, hooks | metadata | CREATE, refreshes, DROP, ALTER |
| view mutexes, delta mutexes | process memory, `core/refresh_locks.cpp` | refreshes, captures, DROP |
| daemon: per-view counters, effective intervals | process memory, `core/refresh_daemon.cpp` | the daemon thread |

### Components, their operations and what makes them correct

| component | operations | correct when |
|---|---|---|
| **Refresh execution** `upsert/refresh.cpp` | refresh one view: view mutex, delta mutexes in sorted order, skip check, compilation, transaction, commit or rollback; cascade upstream and downstream; hooks; cross-catalog (DuckLake) variant, statement by statement | no delta row is lost to a view or applied twice; every refresh returns; a failed refresh leaves nothing behind |
| **Refresh locks** `core/refresh_locks.*` | lock, try-lock, unlock by name | no cycle of waiting; nothing is left locked |
| **Delta capture** `rules/refresh_insert_rule.cpp` | on INSERT/DELETE/UPDATE (and COPY): write delta rows on another connection, under the delta mutex; on DROP/ALTER: adjust metadata | every committed change has its delta rows, and only committed changes do |
| **Refresh metadata** `core/refresh_metadata.cpp` | cursors, cleanup, pending counts, dependency walks, due views | a row is purged only when every reader is past it; dependency order is topological |
| **Delta activity** `upsert/refresh_delta_fast_paths.cpp` | which sources have pending rows; insert-only and skip decisions | a decision taken before the transaction stays right inside it |
| **SQL assembly** `upsert/refresh_sql.cpp`, `refresh_helpers.cpp` | the statements of an incremental batch, or of a full recompute, and their order; recovery of an interrupted refresh | boundaries of scan, cleanup and cursor agree to the microsecond |
| **Refresh compilers** `upsert/refresh_compiler*.cpp`, `refresh_group_measure.cpp`, `refresh_window.cpp` | upserts for grouped and scalar aggregates, MIN/MAX, group recompute, window partitions, auxiliary tables | the upsert equals recomputation |
| **Delta operators** `delta/` | delta rule per operator: scan, projection, filter, union, aggregate, distinct, joins | the delta of a query equals the difference of its results |
| **Join deltas** `delta/operators/join*.cpp` | inclusion-exclusion or telescoping terms, pruning of empty terms and of FK terms | the terms add up to the difference of two joins |
| **DuckLake sources** `delta/operators/ducklake_join.cpp`, parts of `refresh.cpp` | snapshots in place of delta tables | watermarks never pass an unread snapshot; a crash between statements is recovered |
| **Daemon** `core/refresh_daemon.cpp` | wake up, find due views, try-lock, hooks, refresh, back off | a due view is refreshed in the end; hooks run once per refresh |
| **CREATE MATERIALIZED VIEW** `core/parser*.cpp` | a sequence of autocommitted DDL statements, undone by hand on error | all or nothing; no change falls between the initial load and the first cursor |
| **View classification** `core/ivm_view_classifier.cpp`, `ivm_delta_model.cpp`, `incremental_checker.cpp` | which strategy a query gets | never a strategy whose rule is wrong for the query |
| **Plan rewriting**, **index regeneration**, **SQL utilities**, **query rewrite and matching**, **extension entry** | stateless transformations, registration | the stored query, its hidden columns and conditions removed, is the user's (plan rewriting) |
| **Schema evolution** `rules/schema_evolution.cpp` | ALTER TABLE on a source | metadata and delta tables keep matching |
| **Cost model** `upsert/refresh_cost_model.cpp` | recompute or apply deltas (adaptive refresh) | either choice is correct, in any alternation |

### How they interact

```
 session --INSERT--> insert rule --(own connection, delta mutex)--> delta_t1
    |                                                               |  ^
    +---- the statement's own commit, later ----> t1                |  | cleanup:
                                                                    v  | ts < MIN(last_update)
 PRAGMA refresh / daemon --> view mutex --> delta mutexes --> BEGIN; batch; COMMIT
                                                  |                 |
                                      activity, compilation         +--> data_v, delta_v,
                                      (before BEGIN)                     last_update, last_refresh_ts
```

A refresh uses three connections: the caller's, one that compiles, one that
runs the transaction. The mutexes are per process and by name. The refresh of
`v` takes the mutexes of the delta tables it *reads*; it does not take the one
of `openivm_delta_<v>`, which it *writes*. A capture takes the one mutex of
the table it changes.

### What is hard about it

* The **delta row and its change commit separately**: the row first, on a
  connection of the extension, the change later or never.
* **Several views share one delta table**, each with its own cursor; the last
  one past a row purges it.
* **Boundaries**: scan `>=`, cleanup `<`, own-delta filter `>`, cursor
  `MAX + 1 microsecond`, fallback `now()`.
* **Decisions before the transaction** (skip, active sources, insert-only,
  strategy) are used inside it.
* **Chains**: a view's delta table is written by one refresh, purged by that
  refresh and by those of its readers, with timestamps from the start of the
  writer's transaction, under no common mutex.
* **Recompute and incremental** refreshes of one view alternate, with cleanup
  and cursor updates in opposite orders.
* **Failures**: optimistic conflicts, errors in the batch, crashes between the
  autocommitted statements of the cross-catalog path and of CREATE.

`PROJECT.json` lists these hazards one by one, each at its line.

## 2. The modules

Protocols: what happens when parts run beside each other, fail or die.

| module | what it is |
|---|---|
| `ChangeFeed` | the abstract promise to a view: every captured change is delivered once, and a delivery is complete |
| `RefreshProtocol` | capture, mutexes, native refresh of one view after another: the core |
| `DuckLakeRefresh` | refresh of views over DuckLake tables: snapshots for delta tables, statements that commit one by one, failure and recovery |
| `Cascade` | one `PRAGMA refresh` over a graph of views: order, hooks, skipped and failed refreshes |
| `RefreshDaemon` | EXTENDS `Cascade` with the daemon thread, beside users' calls |
| `ViewLifecycle` | CREATE, OR REPLACE, DROP and CASCADE as scripts of separately committed statements, beside writes and refreshes |
| `SchemaEvolution` | ALTER TABLE under materialized views |

Algebra: what the SQL of a refresh computes. Each EXTENDS the one before it.

| module | what it is |
|---|---|
| `ZSets` | rows with signed multiplicities |
| `Queries` | the queries of views, and what DuckDB answers to them: the reference |
| `DeltaRules` | EXTENDS `Queries`: the plan of the change, operator by operator; inclusion-exclusion and telescoping joins with their pruned terms |
| `PlanRewrite` | EXTENDS `Queries`: what CREATE makes of the query it stores |
| `Classifier` | EXTENDS `PlanRewrite`: the refresh type of a view |
| `RefreshCompiler` | EXTENDS `DeltaRules` and `Classifier`: the upsert of every refresh type, the auxiliary tables and the companion rows for readers |
| `Maintenance` | EXTENDS `RefreshCompiler`: a view kept up to date, statement by statement and refresh by refresh |

Instances and proofs.

| module | what it is |
|---|---|
| `MCRefresh` | `RefreshProtocol` for TLC: two topologies, symmetry, and the stuttering step that ends a bounded instance |
| `MCDuckLake`, `MCDaemon`, `MCLifecycle`, `MCSchemaEvolution` | the instances of these modules |
| `MCMaintenance` | the views that TLC maintains |
| `RefreshProofs` | the inductive invariant and the theorems about `RefreshProtocol` |
| `CursorProofs` | EXTENDS `RefreshProofs`: cursors, purges and the views that are recomputed |
| `ChainProofs` | EXTENDS `CursorProofs`: views over views |
| `RefreshRefinement` | the theorem that `RefreshProtocol` implements `ChangeFeed` |
| `DuckLakeProofs` | the statement-by-statement invariant of `DuckLakeRefresh` and its theorems |
| `DaemonProofs` | the theorems about `RefreshDaemon` and the calls of `Cascade` |
| `LifecycleProofs` | the theorems about `ViewLifecycle`, by what its scripts have still to do |
| `SchemaProofs` | the theorems about `SchemaEvolution` |

How they compose: `RefreshProtocol` counts changes and knows nothing of
queries, `Maintenance` knows queries and takes a refresh as one step that no
one disturbs; the first shows that the second's refresh finds each pending row
once, the second that counting changes is what a view's SQL does. `Cascade`
takes a refresh as what `RefreshProtocol` shows it to be: under its mutex, all
pending rows or no effect. `ViewLifecycle` and `SchemaEvolution` say where the
tables and queries that the others start from come from, and that they stay.

## 3. The model and the code

### Variables

| variable | in the code |
|---|---|
| `clock` | the clock behind `now()` |
| `base`, `tx` | committed changes; changes of open transactions that have been captured already |
| `writing`, `stamp` | a capture that holds its delta mutex; the `openivm_timestamp` it writes |
| `delta[n]` | committed rows of `openivm_delta_<n>` |
| `cursor[v][n]`, `refreshed[v]` | `last_update` and `last_refresh_ts` |
| `mv[v][c]` | how often the data table of `v` counts change `c` |
| `viewLock`, `deltaLock` | the two maps of mutexes |
| `pc`, `on`, `full`, `active`, `start`, `eff` | a refresh: its place, its view, the compiled strategy, the sources found active, `now()` of its transaction, the transaction's uncommitted writes |

### Actions

| action | in the code |
|---|---|
| `StartCapture`, `FinishCapture` | the insert rule, `DeltaLockGuard` to the end of its scope; two steps because the INSERT's `now()` is fixed before its rows become visible |
| `CommitDml`, `RollbackDml` | DuckDB, some time after the rule has run |
| `RequestRefresh` | `UpsertDeltaQueriesLocked`; with a hook, `TrySkipEmptyRefresh` comes here, without a mutex |
| `LockView`, `LockDelta` | `ViewLockGuard`; the sorted vector of `DeltaLockGuard`s |
| `SkipRefresh` | nothing pending under the mutexes: return |
| `Compile` | `GenerateRefreshSQL` on its own connection: strategy and active sources |
| `BeginTransaction` | `BeginTransaction`: `now()` is fixed, the snapshot is not |
| `RunBatch` | every statement of the batch, on one snapshot: `IncrementalEffect` or `FullEffect` |
| `CommitRefresh`, `ConflictRefresh`, `FailRefresh` | commit; DuckDB's write-write conflict; any other error. The guards' destructors release every mutex in each case (`Release`) |

`RunBatch` is one step because all its statements read one snapshot and
nothing is visible before the commit. `IncrementalEffect` has the order of the
batch: delta query, upsert, cleanup of the view's own delta table, cleanup of
the sources' delta tables *with the old cursors*, then the cursors, computed
from what the cleanup left. `FullEffect` has the opposite order: data, cursors
to `now()`, cleanup *with the new cursors*.

### DuckLakeRefresh

| variable | in the code |
|---|---|
| `snap`, `at[c]`, `born[t]` | DuckLake: the catalog's current snapshot, the one that committed a change, the one that created a table (its `table_id`) |
| `mark[v][t]`, `known[v][t]` | `last_snapshot_id`, `source_table_id` in `openivm_delta_tables` |
| `flag[v]` | `refresh_in_progress` |
| `mv[v]`, `staged[v]` | the data table; the rows of the view's own delta table that the upsert would read |
| `pc[v]`, `kind[v]`, `read[v]`, `todo[v]`, `newMark[v]` | a refresh: its place, apply / recover / rebuild, the snapshot its plan was bound to, the metadata updates left, the watermark |

| action | in the code |
|---|---|
| `Commit`, `Recreate` | another connection writes a table, or drops and creates it |
| `SkipRefresh`, `BeginRefresh` | under the mutexes: `TrySkipEmptyRefresh`; nothing to read moves the watermarks, a new table id asks for a recompute and is remembered |
| `Compile` | `GenerateRefreshSQL`: the recovery check, then the choice of strategy, then the plan bound to the current snapshot |
| `RaiseFlag` | `meta_pre_sql` |
| `WriteDelta`, `Upsert`, `PurgeDelta` | the three parts of an incremental batch, each committed by itself |
| `Empty`, `Refill` | the two statements of a recompute |
| `ReadWatermark`, `MoveMark`, `EndRefresh` | `meta_post_sql`: the placeholder is replaced by the snapshot a fresh connection sees, one UPDATE per source, the flag is cleared (not after a recompute, which never raised it) |
| `Fail` | an error or the end of the process: the mutexes go, what was committed stays |

The mutexes of a view's sources serialise refreshes of views that share a
source, so `pc` belongs to a view and no worker is needed. A projection's
upsert is itself more than one statement; it is one step here. `Quiet` are
changes that commit while no refresh of their table runs (for the others see
section 9), `FailKinds` the
kinds of refresh that may fail, `Recreatable` the tables that may be replaced,
once, while no refresh of their readers runs.

### Cascade and RefreshDaemon

| variable | in the code |
|---|---|
| `ver[n]`, `seen[v][n]` | how much has been written to the delta table of `n`, how much of it `v` has read |
| `mutex[v]` | the view's mutex |
| `stage[w]`, `root[w]`, `todo[w]` | a call of `UpsertDeltaQueriesLocked`: its place, the view it names, the rest of the walk |
| `made`, `handled` | history: what the call must deliver, and which views it has visited |
| `phase`, `agenda`, `done`, `eff`, `shutdown` | the thread: its place, the views left in this cycle, `refreshed_this_cycle`, `effective_intervals_`, `shutdown_` |
| `age[v]`, `stale[v]` | `now() - MIN(last_update)` in sleeps of the daemon, and what the cycle has read of it |

`UpstreamOrder` and `DownstreamOrder` are the two recursive walks of
`refresh_metadata.cpp` with their shared visited set. `RunHook` runs outside
any mutex; `Proceed` ends a call whose named view was skipped, as the code
does before it comes to the descendants. `StartCall` re-takes the mutex that
`PassOver` only tried. `EndCall` marks everything the call could have covered.

### ViewLifecycle

| variable | in the code |
|---|---|
| `base`, `delta`, `data`, `deltaOf`, `shown` | the tables of the catalog: the sources, `openivm_delta_<t>`, `openivm_data_<v>`, `openivm_delta_<v>`, the user-facing VIEW; `Absent` where there is none |
| `published`, `cursor` | the rows of `openivm_views` and of `openivm_delta_tables` |
| `session[s]` | the statements a session has still to execute, and whether they undo |
| `write`, `refresh`, `lock` | captured statements that have not committed; refreshes at work; view mutexes |
| `missed`, `broken`, `disputed` | history: rows written while the view was created; views that a crash or a failed undo left half made; views that two sessions were once at work on together |

A script is a sequence of statements; each takes one step, since the DDL
executor autocommits them. `CreateScript` has the order of `core/parser.cpp`
(load, VIEW, source deltas, own delta, cursors, then the row of `openivm_views`
and, as one step `Annotate`, the UPDATEs and edges that follow it),
`CleanupScript` the order of the undo. A CREATE may fail after it has published
its view too: the undo then drops its own. `Intercept` is the optimizer rule, which
runs for every DROP VIEW of a registered view, be it the user's, the first
statement of OR REPLACE or of an undo: it puts its own script, under the
view's mutex, before the statement. `FailCreate` is a statement of CREATE that
fails, because what it creates is there or what it reads is gone (`Refused`),
or for any other reason. `PassOver` is a statement of the rule or of the undo
that fails: the code does not look. `RelationExists` is what CREATE looks for
before its script is made; what comes into being after that, the script finds
only as a statement that is refused.

### SchemaEvolution

| variable | in the code |
|---|---|
| `columns[t]`, `delta[t]` | the columns of a table and of its delta table: their names by identity |
| `stored[v]` | `openivm_views.sql_string`, parsed |
| `aux[v]` | the column names in `*_aux_meta_json`, `lineage_json` and `group_columns` |
| `alter`, `torn[t]` | the statement at work, the views it has still to rewrite and whether its ALTER of the delta table failed; one that failed half way |
| `strayed` | history: tables that were altered although their delta table's ALTER had failed |

A query is a function from the places of its blocks (the outermost at `<<>>`,
those inside the block at `p` at `p \o <<n>>`) to the blocks: what a function
that walks the tree carries down from block to block is here said of the blocks
around a place (`Around`). `RewriteQueryNodeScoped` is the function of that
name: aliases are inherited by subqueries, hidden by relations of the same name
(`ApplyLocalAliases`), and unqualified names follow the block's own FROM
(`ColumnRefTargetsTable`). `RewriteView` is one transaction; the delta table and
`AlterTable` come after the last of them. The rule does not look at the result
of the delta table's ALTER (`rules/refresh_insert_rule.cpp:297`, 315, 329): it
is made (`SyncDeltaTable`) or it fails unnoticed (`MissDeltaTable`), and DuckDB
alters the table in either case. `Fail` is the failure of DuckDB's own ALTER, or
the end of the process, at any point; the statement issued again starts over
(`Afresh`). What a query reads is computed by
`Bound`, DuckDB's binder: each reference `Resolve`s to the identity of a
column, or to a column of a derived table, in the innermost `Visible` block that
has one of that name. The properties compare these, and do not depend on how
the rewriting works. `Words` are the identifiers of queries and statements,
`Known` bounds the identities of the first columns; those of added columns
follow.

### The algebra

`Maintenance` has the user's actions (`Insert`, `Delete`, `Update`: a change and
its delta rows) and `Refresh`: `Delta` of the stored plan, `Upsert` by refresh
type, `Companion` rows for the readers, compacted, and the reader's own
refresh. `Described` is CREATE: `Rewrite`, `SplitHaving`, `SelectRefreshType`,
`GroupColumns`, `BuildAuxState`. A query is a tree of records, a table a
function from rows to multiplicities, an upsert the relation it leaves.

## 4. What is abstracted, and assumed

* **One change is one delta row**, and a view counts changes. That is what a
  linear view (projection, filter, UNION ALL, SUM, COUNT) holds, up to
  grouping. It decides every question about lost and repeated rows; it says
  nothing about whether the SQL of an aggregate or join is right. A change
  reaches a view along one path (`OriginAssumption`: a view's origin is what
  its sources' origins make up, and no two of them overlap). The algebra
  modules say whether the SQL is right, and have self joins. No view reads
  itself, through whatever other views (`CreationAssumption`): CREATE binds its
  query to tables and views that exist.
* **Instants are distinct and increase.** `now()` has microseconds and is
  shared by all connections of the process, but it is the session's local
  time (`now()::timestamp`): the protocol relies on a clock that is never set
  back and on sessions in one time zone. This is an assumption about the
  environment and not something the code ensures.
* **Conflicts** are modelled where two transactions delete the same delta row.
  Two refreshes never update the same metadata row (view mutex).
* `refresh_in_progress` is set and cleared inside the native transaction, so no
  other transaction sees it and `RefreshProtocol` has no variable for it. The
  DuckLake path autocommits it: there it is `flag`.
* `Incremental` stands for views whose refresh applies deltas. Strategies that
  replace groups or partitions (group recompute, window partitions, distinct,
  semi/anti auxiliary tables, current-diff) and companion rows are in
  `RefreshCompiler`, without interleavings.
* In `RefreshProtocol` a cascade is any order of refreshes by one worker;
  `Cascade` has the order of the code.
* **Values are small integers and NULL**, keys and measures alike; types,
  casts, collations and floating point are not modelled. AVG is the whole
  quotient, computed the same way by the query and by the view. `TinyRows`
  stands for the 8 rows (or 5 %) below which keys are probed.
* In `ViewLifecycle` a view's content is the set of rows it has read, a refresh
  two steps, and the runs have one session that issues statements (section 9
  for two; the theorem about failing CREATEs has any number). In `SchemaEvolution` one session alters, a statement
  that failed half way is issued again before any other on that table, and
  only statements that can succeed are issued.

## 5. Runs

`MCRefresh` defines two topologies. *Shared*: views A and B both read t1 and
t2. *Chained*: A reads t1; B reads A and t2. B is compiled from the sources
found active (as a join is). c1 and c3 change t1, c2 changes t2.

| run | instance | shows |
|---|---|---|
| `RefreshShared` | shared; 2 workers, 2 sessions, 3 changes | `TypeOK`, `BaseFlow`, `CursorsAdvance`, `FeedSpec` |
| `RefreshRecompute` | shared; A always recomputed, B sometimes, and hooked; rollbacks; one failing refresh | `NeverTwice`, `UnreadIsKept` |
| `RefreshPipeline` | chained; one worker, 2 sessions, 3 changes, one failing refresh | `ChainFlow`, `CaughtUpIsExact` |
| `RefreshChainRace` | chained; 2 workers, 3 changes, one failing refresh | `ChainNeverTwice` |
| `RefreshLive` | shared; 2 workers, 2 changes, one failing refresh; fairness | `RefreshReturns`, `CapturedReachesViews` |
| `ChainLoss` | chained; the smallest instance with the case | a counterexample, section 9 |
| `DuckLake` | A reads t1 and t2, B reads t1; 2 changes, 2 failing refreshes, t1 replaced once; fairness | `TypeOK`, `NeverDoubled`, `CountedIsBehind`, `ExactAtMarks`, `QuietChangesArrive` |
| `Daemon` | P reads t1, Q reads P and t1, S reads Q and P; Q and S scheduled; a user refreshes P with both cascades; P has a hook; one write, one failing refresh; fairness | `TypeOK`, `CallDelivers`, `BackoffInBounds`, `ScheduledCatchUp`, `StopReturns` |
| `Maintenance` | 50 views, 3 initial databases each, 3 statements (section 9 for shapes left out) | `TypeOK`, `Exact`, `RewriteKeepsQuery`, `DeltaIsChange`, `AuxIsOfCursor`, `OneRowPerGroup`, `CopyFollows` |
| `HavingAvg` | one view of `MCMaintenance` | a counterexample, section 9 |
| `Lifecycle` | two views over one table; 1 session, 3 statements, 2 rows, one failing statement, one crash | `TypeOK`, `AllOrNothing`, `OnlyWindowIsMissed`, `PendingIsNew`, `FailedCreateSparesViews` |
| `SchemaEvolution` | two tables, five views, four names; 3 ALTERs, any number of failures | `TypeOK`, `MeaningKept`, `NeverAnotherColumn`, `DeltaMirrors`, `RefusalIsFounded` |

**Bounds.** Two views are enough for one to purge, or move past, what the
other still needs; two tables for lock order and for one active and one idle
source; two workers for every pairwise race of refreshes; three changes for
one behind, one at and one past a cursor on one table. `MaxClock` bounds the
instants. Where refreshes are skipped when nothing is pending (`SkipEmpty`),
every refresh that runs moves a cursor past a row, so the number of instants
is bounded by the changes and `MaxClock` is never reached: those runs are
exhaustive for their changes. A recompute (FULL_REFRESH is never skipped) can
go on for ever, so in `RefreshRecompute` the bound of 8 does end the instance,
after two captures and up to five refreshes; `OutOfTime` marks the end so that
deadlock can stay checked. `Spare` keeps instants for refreshes under way so
that the bound never blocks one in the middle. `MaxAborts` bounds failures of
refreshes for reasons outside the model; conflicts are not bounded.

In `DuckLake` one quiet change of t1 (read by both views) and one that may
commit at any point of a refresh of A give every order of a change, a batch's
statements and a watermark; two failures let each view fail, or one fail,
recover and fail again. Snapshots are not bounded by a constant: a refresh
begins only when there is something to read, so there are finitely many.

In `Daemon` three views are the smallest fan-in, and the names are such that an
alphabetical order of refreshes would be wrong; time is counted in sleeps up to
`Cap`, beyond every interval, so that a backoff can double, be capped and be
erased.

In `Maintenance` three statements are the least that can insert, update and
delete in one batch, or change what an earlier refresh has read; the rows are
chosen per view so that statements meet each other's groups, keys and NULLs
(`Few`, `Nullable`). A refresh may come after any of them, so a second batch
meets what the first left behind.

In `Lifecycle` two views on one table share its delta table, and three
statements let one be created, replaced or dropped and created again around the
other; two rows let one be read and one pending. In `SchemaEvolution` three
statements let a column be renamed away and back, or its name be given to
another column; the fourth name is free.

**Deadlock** is checked in every run but `Lifecycle` and `SchemaEvolution`,
whose sessions have a bounded number of statements and then nothing more to
do.

**Symmetry** (workers, sessions) is used in safety runs only.

## 6. Properties

| property | what it says, and what would break it |
|---|---|
| `BaseFlow` | for an incremental view and a captured change of its own tables: counted once and behind the cursor, or not counted and still to be scanned. Breaks with a cursor past a row that was not scanned, a purge of a row another view needs, a missing delta mutex, `>` for `>=` |
| `ChainFlow` | the same between a view and its reader, refreshed by one connection |
| `ChainNeverTwice` | with overlapping refreshes along a chain, nothing reaches the reader twice |
| `NeverTwice` | no change is counted twice however recomputes and incremental refreshes alternate and whenever the change commits |
| `UnreadIsKept` | a row leaves a base table's delta table only behind every reader's cursor |
| `CaughtUpIsExact` | with no open transaction and nothing pending along the chain, a view is what its query returns |
| `CursorsAdvance` | an incremental view's cursor on a base table never moves back, though it is computed from whatever rows are left |
| `FeedSpec` | implementation of `ChangeFeed` |
| `RefreshReturns` | every refresh that is asked for returns: no deadlock among mutexes, no refresh stuck |
| `CapturedReachesViews` | every captured change gets to every view over its table, though refreshes are skipped, overtaken, or fail |
| `NeverDoubled` | a DuckLake refresh that fails between any two statements while applying deltas is never applied twice: the flag turns the next one into a recompute |
| `CountedIsBehind` | between refreshes nothing that is counted is ahead of a watermark, where it would be read again: also after a recompute that read later than it was compiled, and after the batch's own snapshots |
| `ExactAtMarks` | between refreshes an unflagged view is its query at its watermarks, through skips, failures, recomputes and table replacement |
| `QuietChangesArrive` | a committed change gets to every view over its table, or is gone with its table |
| `CallDelivers` | every view a call has handled shows what the base tables held when it began, and what the call itself produced upstream. Breaks when a fan-in child comes before a parent |
| `BackoffInBounds` | an interval backed off to is never beyond the cap, nor shorter than the configured one (for configured intervals up to the cap) |
| `ScheduledCatchUp` | a scheduled view that is behind, and that no other scheduled view's call takes the turn of, is brought up to date, though calls fail or find mutexes taken |
| `StopReturns` | once asked to, the thread ends |
| `Exact` | a view with nothing pending shows what its query answers, whatever the statements were and however they were batched |
| `RewriteKeepsQuery` | the stored query without hidden columns and with HAVING's condition is the user's query, over every database that is reached |
| `DeltaIsChange` | for plans without aggregates and outer joins the computed delta is the difference of the results, pruned terms and all |
| `AuxIsOfCursor` | the auxiliary tables of DISTINCT, semi/anti joins and filtered counts describe the sources as the view last read them |
| `OneRowPerGroup` | a view that ends in an aggregate stores no group twice, and none emptied |
| `CopyFollows` | what a refresh writes for readers is the difference it made: a view that selects everything from another is its copy |
| `AllOrNothing` | between scripts a view has all of its tables and rows of metadata, or none; but for views that a crash, or an undo that failed too, has left half made |
| `OnlyWindowIsMissed` | a row of a source that a view does not show is pending for it, unless it was written between the view's load and the registration of its cursor. Breaks when a cleanup forgets a reader, or a delta table is dropped under one |
| `PendingIsNew` | no pending row is in the view already |
| `FailedCreateSparesViews` | a CREATE that fails before it has published its view, and is undone by dropping what has that name, finds no other view of that name published with its data: not one that was there when it was issued, nor one that has come since, but for views that two sessions were at work on together. Breaks when CREATE does not look before it begins |
| `MeaningKept` | when no ALTER is half done, stored queries read the columns they were created over, and output and metadata keep their names, after any sequence of renames and failures |
| `NeverAnotherColumn` | in the middle of an ALTER a stored query may fail to bind, and does not read another column (unless the new name exists in another table or names a column of a derived table) |
| `DeltaMirrors` | when no ALTER is half done a delta table has the columns of its table under the same names, through statements that fail before or after it and are issued again; but for a table that was altered although its delta table's own ALTER had failed |
| `RefusalIsFounded` | DROP COLUMN is refused only for a column that a view reads, or that is called as one its auxiliary state was built on |

Each has a mutant: a one-line change of a modelled definition, of the kind a
bug would make (see the definitions marked *Wrong variant*), under which TLC
finds the property violated.

## 7. Fairness

`FairSpec` assumes what DuckDB and the operating system provide, and that
someone keeps refreshing:

* weak fairness of `FinishCapture` and of each worker's next step once it has
  its mutexes (`Advance`): a running thread runs;
* strong fairness of `LockView \/ LockDelta` per worker: a `std::mutex` that is
  released again and again is obtained in the end. `std::mutex` does not
  promise first-come-first-served; that no thread starves for ever is what the
  operating system's scheduler gives in practice;
* strong fairness of requests per view: every view keeps being refreshed, by
  the daemon (`REFRESH EVERY`) or by its users.

`DuckLakeRefresh` assumes weak fairness of a batch's next statement and strong
fairness of `BeginRefresh` per view (it is disabled while a view with a common
source is refreshed).

`RefreshDaemon` assumes weak fairness of the daemon's and of each call's next
step, and strong fairness of obtaining a view's mutex; a user makes as many
calls as they like, or none. `StopReturns` needs no more than that: a call that
waits for a mutex gets it.

Nothing is assumed about commits of user transactions, failures, or DML:
`CapturedReachesViews` speaks of captured changes, whether or not their
transaction ever commits.

## 8. Proofs

| theorem | module | says | if |
|---|---|---|---|
| `TypeCorrect` | `RefreshProofs` | `Spec => []TypeOK` | |
| `BaseFlowHolds` | `RefreshProofs` | `Spec => []BaseFlow` | |
| `ImplementsFeed` | `RefreshRefinement` | `Spec => FeedSpec` | |
| `UnreadIsKeptHolds` | `CursorProofs` | `Spec => []UnreadIsKept` | |
| `NeverTwiceHolds` | `CursorProofs` | `Spec => []NeverTwice` | |
| `CursorsAdvanceHolds` | `CursorProofs` | `Spec => CursorsAdvance` | |
| `ChainNeverTwiceHolds` | `ChainProofs` | `Spec => []ChainNeverTwice` | |
| `ChainFlowHolds` | `ChainProofs` | `Spec => []ChainFlow` | `InCascade` |
| `CaughtUpIsExactHolds` | `ChainProofs` | `Spec => []CaughtUpIsExact` | `InCascade`, no rollbacks |
| `LakeTypesHold` | `DuckLakeProofs` | `Spec => []TypeOK` | |
| `NeverDoubledHolds` | `DuckLakeProofs` | `Spec => []NeverDoubled` | `OnlyAppliesFail` |
| `CountedIsBehindHolds` | `DuckLakeProofs` | `Spec => []CountedIsBehind` | `OnlyAppliesFail` |
| `ExactAtMarksHolds` | `DuckLakeProofs` | `Spec => []ExactAtMarks` | `OnlyAppliesFail` |
| `BackoffInBoundsHolds` | `DaemonProofs` | `Spec => []BackoffInBounds` | |
| `CallDeliversHolds` | `DaemonProofs` | `Spec => []CallDelivers` | `WalksInOrder` |
| `DaemonTypesHold` | `DaemonProofs` | `Spec => []TypeOK` | `WalksInOrder` |
| `LifecycleTypesHold` | `LifecycleProofs` | `Spec => [](TInv /\ TypeOK)` | |
| `WholeOrGone` | `LifecycleProofs` | `Spec => []AllOrNothing` | `OneSession` |
| `CreateSparesViews` | `LifecycleProofs` | `Spec => FailedCreateSparesViews` | |
| `PendingNeverShown` | `LifecycleProofs` | `Spec => []PendingIsNew` | `OneSession` |
| `WindowIsAllThatIsMissed` | `LifecycleProofs` | `Spec => []OnlyWindowIsMissed` | `OneSession` |
| `SchemaTypesHold` | `SchemaProofs` | `Spec => []TypeOK` | |
| `DeltaFollowsTable` | `SchemaProofs` | `Spec => []DeltaMirrors` | |
| `QueriesKeepMeaning` | `SchemaProofs` | `Spec => []MeaningKept` | `PlainQueries` |
| `NothingElseIsRead` | `SchemaProofs` | `Spec => []NeverAnotherColumn` | `PlainQueries` |
| `DropsRefusedWithReason` | `SchemaProofs` | `Spec => RefusalIsFounded` | `PlainQueries` |

For any tables and views, any sessions, workers, callers and changes, any
recomputed, pruned and hooked views, with or without rollbacks, skipping and
failures, but for what the last column says. The assumptions are the named
`ASSUME`s of the modules (`NodesAssumption`, `OriginAssumption`,
`CreationAssumption` and `BoundsAssumption` of `RefreshProtocol`; those of
`DuckLakeRefresh`, `Cascade`, `RefreshDaemon`, `ViewLifecycle` and
`SchemaEvolution`), which TLC evaluates in every run of them.

### The hypotheses

* **`InCascade`**: one worker, and no view of the instance is recomputed. Both
  are needed: with two workers a reader loses rows of the view that it reads
  (`ChainLoss` is the run that shows it), and a recompute writes no rows for
  its readers. It is what one `PRAGMA refresh` of a chain does, beside any
  writers. `ChainNeverTwice` needs neither.
* **No rollbacks** (`AllowRollback = FALSE`): a capture is committed before the
  statement it belongs to, so a view counts the rows of one that is rolled back.
* **`OnlyAppliesFail`**: the flag that makes a failed refresh recover is raised
  by refreshes that apply deltas. A recovery or a recompute that fails between
  emptying the data table and filling it is not flagged.
* **`WalksInOrder`**: the two walks over the graph of views list every view
  after its sources. They are recursive (depth-first, with a set of visited
  views), so that what they return for every graph is an induction over data,
  which the prover cannot do; it is said of their results, as a hypothesis on
  the graph. The graph of `Daemon`, with a view that two parents share, fulfils
  it, and does not when a walk is made in the other order (the mutant of
  `CallDelivers`).
* **`OneSession`**: at most one session issues CREATE, OR REPLACE, DROP and
  CASCADE at a time, beside any number of writers and of refreshes, with any
  failures and crashes. The code does not serialise sessions, and each of the
  three properties is false with two (TLC finds it in `Lifecycle.cfg` with
  `Sessions = {s1, s2}`). The types, that every mutex a session holds will be
  released by what is left of its script, and what a failing CREATE may find
  need no such hypothesis.
* **`PlainQueries`**: the queries that views are created with are such that
  names tell relations apart. Each reference is to a relation that it can see,
  by a name that nothing else beside that relation has and no block in between
  takes; without a qualifier, to the only relation of its own block; and to a
  column that is there. A set operation names its output. Metadata name columns
  that the query reads, and group columns are those of a view over one table.
  The rewriting looks at names and does not bind: for other queries it renames
  what it should not, or leaves what it should rename (section 9 lists the
  shapes). The model admits them; the hypothesis is of the theorems only. It is
  a condition on the queries when they are created, and that renames and
  failures in any order never leave it is part of what is proved. The five
  queries of the instance, with a correlated subquery, a derived table, a hidden
  alias and a set operation, fulfil it: TLC evaluates it
  (`PlainQueriesHere`). Types and delta tables need no such hypothesis.

### Base tables: `RefreshProofs`

`BaseFlow` is not inductive: whether the commit of a batch keeps it depends on
what the batch computed when it ran. `IInv` adds

* `Locking`: a worker past `locking` holds its view's mutex and all the delta
  mutexes of its sources; a capture holds its table's;
* `Timing`: every stamp, row, cursor and start is within the clock; a
  transaction begins after every capture of its sources, and after the last
  refresh of its view; a capture under way is not behind any reader's cursor;
* `Rows`: a row in a base table's delta table is the one row of its captured
  change and bears that change's stamp;
* `Scanning`: what was found active at compilation is still what has pending
  rows (the delta mutexes are held), so that a pruned join leaves nothing out;
* `Batch`: an uncommitted batch stays within the clock (`WithinClock`), purges
  nothing that another view has still to scan (`SparesOthers`), and, for the
  view it refreshes, counts exactly the rows its new cursor passes
  (`CountsAll`). This is the heart: it is established by `RunBatch` from the
  old cursors, and kept by every other action because of `Locking`;
* `Accounting`: `BaseFlow`, said of single rows instead of cardinalities.

`NextCursorBounds` is the boundary lemma: the new cursor is above every row
left in the table and not above the clock. It needs the existence of a maximum
of a finite set of numbers (`MaxExists`). There is one lemma per action, joined
in `NextOK`; `RefreshRefinement` maps `FinishCapture` to `Capture`,
`CommitRefresh` to `Deliver` (or a stutter), and everything else to a stutter.

### Cursors and recomputes: `CursorProofs`

A cursor is computed from whatever rows happen to be left in a delta table: one
microsecond past the newest, or `now()` if there are none. A recompute sets it
to `now()`, so that the incremental refresh after it moves it *back* to a row
that is still there. Why does nothing purged come back, and nothing counted get
counted again? The invariant `CInv` answers with

* `Past`: a captured change whose row is gone is behind every reader's cursor
  and older than every row that is left. The second half is what makes the
  first one inductive: purges take the oldest rows of a table (`PurgesOldest`),
  so a cursor that is moved back to a row that is left is still past all that
  are gone;
* `Reached`: the cursor of an incremental view is at most one microsecond past
  the newest row; hence it cannot move back (`CursorsAdvance`), while that of a
  view that alternates can;
* `Once`: what a view over base tables has counted, it has counted once, and
  it is captured, of one of its tables, and behind its cursor;
* `Capturing` and `Begun`: what is committed has been captured, a capture under
  way bears its table's newest stamp, a refresh's `now()` is not before the
  cursors it moves;
* `Computed`: the same of what a batch has computed and not committed.

### Chains: `ChainProofs`

`ChainNeverTwice` holds with any number of workers. `Chained` says of every
batch that has run: what it adds to its view's delta table it also counts
(`Adds`), and what it counts together with what it leaves to be scanned is not
more than its source has counted (`Takes`): a batch that ran over an older
state of its source is an under-estimate, which is why a race along a chain
loses rows and never repeats them.

That nothing is lost, in a cascade, is `Cascading`: the readers of a view are
not ahead of the transaction that refreshes it (`InStep`), a source that was
found inactive has nothing to scan (`Found`), and a batch counts what its
sources gave and adds for its readers what it counts, dated where they will
find it, and purges nothing that they need (`Delivers`). `CaughtUpIsExact`
follows along a chain of any length: the first view, in the order of creation,
that is not exact reads only tables and views that are (`MinExists`); what is
captured is committed or in an open transaction (`Recorded`).

### DuckLake: `DuckLakeProofs`

Each statement of a batch commits by itself, so the invariant says for every
point of a batch what a crash there would leave. `LInv` is `TypeOK`, that no
snapshot is from the future (`Snapshots`), that refreshes under way share no
table (`Exclusive`), and of each view that

* it is flagged from before the first write of an apply to its end
  (`Flagging`), and its watermarks and the snapshots read are in order
  (`Knowing`, `Marking`);
* what is staged is what lies between the watermarks and the snapshot that is
  read (`Staging`), what is counted lies behind whichever of the two the
  statement reached says (`Counts`, `QuietCounts`).

### Daemon and calls: `DaemonProofs`

`BackoffInv` is `BackoffInBounds` with the types of the agenda. For
`CallDelivers` the invariant says that a call visits what is left of its list
in order (`Visiting`), that nobody has seen or promised what is not written
(`Written`), and that a view not yet visited is not read by one that has been:
so what a call promises of a view is not changed by what it makes afterwards.

### The life of views: `LifecycleProofs`

A script is data: a sequence of statements, computed once from the catalog as
it was then, and executed while writers, refreshes, failures and the process's
death change the catalog under it. The invariant therefore says of what a
script has *still to do* (`ToDo`) what has to be there or gone now for its end
to be right.

* `TInv`, for any sessions: `Storing` (rows and cursors are of the past, the
  table of a captured row is not dropped under it) and `Holding` (a mutex is
  held by exactly the refresh or the session that will release it, once).
* `Shaped`: what is left of a script creates after it drops, registers cursors
  and publishes at its very end, and waits for a mutex only at its head. The
  rule's script, put before what is left, keeps that (`ShapedConcat`).
* `OfOneView`: what CREATE has still to do is about its own view.
* `Tidy`, of every view that is not broken: it will be published (`Coming`), or
  the rule that drops it is still ahead (`Ahead`), or all there is of it will
  be dropped (`Dismantling`), or it is whole and no script names it.
  `AllOrNothing` is what is left of this when no script names the view.
* `Completes`: a view that will be published has, or will be given, every table
  and every cursor; and while anything is still to be dropped, all of them are
  still to be created, so that a drop of a delta table that nobody is
  registered for (`DropSourceDelta`) is never the last word on it.
* `Clear`: cursors are not registered over old ones. Without it, a `Load` under
  old cursors would break the accounts below.
* `RowInv`, on top: no row of a refresh's tables is captured while it runs, so
  that its next cursor is past all of them (`Reading`); and of every view that
  is not broken, or that has nothing but its publication to wait for
  (`Settled`), each row of a source, and each row captured and not committed,
  is in the view, pending, or missed in the window (`Accounts`). Uncommitted
  rows are the part that the properties do not show: a row is captured before
  its statement commits, and what is read of it in between must count.

There is a lemma for every action; steps of scripts share `LifeAdvance` and
`RowsAdvance`, views that a step does not name share `Elsewhere` and `Apart`.

`CreateSparesViews` is about any number of sessions and has an invariant of its
own, `SpareInv`. What a session's script is about, another's is not, but for
`disputed` views (`Contested`), so that a step of one session does nothing to
the view that another creates (`Spared`). A CREATE that has not failed drops
nothing and is about one view to its end (`Direct`, `Steady`). Until it has
published that view, no view of the name is published with its stored table:
there was no stored table when it was issued, and from its duplicate check on
there is no row of `openivm_views` either (`Clean`), so that its own `Load` does
not make one of a stale row.

### ALTER TABLE: `SchemaProofs`

A view's query is rewritten before the table is altered, view by view, and a
statement that fails half way is issued again, over queries of which some are
rewritten and some are not. `MeaningKept` speaks of tables on which nothing is
unfinished; the invariant says what holds in between.

* `ShapeKept` (with `TypeOK`: `TypesInv`): rewriting changes names of
  references and of the output, and nothing else of a query or of metadata.
* `StatementInv`: the guards under which a statement was issued hold until it
  is done (`Fits`), through failures and statements on other tables; the column
  that it adds is none that the table has (`IsNew`); the views it has still to
  rewrite are done before the delta table is altered.
* `DeltaInv`: while a statement is unfinished the delta table is as the table,
  or as the statement will leave it (`AfterIt`); of a table that has not strayed,
  and by the latter once the delta table's ALTER has been made. Altering it a second time
  changes nothing (`AlteredTwice`): this is what IF NOT EXISTS, IF EXISTS and
  the unlooked-at error of a second RENAME are for.
* `QueryInv`: a reference to a column of a table has the column's name, or the
  one that an unfinished rename gives it; in the views that the statement at
  work has passed, the latter; and no view uses a column that is being dropped
  (`Follows`). The same of metadata (`EntryFollows`). References to columns of
  derived tables, and the output, are called as they were.

From names to columns: `BoundToTable`, `BoundToDerived` and `BoundToNothing` say
what the binder finds for a reference that follows its column, and `TargetsOK`
that `ColumnRefTargetsTable` answers yes for exactly the references to the
altered table. `MeaningKept` needs the first two, `NeverAnotherColumn` the third
as well (a reference that has the new name before its column does finds nothing).
`TargetsOK` carries `QueryInv` over `RewriteView`, and shows in `RefusalIsFounded`
that what the rewriting would rename is what the query reads.

### Only model-checked

* **Liveness** (`CapturedReachesViews`, `RefreshReturns`, `QuietChangesArrive`,
  `ScheduledCatchUp`, `StopReturns`): fairness and ENABLED are beyond the
  prover's reach.
* **The algebra** (`Maintenance`): queries are trees, and the operators on them
  RECURSIVE, which the prover does not take; what they compute for every query
  is an induction over data besides.
* **`ViewLifecycle` with two sessions**: only `TypeOK` and
  `FailedCreateSparesViews` hold, and both are proved.
* That the walks of a call are in order on every graph (`WalksInOrder`).

## 9. Where the documentation and the code disagree

Two runs end in a counterexample, each to a sentence of the repository.

* `ChainLoss` - `docs/internals/concurrency.md:48`, "the next refresh's filter
  excludes everything we've seen and includes everything we haven't". The
  upstream refresh of a chain writes rows stamped with *its* `now()` into a
  table whose mutex it does not hold. If it commits after the reader's
  snapshot, and the reader found the table empty, the reader's cursor becomes
  the reader's own, later `now()`: the rows are behind it and are never
  scanned. One connection that refreshes a chain in sequence does not meet
  this (`RefreshPipeline`); the daemon beside a user does.
* `HavingAvg` - `test/sql/aggregate.test:2373`, "HAVING AVG(x) > k decomposes
  AVG". AVG becomes SUM and COUNT, and the HAVING filter goes on naming the
  first aggregate's column: the view tests `SUM(v) > k`. The test's constant is
  0, for which both agree.

The models show more of these than there are runs. Each can be seen by putting
the named definition into the cfg of a run:

| definition | in | what it shows |
|---|---|---|
| `RecomputeSeesItsDeltas` | `RefreshRecompute.cfg` | `docs/internals/concurrency.md:24`: a recompute does not include a change whose statement has not committed, and moves its cursor past the change's row |
| `DeltaRecordsChanges` | `RefreshRecompute.cfg` | `docs/internals/delta-tables.md:3`: the delta row of a statement that is rolled back after its capture stays |
| `OrderedRefreshCatchesUp` | `RefreshPipeline.cfg` with `FullMode = {A}` | `docs/refresh/pipelines.md:92`: a recompute of an upstream view writes nothing into its delta table, and the reader finds nothing to do |
| `MarkIsRead` | `DuckLake.cfg` with `Quiet = {}` | `docs/ducklake.md:57`: what another connection commits between the compilation of a refresh and its watermark is behind the watermark and unread |
| `NeverDoubled` | `DuckLake.cfg` with `FailKinds = {"apply", "recover"}` | `docs/refresh/automatic-refresh.md:69`: recovery clears `refresh_in_progress` before it has replaced the data; if it fails, the next refresh applies the deltas again |
| `DueIsRefreshed` | `Daemon.cfg` with `ModeOf <- MCDownstream` | `docs/refresh/automatic-refresh.md:29`: a scheduled view whose ancestor is scheduled before it, and is skipped, is passed over in every cycle, because the skipped call counts as having covered it |
| `Exact` | `Maintenance.cfg` with `Views <- LeftChain` | `docs/operators/left-join.md:111`: in a chain of left joins whose outer one compares a column that the inner one pads, a row that becomes NULL-extended is lost |
| `DeltaIsChange` | `Maintenance.cfg` with `Views <- FkPruning` | `delta/operators/join.cpp:520`: terms are pruned for a foreign key between two tables, whatever columns the join compares |
| `Exact` | `Maintenance.cfg` with `Views <- GroupMiss` | `docs/limitations.md:49`: the affected groups of a recompute over a join are looked for in the current tables, and a group whose joining rows are all deleted in one batch is not found |
| `FailedCreateSparesAll` | `Lifecycle.cfg` with `Sessions = {s1, s2}`, `Writers = {}`, `MaxRows = 0`, `MaxDdl = 2` | `core/parser.cpp:226`, "Otherwise a duplicate CREATE attempt can fail on the pre-existing backing table and then cleanup would drop the original MV's user-facing view/data table": the check that is to prevent it is made before the script, and two sessions that create the same view both find no relation of that name; the one that fails drops the other's |
| `DeltaSynced` | `SchemaEvolution.cfg` | `docs/internals/schema-evolution.md:3`, "Delta tables are automatically synced": the result of the delta table's ALTER is not looked at; when it fails, DuckDB alters the table all the same, and nothing repeats it |

### Queries left out of the zoo

`MCMaintenance` has no view of the following shapes, for which the translated
rules do not give what the query answers:

* DISTINCT: an inner one that is classified by its columns' names
  (`DistinctAtTop`), a projection over a renamed one, and
  DISTINCT_INCREMENTAL over sums of NULLs;
* ungrouped aggregates: COUNT(\*) and SUM over a LEFT JOIN or over an inner join
  whose result is empty while its sources are not (0 for NULL, or the reverse),
  COUNT(\*) when a source is empty;
* a grouped SUM whose last non-NULL value is deleted gives 0 for NULL;
* outer joins: readers of left, right and full projections miss the transitions
  between padded and matched rows (these views are marked `Alone`), NULL keys of
  full outer projections, the NULL group of a full outer aggregate by its left key;
* window partitions by NULL, groups by another aggregate's value;
* a filtered group count over a subquery with a WHERE of its own.

### View life cycle

What `AllOrNothing` and `OnlyWindowIsMissed` except, or the model leaves in its
states, is what the code does: a failed CREATE keeps the delta tables of its
sources; after a crash in the middle, CREATE is refused until OR REPLACE; a
failed OR REPLACE has lost the old view; a DROP VIEW that fails after the rule
has run leaves a VIEW without data; rows written between load and cursor are
not in the view and never will be; a dependent view whose `openivm_views` row
could not be deleted is locked a second time by the thread that drops it in a
CASCADE, which then waits for itself.

### ALTER TABLE

The ALTER of a delta table may fail for a conflict with a refresh or a capture,
or because its name, which is not qualified, is none of the schema that the
rule's own connection begins in. The model lets it fail whenever it is tried;
what captures and refreshes then make of the two tables is not modelled.

A rename whose new name exists in another table, or is what a derived table
calls one of its columns, makes a half-done stored query read that column (the
exception in `NeverAnotherColumn`). A rename that fails because the table itself
has the new name has rewritten the stored queries already; the model does not
issue it. Group-column sources are renamed without looking at the table
(`rules/schema_evolution.cpp:489`), so the instance gives such metadata to a
single-source view only. The views of the instance, and the hypothesis
`PlainQueries`, also leave out: derived tables without column names, unqualified
correlated references to a table of an outer block, an alias that is the altered
table's name beside that table, output names of an unaliased set operation.

## 10. Not modelled

* **Index regeneration** (`upsert/refresh_index_regen.cpp`), **SQL text
  utilities**, compile facts: trees and strings without state between calls.
* **Query rewrite and matching**: the pipeline rule is plan construction, the
  matching files are stubs. **Registration** with DuckDB.
* **The cost model's regression** is floating-point arithmetic; its decision is
  a free choice in `RefreshProtocol`.
* In `RefreshCompiler`: the threshold between the two current-diff programs,
  list aggregates, STDDEV and VARIANCE, and the DuckLake variants of the
  upserts.
* **Delim joins** (correlated subqueries) and the binding of columns in every
  rewritten plan: the algebra counts columns by position.
* **DuckLake**: hooks on DuckLake views, whose check moves watermarks without a
  mutex; views over DuckLake views; tables that are altered in place; a failing
  rebuild.
* **Capture**: loads of several files; what a DELETE's capture sees of other
  transactions' rows.
* **View life cycle**: views over views, auxiliary tables, `openivm_mv_deps`
  and hooks (which DROP does not clean), DuckLake targets, runs with two sessions
  (but see section 9), a refresh whose tables a second session drops.
* **ALTER** beside refreshes and beside CREATE.
* **A join's terms beside captures that have not committed**, and **counts and
  multiplicities that are stale** when a refresh uses them: `Maintenance` takes a
  refresh as one step over committed changes.
