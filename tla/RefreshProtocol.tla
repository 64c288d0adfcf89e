--------------------------- MODULE RefreshProtocol ---------------------------
(***************************************************************************)
(* The refresh protocol of native (single catalog) materialized views:     *)
(* sessions whose DML is captured into delta tables by the insert rule,    *)
(* and workers (a PRAGMA refresh call, or the daemon) that refresh one     *)
(* view at a time under the per-view and per-delta-table mutexes, in a     *)
(* DuckDB transaction of their own.                                        *)
(*                                                                         *)
(* Data is abstract.  A change is one row changed by one DML statement;    *)
(* the content of a view says how many times each change is counted in it, *)
(* which is what a view that is linear in its sources (projection, filter, *)
(* UNION ALL, SUM, COUNT) stores, up to grouping.  A chained view reads    *)
(* the data table and the delta table of another view, under the same      *)
(* rules as a base table, except that the insert rule never writes that    *)
(* delta table: the upstream view's refresh does.                          *)
(***************************************************************************)
EXTENDS Naturals, FiniteSets

CONSTANTS
    Tables,         \* base tables
    Views,          \* materialized views
    Changes,        \* row changes, each made at most once
    Sessions,       \* connections that run DML
    Workers,        \* connections that run PRAGMA refresh
    Sources,        \* Sources[v]: the tables and views that v reads
    TableOf,        \* TableOf[c]: the base table that c changes
    Origin,         \* Origin[n]: the base tables that node n depends on
    Rank,           \* the order in which delta table names sort
    SkipEmpty,      \* openivm_skip_empty_deltas
    AllowRollback,  \* whether a DML transaction may fail or be rolled back
    FullType,       \* views classified FULL_REFRESH
    FullMode,       \* views a refresh may recompute: refresh_mode, adaptive
    Pruned,         \* views compiled from the sources found active: joins
    Hooked,         \* views with a before or after hook
    MaxClock,       \* bound: nothing new starts at this instant or later
    MaxAborts,      \* bound: refreshes that fail for reasons of their own
    None            \* no holder

Nodes == Tables \union Views

\* The views whose content only ever moves by applying deltas.
Incremental == Views \ (FullType \union FullMode)

ASSUME NodesAssumption ==
    /\ Tables \intersect Views = {}
    /\ IsFiniteSet(Nodes)
    /\ Sources \in [Views -> SUBSET Nodes]
    /\ TableOf \in [Changes -> Tables]
    /\ Origin \in [Nodes -> SUBSET Tables]
    /\ Rank \in [Nodes -> Nat]

\* Each table is its own origin, and a change reaches a view along one path.
ASSUME OriginAssumption ==
    /\ \A t \in Tables : Origin[t] = {t}
    /\ \A v \in Views : Origin[v] = UNION {Origin[s] : s \in Sources[v]}
    /\ \A v \in Views : \A s1, s2 \in Sources[v] :
          s1 # s2 => Origin[s1] \intersect Origin[s2] = {}

\* A view is created over tables and views that exist.
ASSUME CreationAssumption ==
    \E place \in [Nodes -> 0 .. Cardinality(Nodes)] :
        \A v \in Views : \A s \in Sources[v] : place[s] < place[v]

ASSUME BoundsAssumption ==
    /\ None \notin Workers \union Sessions \union Changes \union Views
    /\ Workers \intersect Sessions = {}
    /\ SkipEmpty \in BOOLEAN /\ AllowRollback \in BOOLEAN
    /\ FullType \subseteq Views /\ FullMode \subseteq Views
    /\ Pruned \subseteq Views /\ Hooked \subseteq Views
    /\ MaxClock \in Nat /\ MaxAborts \in Nat

VARIABLES
    clock,      \* the wall clock behind now(), in microseconds
    base,       \* the changes committed to the base tables
    writing,    \* writing[x]: the change whose delta row x is writing
    tx,         \* tx[x]: changes of x's open transaction, already captured
    stamp,      \* stamp[c]: openivm_timestamp of c's base delta row, 0 if none
    delta,      \* delta[n]: the rows of openivm_delta_<n>
    cursor,     \* cursor[v][n]: last_update of (v, n) in openivm_delta_tables
    refreshed,  \* refreshed[v]: last_refresh_ts of v's rows in that table
    mv,         \* mv[v][c]: how often c is counted in openivm_data_<v>
    viewLock,   \* viewLock[v]: the worker that holds v's mutex
    deltaLock,  \* deltaLock[n]: the worker or session that holds n's delta mutex
    pc,         \* pc[w]: where worker w's refresh stands
    on,         \* on[w]: the view w is refreshing
    full,       \* full[w]: w compiled a full recompute
    active,     \* active[w]: the sources found to have pending rows
    start,      \* start[w]: now() of w's transaction
    eff,        \* eff[w]: what w's transaction has written, not yet committed
    aborts      \* refreshes failed so far

dataVars == <<base, writing, tx, stamp>>
storeVars == <<delta, cursor, refreshed, mv>>
lockVars == <<viewLock, deltaLock>>
jobVars == <<pc, on, full, active, start, eff>>
vars == <<clock, dataVars, storeVars, lockVars, jobVars, aborts>>

\* A row of a delta table: the change, openivm_timestamp, and, to tell apart
\* what a chained view's refreshes emit, the timestamp of the row it came from.
Row == [chg : Changes, ts : Nat, was : Nat]

Effect == [purge : [Nodes -> SUBSET Row],
           out   : SUBSET Row,
           cur   : [Nodes -> Nat],
           done  : Nat,
           mv    : [Changes -> Nat]]

NoEffect == [purge |-> [n \in Nodes |-> {}],
             out   |-> {},
             cur   |-> [n \in Nodes |-> 0],
             done  |-> 0,
             mv    |-> [c \in Changes |-> 0]]

Steps == {"idle", "waiting", "locking", "compiled", "begun", "ran"}

TypeOK ==
    /\ clock \in Nat /\ aborts \in Nat
    /\ base \in SUBSET Changes
    /\ writing \in [Sessions -> Changes \union {None}]
    /\ tx \in [Sessions -> SUBSET Changes]
    /\ stamp \in [Changes -> Nat]
    /\ delta \in [Nodes -> SUBSET Row]
    /\ cursor \in [Views -> [Nodes -> Nat]]
    /\ refreshed \in [Views -> Nat]
    /\ mv \in [Views -> [Changes -> Nat]]
    /\ viewLock \in [Views -> Workers \union {None}]
    /\ deltaLock \in [Nodes -> Workers \union Sessions \union {None}]
    /\ pc \in [Workers -> Steps]
    /\ on \in [Workers -> Views \union {None}]
    /\ full \in [Workers -> BOOLEAN]
    /\ active \in [Workers -> SUBSET Nodes]
    /\ start \in [Workers -> Nat]
    /\ eff \in [Workers -> Effect]

Init ==
    /\ clock = 1 /\ aborts = 0
    /\ base = {}
    /\ writing = [x \in Sessions |-> None]
    /\ tx = [x \in Sessions |-> {}]
    /\ stamp = [c \in Changes |-> 0]
    /\ delta = [n \in Nodes |-> {}]
    /\ cursor = [v \in Views |-> [n \in Nodes |-> 0]]
    /\ refreshed = [v \in Views |-> 0]
    /\ mv = [v \in Views |-> [c \in Changes |-> 0]]
    /\ viewLock = [v \in Views |-> None]
    /\ deltaLock = [n \in Nodes |-> None]
    /\ pc = [w \in Workers |-> "idle"]
    /\ on = [w \in Workers |-> None]
    /\ full = [w \in Workers |-> FALSE]
    /\ active = [w \in Workers |-> {}]
    /\ start = [w \in Workers |-> 0]
    /\ eff = [w \in Workers |-> NoEffect]

-----------------------------------------------------------------------------
(* Reading the delta tables *)

Readers(n) == {u \in Views : n \in Sources[u]}

\* The rows a refresh of v scans in s: openivm_timestamp >= last_update.
Fresh(v, s) == {r \in delta[s] : r.ts >= cursor[v][s]}

\* Wrong variant: only the first delta table is probed.
ActiveSourcesFirst(v) ==
    {s \in Sources[v] : Fresh(v, s) # {} /\ \A n \in Sources[v] : Rank[s] <= Rank[n]}

ActiveSources(v) == {s \in Sources[v] : Fresh(v, s) # {}}

\* Wrong variant: MAX(last_update) for MIN(last_update).
ConsumedByAny(n, cur) == {r \in delta[n] : \E u \in Readers(n) : r.ts < cur[u][n]}

\* The rows that cursors cur say every reader of n has scanned:
\* openivm_timestamp < (SELECT MIN(last_update) ... WHERE table_name = n).
Consumed(n, cur) == {r \in delta[n] : \A u \in Readers(n) : r.ts < cur[u][n]}

\* Wrong variants: without the microsecond, and without a fallback (NULL, or
\* the epoch) for an empty table.
NextCursorAtMax(rows, now) ==
    IF rows = {} THEN now
    ELSE CHOOSE m \in {r.ts : r \in rows} : \A r \in rows : r.ts <= m

NextCursorNull(rows, now) ==
    IF rows = {} THEN None
    ELSE 1 + CHOOSE m \in {r.ts : r \in rows} : \A r \in rows : r.ts <= m

NextCursorEpoch(rows, now) ==
    IF rows = {} THEN 0
    ELSE 1 + CHOOSE m \in {r.ts : r \in rows} : \A r \in rows : r.ts <= m

\* COALESCE(MAX(openivm_timestamp) + 1 microsecond, now())
NextCursor(rows, now) ==
    IF rows = {} THEN now
    ELSE 1 + CHOOSE m \in {r.ts : r \in rows} : \A r \in rows : r.ts <= m

\* The bound on the clock: instants are kept for the refreshes under way.
Spare ==
    clock + Cardinality({w \in Workers : pc[w] \in {"waiting", "locking", "compiled"}})
        < MaxClock

-----------------------------------------------------------------------------
(* DML: while the statement is optimized, the insert rule writes its delta  *)
(* row on a connection of its own, which commits at once, under the delta   *)
(* mutex.  The statement itself runs later, and commits with the session's  *)
(* transaction.                                                             *)

\* The guard is taken and the delta INSERT begins: its now() is fixed.
StartCapture(x, c) ==
    LET t == TableOf[c] IN
    /\ writing[x] = None
    /\ stamp[c] = 0
    /\ deltaLock[t] = None
    /\ Spare
    /\ deltaLock' = [deltaLock EXCEPT ![t] = x]
    /\ writing' = [writing EXCEPT ![x] = c]
    /\ stamp' = [stamp EXCEPT ![c] = clock]
    /\ clock' = clock + 1
    /\ UNCHANGED <<base, tx, storeVars, viewLock, jobVars, aborts>>

\* The delta INSERT commits and the guard goes.
FinishCapture(x) ==
    LET c == writing[x]
        t == TableOf[c]
    IN
    /\ c # None
    /\ delta' = [delta EXCEPT ![t] =
                   @ \union {[chg |-> c, ts |-> stamp[c], was |-> stamp[c]]}]
    /\ tx' = [tx EXCEPT ![x] = @ \union {c}]
    /\ writing' = [writing EXCEPT ![x] = None]
    /\ deltaLock' = [deltaLock EXCEPT ![t] = None]
    /\ UNCHANGED <<clock, base, stamp, cursor, refreshed, mv, viewLock, jobVars,
                   aborts>>

CommitDml(x) ==
    /\ writing[x] = None
    /\ tx[x] # {}
    /\ base' = base \union tx[x]
    /\ tx' = [tx EXCEPT ![x] = {}]
    /\ UNCHANGED <<clock, writing, stamp, storeVars, lockVars, jobVars, aborts>>

\* A constraint, a conflict or ROLLBACK: the delta rows stay.
RollbackDml(x) ==
    /\ AllowRollback
    /\ writing[x] = None
    /\ tx[x] # {}
    /\ tx' = [tx EXCEPT ![x] = {}]
    /\ UNCHANGED <<clock, base, writing, stamp, storeVars, lockVars, jobVars, aborts>>

-----------------------------------------------------------------------------
(* Refreshing a view *)

SkipsWhenEmpty(v) == SkipEmpty /\ v \notin FullType

\* PRAGMA refresh(v).  With a hook the emptiness check comes here, before
\* any lock, and is not repeated under the locks.
RequestRefresh(w, v) ==
    /\ pc[w] = "idle"
    /\ v \in Hooked /\ SkipsWhenEmpty(v) => ActiveSources(v) # {}
    /\ Spare
    /\ pc' = [pc EXCEPT ![w] = "waiting"]
    /\ on' = [on EXCEPT ![w] = v]
    /\ UNCHANGED <<clock, dataVars, storeVars, lockVars, full, active, start,
                   eff, aborts>>

LockView(w) ==
    /\ pc[w] = "waiting"
    /\ viewLock[on[w]] = None
    /\ viewLock' = [viewLock EXCEPT ![on[w]] = w]
    /\ pc' = [pc EXCEPT ![w] = "locking"]
    /\ UNCHANGED <<clock, dataVars, storeVars, deltaLock, on, full, active,
                   start, eff, aborts>>

Held(w) == {n \in Nodes : deltaLock[n] = w}

\* Wrong variant: in the order the metadata query returns them.
LockDeltaAnyOrder(w) ==
    /\ pc[w] = "locking"
    /\ \E s \in Sources[on[w]] \ Held(w) :
          /\ deltaLock[s] = None
          /\ deltaLock' = [deltaLock EXCEPT ![s] = w]
    /\ UNCHANGED <<clock, dataVars, storeVars, viewLock, jobVars, aborts>>

\* The delta mutexes of the view's sources, in sorted order.
LockDelta(w) ==
    /\ pc[w] = "locking"
    /\ \E s \in Sources[on[w]] \ Held(w) :
          /\ \A n \in Sources[on[w]] \ Held(w) : Rank[s] <= Rank[n]
          /\ deltaLock[s] = None
          /\ deltaLock' = [deltaLock EXCEPT ![s] = w]
    /\ UNCHANGED <<clock, dataVars, storeVars, viewLock, jobVars, aborts>>

\* The guards go out of scope: every mutex is released.
Release(w) ==
    /\ viewLock' = [v \in Views |-> IF viewLock[v] = w THEN None ELSE viewLock[v]]
    /\ deltaLock' = [n \in Nodes |-> IF deltaLock[n] = w THEN None ELSE deltaLock[n]]
    /\ pc' = [pc EXCEPT ![w] = "idle"]
    /\ on' = [on EXCEPT ![w] = None]
    /\ full' = [full EXCEPT ![w] = FALSE]
    /\ active' = [active EXCEPT ![w] = {}]
    /\ start' = [start EXCEPT ![w] = 0]
    /\ eff' = [eff EXCEPT ![w] = NoEffect]

\* Wrong variant: the view's mutex alone.
HoldsView(w) == pc[w] = "locking"

HoldsAll(w) == pc[w] = "locking" /\ Sources[on[w]] \subseteq Held(w)

SkipRefresh(w) ==
    /\ HoldsAll(w)
    /\ SkipsWhenEmpty(on[w]) /\ on[w] \notin Hooked
    /\ ActiveSources(on[w]) = {}
    /\ Release(w)
    /\ UNCHANGED <<clock, dataVars, storeVars, aborts>>

\* GenerateRefreshSQL, on another connection and before the transaction:
\* the strategy and the sources worth scanning are fixed here.
Compile(w) ==
    /\ HoldsAll(w)
    /\ SkipsWhenEmpty(on[w]) /\ on[w] \notin Hooked => ActiveSources(on[w]) # {}
    /\ \E f \in BOOLEAN :
          /\ on[w] \in FullType => f
          /\ f => on[w] \in FullType \union FullMode
          /\ full' = [full EXCEPT ![w] = f]
    /\ active' = [active EXCEPT ![w] = ActiveSources(on[w])]
    /\ pc' = [pc EXCEPT ![w] = "compiled"]
    /\ UNCHANGED <<clock, dataVars, storeVars, lockVars, on, start, eff, aborts>>

\* BEGIN fixes now(); the snapshot comes with the first statement.
BeginTransaction(w) ==
    /\ pc[w] = "compiled"
    /\ start' = [start EXCEPT ![w] = clock]
    /\ clock' = clock + 1
    /\ pc' = [pc EXCEPT ![w] = "begun"]
    /\ UNCHANGED <<dataVars, storeVars, lockVars, on, full, active, eff, aborts>>

\* Wrong variant: >= for >.
UnappliedInclusive(v, rows) == {r \in rows : r.ts >= refreshed[v]}

\* BuildDeltaTimestampFilter: openivm_timestamp > last_refresh_ts.
Unapplied(v, rows) == {r \in rows : r.ts > refreshed[v]}

\* What the delta query of w's refresh adds to the view's own delta table.
Emitted(w) ==
    LET v       == on[w]
        scanned == IF v \in Pruned THEN active[w] ELSE Sources[v]
    IN  {[chg |-> r.chg, ts |-> start[w], was |-> r.ts] :
            r \in UNION {Fresh(v, s) : s \in scanned}}

\* The batch of an incremental refresh: the upsert applies the rows of the
\* view's own delta table with openivm_timestamp > last_refresh_ts; then that
\* table and the sources' delta tables are purged by the cursors as they
\* were, and the cursors advance.
IncrementalEffect(w) ==
    LET v      == on[w]
        own    == delta[v] \union Emitted(w)
        purged == [n \in Nodes |-> IF n \in Sources[v] \union {v}
                                   THEN Consumed(n, cursor) ELSE {}]
    IN  [purge |-> purged,
         out   |-> {r \in Emitted(w) : \E u \in Readers(v) : r.ts >= cursor[u][v]},
         cur   |-> [n \in Nodes |->
                      IF n \in Sources[v]
                      THEN NextCursor(delta[n] \ purged[n], start[w])
                      ELSE cursor[v][n]],
         done  |-> start[w],
         mv    |-> [c \in Changes |->
                      mv[v][c] + Cardinality({r \in Unapplied(v, own) : r.chg = c})]]

\* What reading source s shows of change c.
Shows(s, c) == IF s \in Views THEN mv[s][c] ELSE IF c \in base THEN 1 ELSE 0

\* What recomputing view v returns.
Recomputed(v) ==
    [c \in Changes |->
        IF \E s \in Sources[v] : TableOf[c] \in Origin[s]
        THEN Shows(CHOOSE s \in Sources[v] : TableOf[c] \in Origin[s], c)
        ELSE 0]

\* Wrong variants: the cursors are left where they were; the sources' delta
\* tables are purged by the view's own new cursors.
FullEffectOldCursors(w) ==
    [purge |-> [n \in Nodes |-> IF n \in Sources[on[w]]
                                THEN Consumed(n, cursor) ELSE {}],
     out   |-> {},
     cur   |-> cursor[on[w]],
     done  |-> refreshed[on[w]],
     mv    |-> Recomputed(on[w])]

FullEffectPurgesAll(w) ==
    [purge |-> [n \in Nodes |-> IF n \in Sources[on[w]] THEN delta[n] ELSE {}],
     out   |-> {},
     cur   |-> [n \in Nodes |-> IF n \in Sources[on[w]] THEN start[w] ELSE cursor[on[w]][n]],
     done  |-> refreshed[on[w]],
     mv    |-> Recomputed(on[w])]

\* BuildRecomputeQuery: replace the data by the query over the sources, set
\* every cursor to now(), then purge the sources' delta tables.  The view's
\* own delta table gets nothing.
FullEffect(w) ==
    LET v   == on[w]
        cur == [cursor EXCEPT ![v] = [n \in Nodes |-> IF n \in Sources[v]
                                                      THEN start[w] ELSE @[n]]]
    IN  [purge |-> [n \in Nodes |-> IF n \in Sources[v]
                                   THEN Consumed(n, cur) ELSE {}],
         out   |-> {},
         cur   |-> cur[v],
         done  |-> refreshed[v],
         mv    |-> Recomputed(v)]

RunBatch(w) ==
    /\ pc[w] = "begun"
    /\ eff' = [eff EXCEPT ![w] = IF full[w] THEN FullEffect(w)
                                            ELSE IncrementalEffect(w)]
    /\ pc' = [pc EXCEPT ![w] = "ran"]
    /\ UNCHANGED <<clock, dataVars, storeVars, lockVars, on, full, active,
                   start, aborts>>

\* Another transaction deleted a row that this one deletes too.
Conflict(w) == \E n \in Nodes : ~(eff[w].purge[n] \subseteq delta[n])

CommitRefresh(w) ==
    /\ pc[w] = "ran"
    /\ ~Conflict(w)
    /\ mv' = [mv EXCEPT ![on[w]] = eff[w].mv]
    /\ cursor' = [cursor EXCEPT ![on[w]] = eff[w].cur]
    /\ refreshed' = [refreshed EXCEPT ![on[w]] = eff[w].done]
    /\ delta' = [n \in Nodes |-> (delta[n] \ eff[w].purge[n])
                                 \union (IF n = on[w] THEN eff[w].out ELSE {})]
    /\ Release(w)
    /\ UNCHANGED <<clock, dataVars, aborts>>

\* "Conflict on tuple deletion": rolled back, locks released, error thrown.
ConflictRefresh(w) ==
    /\ pc[w] = "ran"
    /\ Conflict(w)
    /\ Release(w)
    /\ UNCHANGED <<clock, dataVars, storeVars, aborts>>

FailRefresh(w) ==
    /\ pc[w] \in {"compiled", "begun", "ran"}
    /\ aborts < MaxAborts
    /\ aborts' = aborts + 1
    /\ Release(w)
    /\ UNCHANGED <<clock, dataVars, storeVars>>

-----------------------------------------------------------------------------
Refresh(w) ==
    \/ LockView(w) \/ LockDelta(w) \/ SkipRefresh(w) \/ Compile(w)
    \/ BeginTransaction(w) \/ RunBatch(w) \/ CommitRefresh(w)
    \/ ConflictRefresh(w) \/ FailRefresh(w)

Dml(x) ==
    \/ \E c \in Changes : StartCapture(x, c)
    \/ FinishCapture(x) \/ CommitDml(x) \/ RollbackDml(x)

Next ==
    \/ \E x \in Sessions : Dml(x)
    \/ \E w \in Workers : \E v \in Views : RequestRefresh(w, v)
    \/ \E w \in Workers : Refresh(w)

Spec == Init /\ [][Next]_vars
-----------------------------------------------------------------------------
(* Fairness.  DuckDB runs what it is asked to run: a refresh or a capture    *)
(* that can take its next step takes it.  A mutex that keeps being released *)
(* is obtained in the end, and every view keeps being refreshed (by the     *)
(* daemon, or by its users).                                                *)

Advance(w) ==
    \/ SkipRefresh(w) \/ Compile(w) \/ BeginTransaction(w)
    \/ RunBatch(w) \/ CommitRefresh(w) \/ ConflictRefresh(w)

RefreshFairness ==
    /\ \A x \in Sessions : WF_vars(FinishCapture(x))
    /\ \A w \in Workers : WF_vars(Advance(w)) /\ SF_vars(LockView(w) \/ LockDelta(w))

RequestFairness == \A v \in Views : SF_vars(\E w \in Workers : RequestRefresh(w, v))

FairSpec == Spec /\ RefreshFairness /\ RequestFairness

-----------------------------------------------------------------------------
(* Safety *)

\* The changes whose delta row is in place.
Captured == {c \in Changes : stamp[c] # 0 /\ \A x \in Sessions : writing[x] # c}

\* How often source s has counted change c.
Given(s, c) == IF s \in Views THEN mv[s][c] ELSE IF c \in Captured THEN 1 ELSE 0

\* What v has counted of c, and what it has still to scan, is what source s gave.
Flow(v, s, c) ==
    mv[v][c] + Cardinality({r \in Fresh(v, s) : r.chg = c}) = Given(s, c)

\* No delta row of a base table is lost to, or counted twice by, a view that
\* is only refreshed incrementally: each captured change is either counted
\* once and behind the view's cursor, or not counted and still to be scanned,
\* whatever other views, refreshes and writers do to the same delta table.
BaseFlow ==
    \A v \in Incremental : \A c \in Changes :
        TableOf[c] \in Sources[v] => Flow(v, TableOf[c], c)

\* The same along a chain: what a view has applied, its reader has applied or
\* will find in the view's delta table.  True when refreshes run one at a
\* time (a cascade from one connection); see ChainLosesNothing.
ChainFlow ==
    \A v \in Incremental : \A s \in Sources[v] \intersect Incremental :
        \A c \in Changes : TableOf[c] \in Origin[s] => Flow(v, s, c)

\* When refreshes along a chain overlap, rows can be lost to the reader but
\* never reach it twice: its refresh and the upstream view's both purge the
\* delta table between them, under no common mutex.
ChainNeverTwice ==
    \A v \in Incremental : \A s \in Sources[v] \intersect Incremental :
        \A c \in Changes : TableOf[c] \in Origin[s] =>
            mv[v][c] + Cardinality({r \in Fresh(v, s) : r.chg = c}) <= mv[s][c]

\* A row is purged from a base table's delta table only when every view that
\* reads the table, recomputed or incremental, has moved its cursor past it.
UnreadIsKept ==
    \A v \in Views : \A c \in Captured :
        /\ TableOf[c] \in Sources[v]
        /\ stamp[c] >= cursor[v][TableOf[c]]
        => \E r \in delta[TableOf[c]] : r.chg = c

\* A view over base tables never counts a change twice, however recomputes
\* and incremental refreshes of it alternate and wherever in between the
\* change's transaction commits.
NeverTwice ==
    \A v \in Views : Sources[v] \subseteq Tables => \A c \in Changes : mv[v][c] <= 1

\* When no transaction is open and neither a view nor any view it depends on
\* has rows left to scan, an incremental view is what its query returns.
Upstream(v) == {u \in Views : Origin[u] \subseteq Origin[v]}

CaughtUp(v) ==
    /\ \A x \in Sessions : writing[x] = None /\ tx[x] = {}
    /\ \A u \in Upstream(v) : ActiveSources(u) = {}

CaughtUpIsExact ==
    \A v \in Incremental : CaughtUp(v) =>
        \A c \in Changes : TableOf[c] \in Origin[v] =>
            mv[v][c] = IF c \in base THEN 1 ELSE 0

\* The cursor of an incremental view on a base table never moves back, though
\* rows that other views still need, with older timestamps, stay in the table
\* and the cursor is computed from them.  (A recompute sets the cursor to
\* now(), and the next incremental refresh may then move it back over instants
\* without a row.  On another view's delta table it may too: a row can arrive
\* there with the older timestamp of the transaction that wrote it.)
CursorsAdvance ==
    [][\A v \in Incremental : \A t \in Tables : cursor'[v][t] >= cursor[v][t]]_vars

\* The promise of ChangeFeed, to the incremental views about base tables.
Feed == INSTANCE ChangeFeed WITH
    Views <- Incremental,
    Subscribes <- [v \in Incremental |-> {c \in Changes : TableOf[c] \in Sources[v]}],
    captured <- Captured,
    delivered <- [v \in Incremental |->
                    {c \in Changes : TableOf[c] \in Sources[v] /\ mv[v][c] # 0}]

FeedSpec == Feed!Spec

-----------------------------------------------------------------------------
(* Liveness *)

\* PRAGMA refresh returns: the mutexes of views and delta tables, taken one
\* by one by refreshes of views that share tables and by writers, never close
\* a cycle of waiting.
RefreshReturns == \A w \in Workers : pc[w] # "idle" ~> pc[w] = "idle"

\* A captured change reaches every incremental view that reads its table,
\* though refreshes may be skipped, may fail and may be overtaken.
CapturedReachesViews ==
    \A v \in Incremental : \A c \in Changes :
        (c \in Captured /\ TableOf[c] \in Sources[v]) ~> mv[v][c] = 1

-----------------------------------------------------------------------------
(* What the documentation says and the code does not keep *)

\* docs/internals/concurrency.md: "the next refresh's filter excludes
\* everything we've seen and includes everything we haven't".  For a row that
\* an upstream refresh wrote into its view's delta table, whose mutex that
\* refresh does not hold.
ChainLosesNothing ==
    \A v \in Incremental : \A s \in Sources[v] \intersect Incremental : \A c \in Changes :
        mv[s][c] > mv[v][c] => \E r \in Fresh(v, s) : r.chg = c

\* docs/internals/concurrency.md: "The refresh reads a consistent snapshot of
\* base tables and delta tables".  For a recompute: the delta rows it leaves
\* behind its new cursor are the ones in the base tables it read.
RecomputeSeesItsDeltas ==
    \A w \in Workers : pc[w] = "ran" /\ full[w] =>
        \A c \in Captured :
            /\ TableOf[c] \in Sources[on[w]]
            /\ stamp[c] < eff[w].cur[TableOf[c]]
            => eff[w].mv[c] = 1

\* docs/internals/delta-tables.md: "Delta tables record row-level changes
\* (inserts, deletes, updates) to base tables".  For a statement that fails
\* or is rolled back after its delta row was written.
DeltaRecordsChanges ==
    \A t \in Tables : \A r \in delta[t] :
        r.chg \in base \union UNION {tx[x] : x \in Sessions}

\* docs/refresh/pipelines.md: "The next properly-ordered refresh brings
\* everything up to date".  For a view whose upstream view was recomputed.
OrderedRefreshCatchesUp ==
    \A v \in Views : v \in Incremental /\ CaughtUp(v) =>
        \A s \in Sources[v] \intersect Views : \A c \in Changes :
            TableOf[c] \in Origin[s] => mv[v][c] = mv[s][c]
=============================================================================
