--------------------------- MODULE DuckLakeRefresh ---------------------------
(***************************************************************************)
(* The refresh of views over DuckLake tables (cross_system).  There are no *)
(* delta tables: a refresh reads what changed between the snapshot in the  *)
(* view's metadata and the one its plan was bound to.  DuckDB does not     *)
(* write two catalogs in one transaction, so every statement of the batch  *)
(* commits by itself, the metadata is updated before and after it on other *)
(* connections, and refresh_in_progress marks a batch that did not end.    *)
(*                                                                         *)
(* Data is abstract, as in RefreshProtocol: a change is one signed row,    *)
(* and a view counts changes.  The views have no hooks and read no other   *)
(* views; a refresh with nothing to do is skipped (the default).           *)
(***************************************************************************)
EXTENDS Integers, FiniteSets

CONSTANTS
    Tables,       \* DuckLake tables
    Views,        \* views over them, all in one DuckLake catalog
    Changes,      \* row changes, each committed at most once
    Sources,      \* Sources[v]: the tables v reads
    TableOf,      \* TableOf[c]: the table that c changes
    Quiet,        \* changes that commit while no refresh of their table runs
    FullMode,     \* views a refresh may recompute: refresh_mode, adaptive
    FailKinds,    \* kinds of refresh that may fail
    Recreatable,  \* tables that may be dropped and created again
    MaxFailures   \* bound: refreshes that fail

ASSUME LakeAssumption ==
    /\ IsFiniteSet(Tables) /\ IsFiniteSet(Changes)
    /\ Sources \in [Views -> SUBSET Tables]
    /\ TableOf \in [Changes -> Tables]
    /\ Quiet \subseteq Changes /\ Recreatable \subseteq Tables
    /\ FullMode \subseteq Views
    /\ FailKinds \subseteq {"apply", "recover", "rebuild"}
    /\ MaxFailures \in Nat

VARIABLES
    snap,      \* current_snapshot() of the catalog
    at,        \* at[c]: the snapshot that committed c, 0 if none has
    born,      \* born[t]: the snapshot that created t; stands for its table id
    mark,      \* mark[v][t]: last_snapshot_id of (v, t)
    known,     \* known[v][t]: source_table_id of (v, t)
    flag,      \* flag[v]: refresh_in_progress
    mv,        \* mv[v][c]: how often c is counted in openivm_data_<v>
    staged,    \* staged[v][c]: rows of openivm_delta_<v> after last_refresh_ts
    pc,        \* pc[v]: where the refresh of v stands
    kind,      \* kind[v]: apply deltas, recover, or rebuild for another reason
    read,      \* read[v]: the snapshot the batch's plan was bound to
    todo,      \* todo[v]: the tables whose metadata is still to be updated
    newMark,   \* newMark[v]: the snapshot they are updated to
    failures   \* refreshes failed so far

lakeVars == <<snap, at, born>>
metaVars == <<mark, known, flag>>
dataVars == <<mv, staged>>
jobVars == <<pc, kind, read, todo, newMark>>
vars == <<lakeVars, metaVars, dataVars, jobVars, failures>>

Steps == {"idle", "locked", "compiled", "flagged", "staged", "upserted",
          "emptied", "written", "marking", "clearing"}

TypeOK ==
    /\ snap \in Nat /\ failures \in Nat
    /\ at \in [Changes -> Nat] /\ born \in [Tables -> Nat]
    /\ mark \in [Views -> [Tables -> Nat]]
    /\ known \in [Views -> [Tables -> Nat]]
    /\ flag \in [Views -> BOOLEAN]
    /\ mv \in [Views -> [Changes -> Nat]]
    /\ staged \in [Views -> [Changes -> Nat]]
    /\ pc \in [Views -> Steps]
    /\ kind \in [Views -> {"apply", "recover", "rebuild"}]
    /\ read \in [Views -> Nat] /\ newMark \in [Views -> Nat]
    /\ todo \in [Views -> SUBSET Tables]

\* Every view was created, over empty tables, at snapshot 1.
Init ==
    /\ snap = 1 /\ failures = 0
    /\ at = [c \in Changes |-> 0]
    /\ born = [t \in Tables |-> 0]
    /\ mark = [v \in Views |-> [t \in Tables |-> 1]]
    /\ known = [v \in Views |-> [t \in Tables |-> 0]]
    /\ flag = [v \in Views |-> FALSE]
    /\ mv = [v \in Views |-> [c \in Changes |-> 0]]
    /\ staged = [v \in Views |-> [c \in Changes |-> 0]]
    /\ pc = [v \in Views |-> "idle"]
    /\ kind = [v \in Views |-> "apply"]
    /\ read = [v \in Views |-> 0] /\ newMark = [v \in Views |-> 0]
    /\ todo = [v \in Views |-> {}]

-----------------------------------------------------------------------------
(* The lake *)

Readers(t) == {v \in Views : t \in Sources[v]}

Commit(c) ==
    /\ at[c] = 0
    /\ c \in Quiet => \A v \in Readers(TableOf[c]) : pc[v] = "idle"
    /\ snap' = snap + 1
    /\ at' = [at EXCEPT ![c] = snap + 1]
    /\ UNCHANGED <<born, metaVars, dataVars, jobVars, failures>>

\* DROP TABLE t and CREATE TABLE t: an empty table with another id.
Recreate(t) ==
    /\ t \in Recreatable /\ born[t] = 0
    /\ \A v \in Readers(t) : pc[v] = "idle"
    /\ snap' = snap + 1
    /\ born' = [born EXCEPT ![t] = snap + 1]
    /\ UNCHANGED <<at, metaVars, dataVars, jobVars, failures>>

\* What table t shows of change c at snapshot s.
ShownAt(c, s) ==
    /\ at[c] # 0 /\ at[c] <= s
    /\ ~(at[c] < born[TableOf[c]] /\ born[TableOf[c]] <= s)

Count(cond) == IF cond THEN 1 ELSE 0

-----------------------------------------------------------------------------
(* Is there anything to do? *)

\* Wrong variant: the current snapshot itself is left out of the list.
HasChangesBeforeNow(v, t) ==
    /\ mark[v][t] # snap
    /\ \/ known[v][t] # born[t]
       \/ \E c \in Changes : /\ TableOf[c] = t /\ at[c] >= born[t]
                             /\ mark[v][t] < at[c] /\ at[c] < snap

\* ProbeDuckLakeSnapshotActivity: the catalog's list of snapshots says which
\* table ids were written.  It is asked only when the watermark is behind.
HasChanges(v, t) ==
    /\ mark[v][t] # snap
    /\ \/ known[v][t] # born[t]
       \/ \E c \in Changes : /\ TableOf[c] = t /\ at[c] >= born[t]
                             /\ mark[v][t] < at[c]

Active(v) == {t \in Sources[v] : HasChanges(v, t)}

Replaced(v) == {t \in Sources[v] : mark[v][t] # snap /\ known[v][t] # born[t]}

\* The probe stores the table id it finds: the next one sees no difference.
Learn(v) ==
    known' = [known EXCEPT ![v] = [t \in Tables |->
                IF t \in Sources[v] /\ mark[v][t] # snap THEN born[t] ELSE @[t]]]

\* The mutexes: of the view, and of its sources' names.
Unlocked(v) ==
    /\ pc[v] = "idle"
    /\ \A u \in Views : pc[u] # "idle" => Sources[u] \intersect Sources[v] = {}

\* Where the watermarks go when nothing has changed: a table that was behind
\* only because of other tables' snapshots.  last_refresh_ts moves along.
Advances(v) == {t \in Sources[v] : mark[v][t] # snap}

AdvanceMarks(v, behind) ==
    /\ mark' = [mark EXCEPT ![v] = [t \in Tables |-> IF t \in behind THEN snap ELSE @[t]]]
    /\ staged' = [staged EXCEPT ![v] = IF behind # {} THEN [c \in Changes |-> 0] ELSE @]

SkipRefresh(v) ==
    /\ Unlocked(v)
    /\ Active(v) = {}
    /\ AdvanceMarks(v, Advances(v))
    /\ UNCHANGED <<lakeVars, known, flag, mv, jobVars, failures>>

BeginRefresh(v) ==
    /\ Unlocked(v)
    /\ Active(v) # {}
    /\ Learn(v)
    /\ kind' = [kind EXCEPT ![v] = IF Replaced(v) # {} THEN "rebuild" ELSE "apply"]
    /\ pc' = [pc EXCEPT ![v] = "locked"]
    /\ UNCHANGED <<lakeVars, mark, flag, dataVars, read, todo, newMark, failures>>

-----------------------------------------------------------------------------
(* The batch *)

\* Wrong variant: the flag is not looked at.
IgnoresFlag(v) == FALSE

Interrupted(v) == flag[v]

\* GenerateRefreshSQL.  An interrupted refresh is recovered by a recompute,
\* and its flag is cleared right here, in a statement of its own.  Otherwise
\* the plan, and with it the deltas to read, is bound to the current snapshot.
Compile(v) ==
    /\ pc[v] = "locked"
    /\ \/ /\ Interrupted(v)
          /\ flag' = [flag EXCEPT ![v] = FALSE]
          /\ kind' = [kind EXCEPT ![v] = "recover"]
       \/ /\ ~Interrupted(v)
          /\ \E k \in {"apply", "rebuild"} :
                /\ kind[v] = "rebuild" => k = "rebuild"
                /\ k = "rebuild" => kind[v] = "rebuild" \/ v \in FullMode
                /\ kind' = [kind EXCEPT ![v] = k]
          /\ UNCHANGED flag
    /\ read' = [read EXCEPT ![v] = snap]
    /\ pc' = [pc EXCEPT ![v] = "compiled"]
    /\ UNCHANGED <<lakeVars, mark, known, dataVars, todo, newMark, failures>>

\* meta_pre_sql, for batches that apply deltas only.
RaiseFlag(v) ==
    /\ pc[v] = "compiled" /\ kind[v] = "apply"
    /\ flag' = [flag EXCEPT ![v] = TRUE]
    /\ pc' = [pc EXCEPT ![v] = "flagged"]
    /\ UNCHANGED <<lakeVars, mark, known, dataVars, kind, read, todo, newMark,
                   failures>>

\* Wrong variant: the first snapshot after the watermark is left out.
DeltaAfterNext(v, c) ==
    /\ TableOf[c] \in Sources[v] /\ at[c] >= born[TableOf[c]]
    /\ mark[v][TableOf[c]] + 1 < at[c] /\ at[c] <= read[v]

\* Is c among the rows the batch's delta scans return?
\* ducklake_table_insertions and _deletions from last_snapshot_id + 1.
Delta(v, c) ==
    /\ TableOf[c] \in Sources[v] /\ at[c] >= born[TableOf[c]]
    /\ mark[v][TableOf[c]] < at[c] /\ at[c] <= read[v]

\* Each statement that writes makes a snapshot.
WriteDelta(v) ==
    /\ pc[v] = "flagged"
    /\ staged' = [staged EXCEPT ![v] = [c \in Changes |-> @[c] + Count(Delta(v, c))]]
    /\ snap' = snap + 1
    /\ pc' = [pc EXCEPT ![v] = "staged"]
    /\ UNCHANGED <<at, born, metaVars, mv, kind, read, todo, newMark, failures>>

Upsert(v) ==
    /\ pc[v] = "staged"
    /\ mv' = [mv EXCEPT ![v] = [c \in Changes |-> @[c] + staged[v][c]]]
    /\ snap' = snap + 1
    /\ pc' = [pc EXCEPT ![v] = "upserted"]
    /\ UNCHANGED <<at, born, metaVars, staged, kind, read, todo, newMark, failures>>

PurgeDelta(v) ==
    /\ pc[v] = "upserted"
    /\ staged' = [staged EXCEPT ![v] = [c \in Changes |-> 0]]
    /\ snap' = snap + 1
    /\ pc' = [pc EXCEPT ![v] = "written"]
    /\ UNCHANGED <<at, born, metaVars, mv, kind, read, todo, newMark, failures>>

\* BuildFullRecomputeSQL: DELETE FROM data; INSERT INTO data <query>.
Empty(v) ==
    /\ pc[v] = "compiled" /\ kind[v] # "apply"
    /\ mv' = [mv EXCEPT ![v] = [c \in Changes |-> 0]]
    /\ snap' = snap + 1
    /\ pc' = [pc EXCEPT ![v] = "emptied"]
    /\ UNCHANGED <<at, born, metaVars, staged, kind, read, todo, newMark, failures>>

Refill(v) ==
    /\ pc[v] = "emptied"
    /\ mv' = [mv EXCEPT ![v] = [c \in Changes |->
                @[c] + Count(TableOf[c] \in Sources[v] /\ ShownAt(c, snap))]]
    /\ snap' = snap + 1
    /\ pc' = [pc EXCEPT ![v] = "written"]
    /\ UNCHANGED <<at, born, metaVars, staged, kind, read, todo, newMark, failures>>

\* Wrong variants: the snapshot the plan was bound to; the -1 of a failed
\* lookup let through.
WatermarkOfPlan(v) == read[v]
WatermarkUnread(v) == -1

\* The snapshot current after the data refresh, on a fresh connection.
Watermark(v) == snap

ReadWatermark(v) ==
    /\ pc[v] = "written"
    /\ newMark' = [newMark EXCEPT ![v] = Watermark(v)]
    /\ todo' = [todo EXCEPT ![v] = Sources[v]]
    /\ pc' = [pc EXCEPT ![v] = "marking"]
    /\ UNCHANGED <<lakeVars, metaVars, dataVars, kind, read, failures>>

\* meta_post_sql: one UPDATE per source.  It also moves last_refresh_ts, past
\* every row of the view's delta table.
MoveMark(v) ==
    /\ pc[v] = "marking"
    /\ \E t \in todo[v] :
          /\ mark' = [mark EXCEPT ![v][t] = newMark[v]]
          /\ todo' = [todo EXCEPT ![v] = @ \ {t}]
          /\ pc' = [pc EXCEPT ![v] = IF todo[v] = {t} THEN "clearing" ELSE @]
    /\ staged' = [staged EXCEPT ![v] = [c \in Changes |-> 0]]
    /\ UNCHANGED <<lakeVars, known, flag, mv, kind, read, newMark, failures>>

\* The mutexes are released.
Release(v) ==
    /\ pc' = [pc EXCEPT ![v] = "idle"]
    /\ kind' = [kind EXCEPT ![v] = "apply"]
    /\ read' = [read EXCEPT ![v] = 0]
    /\ todo' = [todo EXCEPT ![v] = {}]
    /\ newMark' = [newMark EXCEPT ![v] = 0]

\* The last statement after an apply clears the flag.
EndRefresh(v) ==
    /\ pc[v] = "clearing"
    /\ flag' = [flag EXCEPT ![v] = IF kind[v] = "apply" THEN FALSE ELSE @]
    /\ Release(v)
    /\ UNCHANGED <<lakeVars, mark, known, dataVars, failures>>

\* An error, or the end of the process: what was committed stays.
Fail(v) ==
    /\ pc[v] # "idle" /\ kind[v] \in FailKinds
    /\ failures < MaxFailures
    /\ failures' = failures + 1
    /\ Release(v)
    /\ UNCHANGED <<lakeVars, metaVars, dataVars>>

-----------------------------------------------------------------------------
Batch(v) ==
    \/ Compile(v) \/ RaiseFlag(v) \/ WriteDelta(v) \/ Upsert(v) \/ PurgeDelta(v)
    \/ Empty(v) \/ Refill(v) \/ ReadWatermark(v) \/ MoveMark(v) \/ EndRefresh(v)

Ask(v) == SkipRefresh(v) \/ BeginRefresh(v)

Next ==
    \/ \E c \in Changes : Commit(c)
    \/ \E t \in Tables : Recreate(t)
    \/ \E v \in Views : Ask(v) \/ Batch(v) \/ Fail(v)

Spec == Init /\ [][Next]_vars

\* A batch goes on unless it fails; every view keeps being refreshed.
FairSpec ==
    /\ Spec
    /\ \A v \in Views : WF_vars(Batch(v)) /\ SF_vars(BeginRefresh(v))

-----------------------------------------------------------------------------
(* Safety *)

Resting(v) == pc[v] = "idle" /\ ~flag[v]

\* A refresh that failed while it applied deltas, whichever of its statements
\* had committed, is never applied a second time: neither the rows left in the
\* view's delta table nor those ahead of the watermark that did not move are
\* counted twice.  It does not hold when the recovery fails as well: the
\* recovery has cleared the flag before it repairs anything.
NeverDoubled == \A v \in Views : \A c \in Changes : mv[v][c] <= 1

\* Once a refresh has ended, nothing it counted is ahead of the watermarks,
\* where the next refresh would read it again: also when changes commit
\* while the refresh runs, and when it recomputed from a later snapshot than
\* the one it was compiled at.
CountedIsBehind ==
    \A v \in Views : Resting(v) => \A c \in Changes :
        mv[v][c] # 0 => at[c] <= mark[v][TableOf[c]]

\* Between refreshes a view that is not flagged is its query at its
\* watermarks, over tables that may have been dropped and created again; said
\* of the changes that do not commit during a refresh (see MarkIsRead).
ExactAtMarks ==
    \A v \in Views : Resting(v) => \A c \in Quiet :
        TableOf[c] \in Sources[v] =>
            mv[v][c] = Count(ShownAt(c, mark[v][TableOf[c]]))

\* A committed change reaches every view over its table, or is gone with its
\* table, though refreshes fail between any two of their statements.
QuietChangesArrive ==
    \A v \in Views : \A c \in Quiet :
        (at[c] # 0 /\ TableOf[c] \in Sources[v]) ~>
            mv[v][c] = Count(ShownAt(c, snap))

-----------------------------------------------------------------------------
(* What the documentation says and the code does not keep *)

\* docs/ducklake.md: "The next refresh reads changes between the stored
\* snapshot and the current one".  So what lies before the stored snapshot
\* has been read.
MarkIsRead ==
    \A v \in Views : Resting(v) => \A c \in Changes :
        TableOf[c] \in Sources[v] =>
            (ShownAt(c, mark[v][TableOf[c]]) => mv[v][c] # 0)
=============================================================================
