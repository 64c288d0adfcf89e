--------------------------- MODULE ViewLifecycle ---------------------------
(***************************************************************************)
(* The life of materialized views: CREATE [OR REPLACE] MATERIALIZED VIEW,   *)
(* DROP and DROP TABLE ... CASCADE, each a script of separately committed   *)
(* statements, beside writes that capture their rows and refreshes.         *)
(* A failing CREATE is undone by a script of its own; a statement of DROP   *)
(* that fails is passed over; and the process may die between any two.      *)
(*                                                                         *)
(* Rows are the instants at which they were captured.  Refreshes take two   *)
(* steps here; RefreshProtocol has all of them.                            *)
(***************************************************************************)
EXTENDS Naturals, Sequences, FiniteSetsExt, SequencesExt

CONSTANTS
    Tables, Views, Sessions, Writers,
    Sources,        \* the tables that each view reads
    Absent,         \* a table that is not in the catalog
    Idle,           \* a session, a writer or a refresh with nothing to do
    MaxRows,        \* how many rows are written
    MaxDdl,         \* how many statements the sessions issue
    MaxFailures,    \* how many statements of scripts fail
    MaxCrashes      \* how often the process dies

ASSUME SourcesAssumption ==
    /\ Sources \in [Views -> SUBSET Tables]
    /\ IsFiniteSet(Tables) /\ IsFiniteSet(Views) /\ Tables \intersect Views = {}
    /\ MaxRows \in Nat

\* The statements of scripts, about a view or about a table, and what a session
\* is at.
TableWords == {"create_delta", "drop_delta", "drop_base"}
ViewWords ==
    {"drop_stale", "duplicate", "load", "create_view", "create_mv_delta", "cursors", "publish",
     "annotate", "drop_view", "drop_data", "drop_mv_delta", "drop_cursors", "unpublish",
     "hide", "lock", "lock_dependent", "unlock"}
Items == [do : ViewWords, of : Views] \union [do : TableWords, of : Tables]
Jobs == [op : {"create", "replace", "drop", "cascade"}, view : Views \union {Idle},
         script : Seq(Items), undo : BOOLEAN]

\* Absent and Idle are no values of what they stand in for.
ASSUME NamesAssumption ==
    /\ \A rows \in SUBSET (1 .. MaxRows) : rows # Absent
    /\ Idle \notin Tables \union Views \union Sessions
    /\ Views \intersect Sessions = {}
    /\ Idle \notin Jobs
    /\ Idle \notin [table : Tables, row : 1 .. MaxRows]
    /\ \A v \in Views : Idle \notin [at : Nat, rows : [Sources[v] -> SUBSET (1 .. MaxRows)]]

VARIABLES
    now,        \* the clock
    base,       \* the rows of each table
    delta,      \* the rows of openivm_delta_<table>
    data,       \* the rows of openivm_data_<view>
    deltaOf,    \* the views with a table openivm_delta_<view>
    shown,      \* the views with a user-facing VIEW
    published,  \* the rows of openivm_views
    cursor,     \* the rows of openivm_delta_tables, with their last_update
    session,    \* the script that each session executes
    lock,       \* who holds the mutex of each view
    write,      \* the captured rows of statements that have not committed
    refresh,    \* the refreshes that run
    missed,     \* the rows that were written while the view was created
    broken,     \* the views that a crash or a failed undo left half made
    disputed,   \* the views that two sessions were once at work on together
    issued, failures, crashes
tables == <<base, delta>>
objects == <<data, deltaOf, shown>>
catalog == <<published, cursor>>
ghosts == <<missed, broken, disputed>>
bounds == <<issued, failures, crashes>>
vars == <<now, tables, objects, catalog, session, lock, write, refresh, ghosts, bounds>>

-----------------------------------------------------------------------------
(* Scripts.                                                                *)

Do(what, of) == [do |-> what, of |-> of]
Each(what, S) == [n \in 1 .. Cardinality(S) |-> Do(what, SetToSeq(S)[n])]
OnView(v, whats) == [n \in DOMAIN whats |-> Do(whats[n], v)]

ReplaceScript == <<"drop_view", "drop_data", "drop_mv_delta", "drop_cursors">>
CursorsFirst(v, replace) ==
    OnView(v, (IF replace THEN ReplaceScript ELSE <<"drop_stale", "duplicate">>)
              \o <<"cursors", "load", "create_view">>)
    \o Each("create_delta", Sources[v])
    \o OnView(v, <<"create_mv_delta", "publish", "annotate">>)
CreateScript(v, replace) ==
    OnView(v, (IF replace THEN ReplaceScript ELSE <<"drop_stale", "duplicate">>)
              \o <<"load", "create_view">>)
    \o Each("create_delta", Sources[v])
    \o OnView(v, <<"create_mv_delta", "cursors", "publish", "annotate">>)
UndoWithoutData(v) ==
    OnView(v, <<"drop_view", "drop_mv_delta", "drop_cursors", "unpublish">>)
CleanupScript(v) ==
    OnView(v, <<"drop_view", "drop_data", "drop_mv_delta", "drop_cursors", "unpublish">>)

SourcesOf(v) == {t \in Tables : <<v, t>> \in DOMAIN cursor}
Unregister(v) == OnView(v, <<"unpublish", "drop_cursors", "drop_mv_delta", "drop_data">>)
LockedForever(v) == Unregister(v) \o Each("drop_delta", SourcesOf(v))
\* The rule that the optimizer runs for DROP VIEW, under the view's mutex.
RuleScript(v) == Unregister(v) \o Each("drop_delta", SourcesOf(v)) \o <<Do("unlock", v)>>
\* The same for a view that depends on a table dropped with CASCADE.
DependentScript(v) ==
    Unregister(v) \o <<Do("drop_view", v)>> \o Each("drop_delta", SourcesOf(v)) \o <<Do("unlock", v)>>
CascadeScript(t) ==
    Each("lock_dependent", {v \in Views : t \in SourcesOf(v)}) \o <<Do("drop_base", t)>>

-----------------------------------------------------------------------------
(* Statements that sessions issue.                                         *)

NothingExists(v) == FALSE
\* SELECT * FROM v LIMIT 0, and the same from its data table.
RelationExists(v) == data[v] # Absent

Scripts(s) == IF session[s] = Idle THEN <<>> ELSE session[s].script
IsAbout(script, v) == \E n \in DOMAIN script : script[n].of = v
Mentions(s, v) == IsAbout(Scripts(s), v)
Start(s, op, v, script) ==
    /\ session[s] = Idle /\ issued < MaxDdl
    /\ issued' = issued + 1
    /\ session' = [session EXCEPT ![s] = [op |-> op, view |-> v, script |-> script, undo |-> FALSE]]
    /\ disputed' = disputed \union {x \in Views : IsAbout(script, x) /\ \E r \in Sessions : Mentions(r, x)}
    /\ UNCHANGED <<now, tables, objects, catalog, lock, write, refresh, missed, broken, failures, crashes>>
CreateView(s, v) ==
    /\ ~RelationExists(v)
    /\ \A t \in Sources[v] : base[t] # Absent
    /\ Start(s, "create", v, CreateScript(v, FALSE))
ReplaceView(s, v) ==
    /\ \A t \in Sources[v] : base[t] # Absent
    /\ Start(s, "replace", v, CreateScript(v, TRUE))
DropView(s, v) ==
    /\ v \in shown
    /\ Start(s, "drop", v, <<Do("drop_view", v)>>)
DropTable(s, t) ==
    /\ base[t] # Absent
    /\ Start(s, "cascade", Idle, CascadeScript(t))

-----------------------------------------------------------------------------
(* Statements of scripts.                                                  *)

Current(s, what) == session[s] # Idle /\ session[s].script # <<>> /\ Head(session[s].script).do = what
Of(s) == Head(session[s].script).of
Prepend(s, script) == session' = [session EXCEPT ![s].script = script \o Tail(@)]
Advance(s) == session' = [session EXCEPT ![s].script = Tail(@)]
Statement(s, what) == Current(s, what) /\ Advance(s)

Without(f, S) == [x \in DOMAIN f \ S |-> f[x]]
CursorsOf(v) == {v} \X Tables
\* A row for each source of v, and the rows that are there.
WithCursors(v, at) ==
    [p \in ({v} \X Sources[v]) \union DOMAIN cursor |->
        IF p \in {v} \X Sources[v] THEN at[p[2]] ELSE cursor[p]]

Written(v) == UNION {IF base[t] = Absent THEN {} ELSE base[t] : t \in Sources[v]}

\* What a statement creates is there already, or what it reads is gone.
Refused(s) ==
    \/ Current(s, "duplicate") /\ Of(s) \in published
    \/ Current(s, "load") /\ (data[Of(s)] # Absent \/ \E t \in Sources[Of(s)] : base[t] = Absent)
    \/ Current(s, "create_view") /\ (Of(s) \in shown \/ data[Of(s)] = Absent)
    \/ Current(s, "create_delta") /\ base[Of(s)] = Absent
    \/ Current(s, "create_mv_delta") /\ data[Of(s)] = Absent

DropStale(s) ==
    /\ Statement(s, "drop_stale")
    /\ published' = IF Of(s) \notin shown /\ data[Of(s)] = Absent
                    THEN published \ {Of(s)} ELSE published
    /\ UNCHANGED <<now, tables, objects, cursor, lock, write, refresh, ghosts, bounds>>
CheckDuplicate(s) ==
    /\ Statement(s, "duplicate") /\ ~Refused(s)
    /\ UNCHANGED <<now, tables, objects, catalog, lock, write, refresh, ghosts, bounds>>
Load(s) ==
    /\ Statement(s, "load") /\ ~Refused(s)
    /\ data' = [data EXCEPT ![Of(s)] = Written(Of(s))]
    /\ UNCHANGED <<now, tables, deltaOf, shown, catalog, lock, write, refresh, ghosts, bounds>>
ShowView(s) ==
    /\ Statement(s, "create_view") /\ ~Refused(s)
    /\ shown' = shown \union {Of(s)}
    /\ UNCHANGED <<now, tables, data, deltaOf, catalog, lock, write, refresh, ghosts, bounds>>
CreateSourceDelta(s) ==
    /\ Statement(s, "create_delta") /\ ~Refused(s)
    /\ delta' = [delta EXCEPT ![Of(s)] = IF @ = Absent THEN {} ELSE @]
    /\ UNCHANGED <<now, base, objects, catalog, lock, write, refresh, ghosts, bounds>>
CreateViewDelta(s) ==
    /\ Statement(s, "create_mv_delta") /\ ~Refused(s)
    /\ deltaOf' = deltaOf \union {Of(s)}
    /\ UNCHANGED <<now, tables, data, shown, catalog, lock, write, refresh, ghosts, bounds>>
\* The rows of openivm_delta_tables, with last_update now().
InFlight(v) == {write[w].row : w \in {x \in Writers : write[x] # Idle /\ write[x].table \in Sources[v]}}
Register(s) ==
    /\ Statement(s, "cursors")
    /\ cursor' = WithCursors(Of(s), [t \in Sources[Of(s)] |-> now])
    /\ missed' = [missed EXCEPT ![Of(s)] =
                    (Written(Of(s)) \union InFlight(Of(s)))
                    \ (IF data[Of(s)] = Absent THEN {} ELSE data[Of(s)])]
    /\ UNCHANGED <<now, tables, objects, published, lock, write, refresh, broken, disputed, bounds>>
Publish(s) ==
    /\ Statement(s, "publish")
    /\ published' = published \union {Of(s)}
    /\ broken' = broken \ {Of(s)}
    /\ UNCHANGED <<now, tables, objects, cursor, lock, write, refresh, missed, disputed, bounds>>
\* The statements after it: the other metadata of the view, by UPDATE.
Annotate(s) ==
    /\ Statement(s, "annotate")
    /\ UNCHANGED <<now, tables, objects, catalog, lock, write, refresh, ghosts, bounds>>

\* DROP VIEW of a view that openivm_views knows runs the rule first, whoever
\* issues it.
Intercept(s) ==
    /\ Current(s, "drop_view") /\ Of(s) \in published
    /\ Prepend(s, OnView(Of(s), <<"lock", "hide">>))
    /\ UNCHANGED <<now, tables, objects, catalog, lock, write, refresh, ghosts, bounds>>
HideView(s) ==
    /\ \/ Statement(s, "hide")
       \/ Statement(s, "drop_view") /\ Of(s) \notin published
    /\ shown' = shown \ {Of(s)}
    /\ UNCHANGED <<now, tables, data, deltaOf, catalog, lock, write, refresh, ghosts, bounds>>
DropData(s) ==
    /\ Statement(s, "drop_data")
    /\ data' = [data EXCEPT ![Of(s)] = Absent]
    /\ UNCHANGED <<now, tables, deltaOf, shown, catalog, lock, write, refresh, ghosts, bounds>>
DropViewDelta(s) ==
    /\ Statement(s, "drop_mv_delta")
    /\ deltaOf' = deltaOf \ {Of(s)}
    /\ UNCHANGED <<now, tables, data, shown, catalog, lock, write, refresh, ghosts, bounds>>
DropCursors(s) ==
    /\ Statement(s, "drop_cursors")
    /\ cursor' = Without(cursor, CursorsOf(Of(s)))
    /\ UNCHANGED <<now, tables, objects, published, lock, write, refresh, ghosts, bounds>>
Unpublish(s) ==
    /\ Statement(s, "unpublish")
    /\ published' = published \ {Of(s)}
    /\ UNCHANGED <<now, tables, objects, cursor, lock, write, refresh, ghosts, bounds>>
Registered(t) == \E v \in Views : <<v, t>> \in DOMAIN cursor
\* A delta table goes with the last view that reads it.
DropSourceDelta(s) ==
    /\ Statement(s, "drop_delta")
    /\ delta' = [delta EXCEPT ![Of(s)] = IF Registered(Of(s)) THEN @ ELSE Absent]
    /\ UNCHANGED <<now, base, objects, catalog, lock, write, refresh, ghosts, bounds>>
DropBase(s) ==
    /\ Statement(s, "drop_base")
    /\ \A w \in Writers : write[w] # Idle => write[w].table # Of(s)
    /\ base' = [base EXCEPT ![Of(s)] = Absent]
    /\ UNCHANGED <<now, delta, objects, catalog, lock, write, refresh, ghosts, bounds>>
LockView(s) ==
    /\ \/ Current(s, "lock") /\ Prepend(s, RuleScript(Of(s)))
       \/ Current(s, "lock_dependent") /\ Prepend(s, DependentScript(Of(s)))
    /\ lock[Of(s)] = Idle
    /\ lock' = [lock EXCEPT ![Of(s)] = s]
    /\ UNCHANGED <<now, tables, objects, catalog, write, refresh, ghosts, bounds>>
UnlockView(s) ==
    /\ Statement(s, "unlock")
    /\ lock' = [lock EXCEPT ![Of(s)] = Idle]
    /\ UNCHANGED <<now, tables, objects, catalog, write, refresh, ghosts, bounds>>

InRule(s) == \E n \in DOMAIN session[s].script : session[s].script[n].do \in {"lock", "unlock"}
Creating(s) ==
    /\ session[s] # Idle /\ session[s].script # <<>>
    /\ session[s].op \in {"create", "replace"} /\ ~session[s].undo /\ ~InRule(s)
\* The statements of CREATE end at the first that fails, and are undone.
FailCreate(s) ==
    /\ Creating(s)
    /\ \/ Refused(s) /\ UNCHANGED failures
       \/ failures < MaxFailures /\ failures' = failures + 1
    /\ session' = [session EXCEPT ![s].undo = TRUE, ![s].script = CleanupScript(session[s].view)]
    /\ UNCHANGED <<now, tables, objects, catalog, lock, write, refresh, ghosts, issued, crashes>>
\* Errors of the undo script and of the rule's statements are not looked at;
\* and the user's own DROP may fail when the rule has done its work.
PassOver(s) ==
    /\ session[s] # Idle /\ session[s].script # <<>> /\ ~Creating(s)
    /\ Head(session[s].script).do \notin {"lock", "lock_dependent", "unlock"}
    /\ failures < MaxFailures /\ failures' = failures + 1
    /\ broken' = IF Of(s) \in Views THEN broken \union {Of(s)} ELSE broken
    /\ Advance(s)
    /\ UNCHANGED <<now, tables, objects, catalog, lock, write, refresh, missed, disputed, issued, crashes>>
Finish(s) ==
    /\ session[s] # Idle /\ session[s].script = <<>>
    /\ session' = [session EXCEPT ![s] = Idle]
    /\ UNCHANGED <<now, tables, objects, catalog, lock, write, refresh, ghosts, bounds>>

Step(s) ==
    \/ DropStale(s) \/ CheckDuplicate(s) \/ Load(s) \/ ShowView(s) \/ CreateSourceDelta(s)
    \/ CreateViewDelta(s) \/ Register(s) \/ Publish(s) \/ Annotate(s) \/ Intercept(s) \/ HideView(s)
    \/ DropData(s) \/ DropViewDelta(s) \/ DropCursors(s) \/ Unpublish(s) \/ DropSourceDelta(s) \/ DropBase(s)
    \/ LockView(s) \/ UnlockView(s) \/ Finish(s)

-----------------------------------------------------------------------------
(* Writes and refreshes.                                                   *)

\* The insert rule captures the row, if the table has a delta table, unless
\* a refresh holds that table's mutex.
Capture(w, t) ==
    /\ write[w] = Idle /\ base[t] # Absent /\ now <= MaxRows
    /\ \A v \in Views : refresh[v] # Idle => t \notin Sources[v]
    /\ delta' = [delta EXCEPT ![t] = IF @ = Absent THEN @ ELSE @ \union {now}]
    /\ write' = [write EXCEPT ![w] = [table |-> t, row |-> now]]
    /\ now' = now + 1
    /\ UNCHANGED <<base, objects, catalog, session, lock, refresh, ghosts, bounds>>
CommitWrite(w) ==
    /\ write[w] # Idle
    /\ base' = [base EXCEPT ![write[w].table] = @ \union {write[w].row}]
    /\ write' = [write EXCEPT ![w] = Idle]
    /\ UNCHANGED <<now, delta, objects, catalog, session, lock, refresh, ghosts, bounds>>

Pending(v, t) == {r \in delta[t] : r >= cursor[<<v, t>>]}
Whole(v) ==
    /\ v \in published \intersect shown \intersect deltaOf
    /\ data[v] # Absent
    /\ \A t \in Sources[v] : <<v, t>> \in DOMAIN cursor /\ delta[t] # Absent
Gone(v) ==
    /\ v \notin published \union shown \union deltaOf
    /\ data[v] = Absent
    /\ CursorsOf(v) \intersect DOMAIN cursor = {}

BeginRefresh(v) ==
    /\ Whole(v) /\ lock[v] = Idle
    /\ lock' = [lock EXCEPT ![v] = v]
    /\ refresh' = [refresh EXCEPT ![v] =
                     [at |-> now, rows |-> [t \in Sources[v] |-> Pending(v, t)]]]
    /\ UNCHANGED <<now, tables, objects, catalog, session, write, ghosts, bounds>>
NextCursor(v, t) ==
    IF refresh[v].rows[t] = {} THEN refresh[v].at ELSE Max(refresh[v].rows[t]) + 1
UnreadByAll(t, cursors) ==
    {r \in delta[t] : \A v \in Views : <<v, t>> \in DOMAIN cursors => r >= cursors[<<v, t>>]}
\* What some view that is registered for the table has not read.
Unread(t, cursors) ==
    {r \in delta[t] : \E v \in Views : <<v, t>> \in DOMAIN cursors /\ r >= cursors[<<v, t>>]}
\* Nothing is dropped under a refresh: DROP takes the view's mutex.
EndRefresh(v) ==
    /\ refresh[v] # Idle /\ Whole(v)
    /\ cursor' = WithCursors(v, [t \in Sources[v] |-> NextCursor(v, t)])
    /\ data' = [data EXCEPT ![v] = @ \union UNION {refresh[v].rows[t] : t \in Sources[v]}]
    /\ delta' = [t \in Tables |-> IF t \in Sources[v] THEN Unread(t, cursor') ELSE delta[t]]
    /\ refresh' = [refresh EXCEPT ![v] = Idle]
    /\ lock' = [lock EXCEPT ![v] = Idle]
    /\ UNCHANGED <<now, base, deltaOf, shown, published, session, write, ghosts, bounds>>
\* The process dies: what was committed stays.
Crash ==
    /\ crashes < MaxCrashes /\ crashes' = crashes + 1
    /\ broken' = broken \union {v \in Views : \E s \in Sessions :
                    session[s] # Idle /\ \E n \in DOMAIN session[s].script : session[s].script[n].of = v}
    /\ session' = [s \in Sessions |-> Idle]
    /\ write' = [w \in Writers |-> Idle]
    /\ refresh' = [v \in Views |-> Idle]
    /\ lock' = [v \in Views |-> Idle]
    /\ UNCHANGED <<now, tables, objects, catalog, missed, disputed, issued, failures>>

Init ==
    /\ now = 1
    /\ base = [t \in Tables |-> {}] /\ delta = [t \in Tables |-> Absent]
    /\ data = [v \in Views |-> Absent] /\ deltaOf = {} /\ shown = {}
    /\ published = {} /\ cursor = <<>>
    /\ session = [s \in Sessions |-> Idle] /\ lock = [v \in Views |-> Idle]
    /\ write = [w \in Writers |-> Idle] /\ refresh = [v \in Views |-> Idle]
    /\ missed = [v \in Views |-> {}] /\ broken = {} /\ disputed = {}
    /\ issued = 0 /\ failures = 0 /\ crashes = 0
Next ==
    \/ \E s \in Sessions :
          \/ \E v \in Views : CreateView(s, v) \/ ReplaceView(s, v) \/ DropView(s, v)
          \/ \E t \in Tables : DropTable(s, t)
          \/ Step(s) \/ FailCreate(s) \/ PassOver(s)
    \/ \E w \in Writers : CommitWrite(w) \/ \E t \in Tables : Capture(w, t)
    \/ \E v \in Views : BeginRefresh(v) \/ EndRefresh(v)
    \/ Crash
Spec == Init /\ [][Next]_vars

-----------------------------------------------------------------------------
(* Properties.                                                             *)

\* A view's mutex is held by a refresh that runs, or by a session that has
\* still to release it.
TypeOK ==
    /\ now \in 1 .. MaxRows + 1
    /\ \A t \in Tables : base[t] = Absent \/ base[t] \subseteq 1 .. now - 1
    /\ \A t \in Tables : delta[t] = Absent \/ delta[t] \subseteq 1 .. now - 1
    /\ deltaOf \union shown \union published \union broken \union disputed \subseteq Views
    /\ \A p \in DOMAIN cursor : p[2] \in Sources[p[1]] /\ cursor[p] \in 1 .. now
    /\ session \in [Sessions -> {Idle} \union Jobs]
    /\ \A v \in Views : lock[v] \in {Idle, v} \union Sessions
    /\ \A v \in Views : lock[v] = v <=> refresh[v] # Idle
    /\ \A v \in Views : lock[v] \in Sessions =>
          \E n \in DOMAIN Scripts(lock[v]) : Scripts(lock[v])[n] = Do("unlock", v)

\* When no script is at work on a view that no crash and no failed undo has
\* touched, all of it is there, or none.
AllOrNothing ==
    \A v \in Views \ broken :
        (\A s \in Sessions : ~Mentions(s, v)) => Whole(v) \/ Gone(v)

\* A row that a view does not show is pending for it, unless it was written
\* while the view was created.
OnlyWindowIsMissed ==
    \A v \in Views \ broken :
        Whole(v) =>
            \A t \in Sources[v] :
                base[t] # Absent =>
                    base[t] \subseteq data[v] \union Pending(v, t) \union missed[v]

\* No pending row is in the view already.
PendingIsNew ==
    \A v \in Views \ broken :
        Whole(v) => \A t \in Sources[v] : Pending(v, t) \intersect data[v] = {}

\* The undo of a CREATE drops whatever has the view's name.  A CREATE that
\* fails before it has published its own view finds no other that is published
\* and has its stored table, one published since CREATE looked for it included,
\* unless another session was at work on the same view meanwhile.
FailsOver(s, v) ==
    /\ FailCreate(s) /\ session[s].op = "create" /\ session[s].view = v
    /\ Do("publish", v) \in Range(session[s].script)
    /\ v \in published /\ data[v] # Absent
FailedCreateSparesViews ==
    [][\A s \in Sessions : \A v \in Views \ disputed : ~FailsOver(s, v)]_vars
\* Without the exception, which the comment in core/parser.cpp does not make,
\* this is false with two sessions: what CREATE looked for may have come since.
FailedCreateSparesAll ==
    [][\A s \in Sessions : \A v \in Views : ~FailsOver(s, v)]_vars
=============================================================================
