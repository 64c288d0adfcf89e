---------------------------- MODULE Maintenance ----------------------------
(***************************************************************************)
(* A materialized view kept up to date by delta rules: what the stored     *)
(* table, its auxiliary table and the delta view hold as statements change  *)
(* the sources and refreshes bring the view up to date, however many       *)
(* statements a refresh finds pending.  `copy' is a second view,            *)
(* SELECT * FROM the first, which every refresh cascades to.               *)
(*                                                                         *)
(* Refreshes are whole here; RefreshProtocol takes them apart.             *)
(***************************************************************************)
EXTENDS RefreshCompiler

CONSTANTS
    Views,          \* the views, by name
    MaxStatements   \* how many statements change the sources

VARIABLES
    view,     \* the view's name
    row,      \* its row of openivm_views
    db,       \* the source tables
    log,      \* the delta rows of each source that the view has not read
    data,     \* the stored table
    aux,      \* the auxiliary table
    copy,     \* the stored table of the view that reads this one
    issued    \* the number of statements so far
vars == <<view, row, db, log, data, aux, copy, issued>>

V == Views[view]
Tables == DOMAIN db
NoRows == [ins |-> Empty, del |-> Empty]
OldDb == [t \in Tables |-> Net(Minus(db[t], Unread(log[t])))]
Env == [db |-> db, old |-> OldDb, log |-> log, fks |-> V.fks, lake |-> V.lake]

\* What a query of the view returns: the user's columns of the rows that
\* meet the condition of HAVING.
ShownRows(i, R) ==
    Image(Only(R, LAMBDA x : i.where = <<>> \/ Above(x[i.where[1]], i.where[2])),
          LAMBDA x : Columns(x, i.shown))

-----------------------------------------------------------------------------
\* CREATE MATERIALIZED VIEW loads the stored table and the auxiliary one.
Init ==
    /\ view \in DOMAIN Views
    /\ row = Described(V)
    /\ db \in V.start
    /\ log = [t \in DOMAIN db |-> NoRows]
    /\ data = Net(Eval(row.plan, db))
    /\ aux = BuildAuxState(row, db)
    /\ copy = data
    /\ issued = 0

\* DuckDB's constraints: rows referred to exist, and their keys are unique.
Referential(d) ==
    \A fk \in V.fks :
        LET rows == DOMAIN d[fk[2]]
        IN /\ \A x \in DOMAIN d[fk[1]] : x[1] = NULL \/ \E y \in rows : y[1] = x[1]
           /\ \A x, y \in rows : d[fk[2]][x] = 1 /\ (x[1] = y[1] => x = y)

\* A statement writes its rows and their delta rows in one transaction.
Write(t, ins, del) ==
    /\ issued < MaxStatements
    /\ db' = [db EXCEPT ![t] = Net(Minus(Plus(@, ins), del))]
    /\ Referential(db')
    /\ log' = [log EXCEPT ![t] = [ins |-> Plus(@.ins, ins), del |-> Plus(@.del, del)]]
    /\ issued' = issued + 1
    /\ UNCHANGED <<view, row, data, aux, copy>>

Insert(t, x) == x \in V.rows[t] /\ Write(t, Single(x), Empty)
\* WHERE takes every copy of a row.
Delete(t, x) == x \in DOMAIN db[t] \intersect V.rows[t] /\ Write(t, Empty, x :> db[t][x])
Update(t, x, y) ==
    /\ x \in DOMAIN db[t] \intersect V.rows[t] /\ y \in V.rows[t] \ {x}
    /\ Write(t, y :> db[t][x], x :> db[t][x])

\* Brings the view up to date, and then the one that reads its delta view.
Cascade(delta) ==
    copy' = IF V.chained THEN Net(CompileProjectionsFilters(delta, FALSE, copy)) ELSE copy
Complete(D, new) ==
    /\ data' = Net(new.data)
    /\ aux' = new.aux
    /\ Cascade(BuildCompactDeltaViewSQL(Companion(row, D, data, new.data)))
    /\ log' = [t \in Tables |-> NoRows]
    /\ UNCHANGED <<view, row, db, issued>>
Apply(D) == Complete(D, Upsert(row, Env, D, data, aux))
Refresh == Active(row.plan, Env) # {} /\ Apply(Delta(row.plan, Env))

\* A refresh that finds no delta rows does nothing.
SkipEmptyRefresh == Active(row.plan, Env) = {} /\ UNCHANGED vars

Next ==
    \/ \E t \in Tables : \E x \in V.rows[t] : Insert(t, x)
    \/ \E t \in Tables : \E x \in DOMAIN db[t] :
            Delete(t, x)
    \/ \E t \in Tables : \E x \in DOMAIN db[t] : \E y \in V.rows[t] : Update(t, x, y)
    \/ Refresh
    \/ SkipEmptyRefresh
Spec == Init /\ [][Next]_vars

-----------------------------------------------------------------------------
(* Properties.                                                             *)

TypeOK ==
    /\ view \in DOMAIN Views
    /\ issued \in 0 .. MaxStatements
    /\ \A t \in Tables : \A x \in DOMAIN db[t] : db[t][x] > 0
    /\ \A t \in Tables : DOMAIN log[t].ins \union DOMAIN log[t].del \subseteq V.rows[t]
    /\ \A x \in DOMAIN data : Len(x) = Len(row.roles) /\ data[x] > 0

\* A view with nothing pending shows what its query answers.
Exact ==
    Active(row.plan, Env) = {} => Same(ShownRows(row, data), Eval(V.query, db))

\* The stored query, hidden columns and HAVING's condition taken off, is the
\* query that the user wrote, whatever the tables hold.
RewriteKeepsQuery == Same(ShownRows(row, Eval(row.plan, db)), Eval(V.query, db))

\* The plan of the change computes the change, for plans without aggregates
\* and outer joins.
DeltaIsChange ==
    V.linear => Same(Delta(row.plan, Env), Minus(Eval(row.plan, db), Eval(row.plan, OldDb)))

\* The auxiliary table describes the sources as the view last read them.
AuxIsOfCursor ==
    LET was == BuildAuxState(row, OldDb)
    IN IF row.type = "SIMPLE_AGGREGATE"
       THEN \A k \in DOMAIN was \union DOMAIN aux :
                Zero(At(was, k)) = Zero(At(aux, k))
       ELSE aux = was

\* A view whose query ends in an aggregate stores one row for each group.
OneRowPerGroup ==
    OverAggregate(row.plan, TRUE) =>
        \A x, y \in DOMAIN data :
            /\ data[x] = 1
            /\ Columns(x, row.keys) = Columns(y, row.keys) => x = y

\* The delta view carries exactly what changed in the stored table.
CopyFollows == V.chained => copy = data
=============================================================================
