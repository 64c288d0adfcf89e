------------------------------ MODULE Queries ------------------------------
(***************************************************************************)
(* The queries of materialized views and what DuckDB answers to them: the  *)
(* reference that a maintained view is compared with.  A row is a tuple of *)
(* integers and NULL; columns are counted from 1.  An average is the whole *)
(* quotient: it is computed the same way wherever the code computes it.    *)
(*                                                                         *)
(* A projection lists items: what each computes, one column or the         *)
(* quotient of two, and its role, "user" for a column of the query and     *)
(* another name for one the extension adds.  So do aggregates.             *)
(***************************************************************************)
EXTENDS ZSets

CONSTANT NULL

Scan(t)              == [op |-> "scan", table |-> t]
Filter(q, c, n)      == [op |-> "filter", of |-> q, col |-> c, above |-> n]
Compute(q, items)    == [op |-> "project", of |-> q, items |-> items]
UnionAll(q, r)       == [op |-> "union", all |-> TRUE, left |-> q, right |-> r]
Union(q, r)          == [op |-> "union", all |-> FALSE, left |-> q, right |-> r]
Join(kind, q, r, on) == [op |-> "join", kind |-> kind, left |-> q, right |-> r, on |-> on]
Semi(kind, q, r, on) == [op |-> "semi", kind |-> kind, left |-> q, right |-> r, on |-> on]
Group(q, keys, aggs) == [op |-> "group", of |-> q, keys |-> keys, aggs |-> aggs]
Having(q, c, n)      == [op |-> "having", of |-> q, col |-> c, above |-> n]
Distinct(q)          == [op |-> "distinct", of |-> q]
Window(q, part, agg) == [op |-> "window", of |-> q, part |-> part, agg |-> agg]
Rows(R, w)           == [op |-> "rows", rows |-> R, width |-> w]

Hidden(fn, c, role) == [fn |-> fn, col |-> c, as |-> role]
Agg(fn, c)          == Hidden(fn, c, "user")
Item(of, role)      == [of |-> of, as |-> role]
Project(q, cols)    == Compute(q, [i \in 1 .. Len(cols) |-> Item(<<cols[i]>>, "user")])

TableWidth == 2
RECURSIVE Width(_)
Width(q) ==
    CASE q.op = "scan" -> TableWidth
      [] q.op = "rows" -> q.width
      [] q.op = "project" -> Len(q.items)
      [] q.op = "group" -> Len(q.keys) + Len(q.aggs)
      [] q.op = "window" -> Width(q.of) + 1
      [] q.op = "join" -> Width(q.left) + Width(q.right)
      [] q.op \in {"union", "semi"} -> Width(q.left)
      [] OTHER -> Width(q.of)

Nulls(n) == [i \in 1 .. n |-> NULL]
Columns(x, cols) == [i \in 1 .. Len(cols) |-> x[cols[i]]]
Quotient(s, n) == IF s = NULL \/ n \in {NULL, 0} THEN NULL ELSE s \div n
Items(x, items) ==
    [i \in 1 .. Len(items) |->
        LET of == items[i].of
        IN IF Len(of) = 1 THEN x[of[1]] ELSE Quotient(x[of[1]], x[of[2]])]
Above(v, n) == v # NULL /\ v > n
Equal(x, y) == x # NULL /\ y # NULL /\ x = y

\* The aggregate a over the rows X of R, weights counted.
Aggregate(a, R, X) ==
    LET V == IF a.fn = "count_star" THEN X ELSE {x \in X : x[a.col] # NULL}
        sum == MapThenSumSet(LAMBDA x : R[x] * x[a.col], V)
    IN CASE a.fn \in {"count_star", "count"} -> Total(R, V)
         [] a.fn = "count_distinct" -> Cardinality({x[a.col] : x \in V})
         [] V = {} -> NULL
         [] a.fn = "sum" -> sum
         [] a.fn = "avg" -> Quotient(sum, Total(R, V))
         [] a.fn = "min" -> Min({x[a.col] : x \in V})
         [] a.fn = "max" -> Max({x[a.col] : x \in V})

\* Without GROUP BY an aggregate answers one row, even over nothing.
Grouped(R, keys, aggs) ==
    LET of == [x \in DOMAIN R |-> Columns(x, keys)]
        row(k) == k \o [i \in 1 .. Len(aggs) |->
                            Aggregate(aggs[i], R, {x \in DOMAIN R : of[x] = k})]
        ks == IF keys = <<>> THEN {<<>>} ELSE {of[x] : x \in DOMAIN R}
    IN Once({row(k) : k \in ks})

On(on, x, y) == Equal(x[on[1]], y[on[2]])
Unmatched(R, S, M(_, _)) ==
    Only(R, LAMBDA x : \A y \in DOMAIN S : ~M(x, y))

\* wl and wr are the widths of the two sides.
Joined(kind, L, R, on, wl, wr) ==
    LET M(x, y) == On(on, x, y)
        inner == Pairs(L, R, M)
        leftOnly == Image(Unmatched(L, R, M), LAMBDA x : x \o Nulls(wr))
        rightOnly == Image(Unmatched(R, L, LAMBDA y, x : M(x, y)),
                           LAMBDA y : Nulls(wl) \o y)
    IN Plus(inner, Plus(IF kind \in {"left", "full"} THEN leftOnly ELSE Empty,
                        IF kind \in {"right", "full"} THEN rightOnly ELSE Empty))

SemiJoined(kind, L, R, on) ==
    Only(L, LAMBDA x : (kind = "semi") = (\E y \in DOMAIN R : On(on, x, y)))

\* Every row beside the aggregate of its partition.
Windowed(R, part, agg) ==
    LET peers(x) == {y \in DOMAIN R : Columns(y, part) = Columns(x, part)}
    IN Image(R, LAMBDA x : Append(x, Aggregate(agg, R, peers(x))))

RECURSIVE Eval(_, _)
Eval(q, db) ==
    CASE q.op = "scan" -> db[q.table]
      [] q.op \in {"filter", "having"} ->
            Only(Eval(q.of, db), LAMBDA x : Above(x[q.col], q.above))
      [] q.op = "rows" -> q.rows
      [] q.op = "project" -> Image(Eval(q.of, db), LAMBDA x : Items(x, q.items))
      [] q.op = "union" ->
            LET both == Plus(Eval(q.left, db), Eval(q.right, db))
            IN IF q.all THEN both ELSE Once(DOMAIN both)
      [] q.op = "join" ->
            Joined(q.kind, Eval(q.left, db), Eval(q.right, db), q.on,
                   Width(q.left), Width(q.right))
      [] q.op = "semi" -> SemiJoined(q.kind, Eval(q.left, db), Eval(q.right, db), q.on)
      [] q.op = "group" -> Grouped(Eval(q.of, db), q.keys, q.aggs)
      [] q.op = "distinct" -> Once(DOMAIN Eval(q.of, db))
      [] q.op = "window" -> Windowed(Eval(q.of, db), q.part, q.agg)

RECURSIVE Leaves(_)
Leaves(q) ==
    CASE q.op = "scan" -> <<q.table>>
      [] q.op = "rows" -> <<>>
      [] q.op \in {"join", "semi", "union"} -> Leaves(q.left) \o Leaves(q.right)
      [] OTHER -> Leaves(q.of)
=============================================================================
