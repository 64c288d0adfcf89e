---------------------------- MODULE PlanRewrite ----------------------------
(***************************************************************************)
(* What CREATE MATERIALIZED VIEW makes of the query it stores: the passes   *)
(* that add hidden columns, and the split of HAVING into a condition on the *)
(* view.  Columns are positions, so a hidden column can only be added above *)
(* joins and unions: DISTINCT and AVG below one are left out.              *)
(***************************************************************************)
EXTENDS Queries

Below(q, F(_)) ==
    CASE q.op \in {"scan", "rows"} -> q
      [] q.op \in {"join", "semi", "union"} -> [q EXCEPT !.left = F(@), !.right = F(@)]
      [] OTHER -> [q EXCEPT !.of = F(@)]

RECURSIVE RewriteDistinct(_)
RewriteDistinct(q) ==
    IF q.op = "distinct"
    THEN Group(q.of, [i \in 1 .. Width(q.of) |-> i],
               <<Hidden("count_star", 0, "distinct_count")>>)
    ELSE Below(q, RewriteDistinct)

-----------------------------------------------------------------------------
(* A projection over an aggregate, with HAVING between them at the root.    *)

OverAggregate(q, root) ==
    /\ q.op = "project"
    /\ \/ q.of.op = "group"
       \/ root /\ q.of.op = "having" /\ q.of.of.op = "group"
AggregateOf(q) == IF q.of.op = "group" THEN q.of ELSE q.of.of
WithAggregate(q, aggs, items) ==
    IF q.of.op = "group" THEN [q EXCEPT !.of.aggs = aggs, !.items = items]
    ELSE [q EXCEPT !.of.of.aggs = aggs, !.items = items]

AverageOfAllRows(a) ==
    IF a.fn = "avg" THEN <<Hidden("sum", a.col, "sum"), Hidden("count_star", 0, "count")>> ELSE <<a>>
AverageParts(a) ==
    IF a.fn = "avg" THEN <<Hidden("sum", a.col, "sum"), Hidden("count", a.col, "count")>> ELSE <<a>>
\* AVG becomes a quotient of two aggregates, which are also stored.  The
\* condition of HAVING keeps the column number it had.
Decompose(q) ==
    LET g == AggregateOf(q)
        K == Len(g.keys)
        isAvg(i) == g.aggs[i].fn = "avg"
        at(i) == K + i + Cardinality({j \in 1 .. i - 1 : isAvg(j)})
        moved(it) == IF it.of[1] <= K THEN it
                     ELSE IF isAvg(it.of[1] - K)
                     THEN [it EXCEPT !.of = <<at(it.of[1] - K), at(it.of[1] - K) + 1>>]
                     ELSE [it EXCEPT !.of = <<at(it.of[1] - K)>>]
        stored(i) == IF isAvg(i) THEN <<Item(<<at(i)>>, "sum"), Item(<<at(i) + 1>>, "count")>>
                     ELSE <<>>
    IN WithAggregate(q, FlattenSeq([i \in 1 .. Len(g.aggs) |-> AverageParts(g.aggs[i])]),
                     [i \in 1 .. Len(q.items) |-> moved(q.items[i])]
                     \o FlattenSeq([i \in 1 .. Len(g.aggs) |-> stored(i)]))

RECURSIVE DecomposeBelow(_), PropagateHidden(_)
DecomposeBelow(q) ==
    LET p == Below(q, DecomposeBelow)
    IN IF OverAggregate(p, FALSE) THEN Decompose(p) ELSE p
RewriteDerivedAggregates(q) ==
    LET p == Below(q, DecomposeBelow)
    IN IF OverAggregate(p, TRUE) THEN Decompose(p) ELSE p

Counted(a) == (a.fn = "count_star" /\ a.as = "user") \/ a.as = "distinct_count"
InjectGroupCountStar(q) ==
    IF OverAggregate(q, TRUE)
    THEN LET g == AggregateOf(q)
         IN IF g.keys = <<>> \/ \E i \in DOMAIN g.aggs : Counted(g.aggs[i]) THEN q
            ELSE WithAggregate(q, Append(g.aggs, Hidden("count_star", 0, "count_star")),
                               Append(q.items, Item(<<Width(g) + 1>>, "count_star")))
    ELSE q

\* A projection passes on the parts of AVG that the one below it stores.
PropagateHidden(q) ==
    LET p == Below(q, PropagateHidden)
        roles == {p.items[i].as : i \in DOMAIN p.items}
        lost == SelectSeq([i \in 1 .. Len(p.of.items) |-> Item(<<i>>, p.of.items[i].as)],
                          LAMBDA it : it.as \in {"sum", "count"} \ roles)
    IN IF p.op = "project" /\ p.of.op = "project" THEN [p EXCEPT !.items = @ \o lost] ELSE p

-----------------------------------------------------------------------------
(* Outer joins: the keys of the first one, as columns of a projection, or   *)
(* the numbers of matches, as columns of an aggregate.                      *)

NoJoin == [kind |-> "none", left |-> 0, right |-> 0]
RECURSIVE FirstOuter(_), Exposed(_)
\* In the columns of the join tree.
FirstOuter(q) ==
    CASE q.op = "join" /\ q.kind # "inner" ->
            [kind |-> q.kind, left |-> q.on[1], right |-> Width(q.left) + q.on[2]]
      [] q.op = "join" /\ q.kind = "inner" ->
            LET l == FirstOuter(q.left)
                r == FirstOuter(q.right)
                w == Width(q.left)
            IN IF l # NoJoin \/ r = NoJoin THEN l
               ELSE [r EXCEPT !.left = @ + w, !.right = @ + w]
      [] q.op \in {"scan", "rows", "semi", "union"} -> NoJoin
      [] OTHER -> FirstOuter(q.of)
Preserved(o) == IF o.kind = "right" THEN o.right ELSE o.left
NullSide(o) == IF o.kind = "right" THEN o.left ELSE o.right

\* Pushes a column of the join tree up through the projections.
Expose(e, c) ==
    LET held == {i \in DOMAIN e.items : e.items[i].of = <<c>>}
    IN IF held # {} THEN [items |-> e.items, at |-> Min(held)]
       ELSE [items |-> Append(e.items, Item(<<c>>, "key")), at |-> Len(e.items) + 1]
Exposed(q) ==
    CASE q.op = "project" ->
            LET x == Exposed(q.of)
                l == Expose(q, x.left)
                r == Expose([q EXCEPT !.items = l.items], x.right)
            IN IF x.kind = "full"
               THEN [kind |-> x.kind, left |-> l.at, right |-> r.at,
                     plan |-> Compute(x.plan, r.items)]
               ELSE [kind |-> x.kind, left |-> l.at, right |-> 0,
                     plan |-> Compute(x.plan, l.items)]
      [] q.op \in {"filter", "having"} ->
            LET x == Exposed(q.of) IN [x EXCEPT !.plan = [q EXCEPT !.of = x.plan]]
      [] OTHER -> LET o == FirstOuter(q)
                  IN [kind |-> o.kind, left |-> Preserved(o), right |-> o.right, plan |-> q]

RewriteLeftJoinKey(q) ==
    LET x == Exposed(q)
        columns == [i \in 1 .. Width(x.plan) |->
                        Item(<<i>>, IF i > Width(q) THEN "key" ELSE "user")]
        keys == <<Item(<<x.left>>, "left_key")>>
                \o (IF x.kind = "full" THEN <<Item(<<x.right>>, "right_key")>> ELSE <<>>)
    IN Compute(x.plan, columns \o keys)

RewriteLeftJoinMatchCount(q, o) ==
    LET g == AggregateOf(q)
        added == <<Hidden("count", NullSide(o), "match_count")>>
                 \o (IF o.kind = "full" THEN <<Hidden("count", o.left, "right_match_count")>>
                     ELSE <<>>)
    IN WithAggregate(q, g.aggs \o added,
                     q.items \o [i \in 1 .. Len(added) |-> Item(<<Width(g) + i>>, added[i].as)])

RECURSIVE HasGroup(_)
HasGroup(q) ==
    CASE q.op = "group" -> TRUE
      [] q.op \in {"scan", "rows"} -> FALSE
      [] q.op \in {"join", "semi", "union"} -> HasGroup(q.left) \/ HasGroup(q.right)
      [] OTHER -> HasGroup(q.of)

RewriteOuterJoinSupport(q) ==
    LET o == FirstOuter(q)
    IN CASE o = NoJoin -> q
         [] o # NoJoin /\ ~HasGroup(q) -> RewriteLeftJoinKey(q)
         [] o # NoJoin /\ HasGroup(q) ->
                IF OverAggregate(q, FALSE) THEN RewriteLeftJoinMatchCount(q, o) ELSE q

Rewrite(q) ==
    RewriteOuterJoinSupport(PropagateHidden(InjectGroupCountStar(
        RewriteDerivedAggregates(RewriteDistinct(q)))))

-----------------------------------------------------------------------------
(* The condition of HAVING leaves the plan: the stored table holds every    *)
(* group, and the view filters on the column that shows the condition's.    *)

HasHaving(q) == q.op = "project" /\ q.of.op = "having"
StripHavingFilter(q) ==
    LET h == q.of
        shows == {i \in DOMAIN q.items : q.items[i].of = <<h.col>>}
    IN IF shows # {} THEN [plan |-> Compute(h.of, q.items), where |-> <<Max(shows), h.above>>]
       ELSE [plan |-> Compute(h.of, Append(q.items, Item(<<h.col>>, "having"))),
             where |-> <<Len(q.items) + 1, h.above>>]
SplitHaving(q) == IF HasHaving(q) THEN StripHavingFilter(q) ELSE [plan |-> q, where |-> <<>>]

Role(q, c) ==
    CASE q.op = "project" -> q.items[c].as
      [] q.op = "group" /\ c > Len(q.keys) -> q.aggs[c - Len(q.keys)].as
      [] OTHER -> "user"
Roles(q) == [c \in 1 .. Width(q) |-> Role(q, c)]
WithRoles(s, roles) ==
    [plan |-> s.plan, where |-> s.where, roles |-> roles,
     shown |-> SelectSeq([c \in DOMAIN roles |-> c], LAMBDA c : roles[c] = "user")]

\* The stored table's columns by role, the columns of the view, its condition.
StoredAs(s) == WithRoles(s, Roles(s.plan))
Stored(q) == StoredAs(SplitHaving(Rewrite(q)))
=============================================================================
