----------------------------- MODULE Classifier -----------------------------
(***************************************************************************)
(* How CREATE MATERIALIZED VIEW picks the way a view is refreshed: from     *)
(* facts of the query as it was written, and from the columns of the query  *)
(* as it was rewritten.  A view is its query, renames, whether an inner     *)
(* DISTINCT has only columns with the names of columns of the view, and     *)
(* auxState, whether openivm_distinct_aux_state was on and the query has    *)
(* the shape it is for.                                                    *)
(*                                                                         *)
(* Aggregates take columns, not expressions, and every operator here has a  *)
(* delta rule, so the reasons to refuse incremental refresh do not arise.  *)
(***************************************************************************)
EXTENDS PlanRewrite

-----------------------------------------------------------------------------
(* Facts of a plan.                                                        *)

RECURSIVE Nodes(_)
Nodes(q) ==
    <<q>> \o CASE q.op \in {"scan", "rows"} -> <<>>
               [] q.op \in {"join", "semi", "union"} -> Nodes(q.left) \o Nodes(q.right)
               [] OTHER -> Nodes(q.of)
NodesOf(q, op) == SelectSeq(Nodes(q), LAMBDA n : n.op = op)
Has(q, op) == NodesOf(q, op) # <<>>
Aggregates(q) ==
    UNION {{g.aggs[i].fn : i \in DOMAIN g.aggs} : g \in Range(NodesOf(q, "group"))}

RECURSIVE UnionBeforeAggregate(_)
UnionBeforeAggregate(q) ==
    CASE q.op = "union" -> TRUE
      [] q.op \in {"scan", "rows", "group"} -> FALSE
      [] q.op \in {"join", "semi"} -> UnionBeforeAggregate(q.left) \/ UnionBeforeAggregate(q.right)
      [] OTHER -> UnionBeforeAggregate(q.of)

\* Column c of q shows a key of the aggregate g.
RECURSIVE ShowsKey(_, _, _)
ShowsKey(q, c, g) ==
    CASE q.op = "group" -> q = g /\ c <= Len(q.keys)
      [] q.op = "project" -> Len(q.items[c].of) = 1 /\ ShowsKey(q.of, q.items[c].of[1], g)
      [] q.op = "union" -> ShowsKey(q.left, c, g) \/ ShowsKey(q.right, c, g)
      [] q.op = "join" -> IF c <= Width(q.left) THEN ShowsKey(q.left, c, g)
                          ELSE ShowsKey(q.right, c - Width(q.left), g)
      [] q.op = "semi" -> ShowsKey(q.left, c, g)
      [] q.op = "window" -> c <= Width(q.of) /\ ShowsKey(q.of, c, g)
      [] q.op \in {"filter", "having", "distinct"} -> ShowsKey(q.of, c, g)
      [] OTHER -> FALSE
KeysShown(q, gs) ==
    SelectSeq([i \in 1 .. Width(q) |-> i], LAMBDA c : \E g \in Range(gs) : ShowsKey(q, c, g))

\* Columns of the view that the conditions of the first join compare.
JoinKeysShown(q) ==
    IF q.op # "project" \/ ~Has(q, "join") THEN {}
    ELSE LET j == NodesOf(q, "join")[1]
         IN IF q.of # j THEN {}
            ELSE {i \in DOMAIN q.items :
                    q.items[i].of \in {<<j.on[1]>>, <<Width(j.left) + j.on[2]>>}}

-----------------------------------------------------------------------------
(* The model of the view.                                                  *)

DistinctAtTop(v) ==
    /\ Has(v.query, "distinct")
    /\ v.renames \/ v.query.op = "distinct"
UnionDistinct(q) == \E i \in DOMAIN Nodes(q) : Nodes(q)[i].op = "union" /\ ~Nodes(q)[i].all
FoundDistinct(q) == Has(q, "distinct") \/ UnionDistinct(q)

Outermost(q) == IF Has(q, "group") THEN <<NodesOf(q, "group")[1]>> ELSE <<>>
GroupedOutermost(q) == SelectSeq(Outermost(q), LAMBDA g : g.keys # <<>>)

\* The columns by which the stored rows fall into groups.
BaseGroupColumns(v) ==
    LET q == v.query
        all == [i \in 1 .. Width(q) |-> i]
        inner == KeysShown(q, Tail(NodesOf(q, "group")))   \* of the nested aggregates
    IN IF UnionDistinct(q) /\ ~Has(q, "group") THEN all
       ELSE IF DistinctAtTop(v)
            THEN IF q.op = "distinct" THEN all ELSE [i \in 1 .. Width(NodesOf(q, "distinct")[1]) |-> i]
       ELSE IF ~Has(q, "group") THEN <<>>
       ELSE IF KeysShown(q, GroupedOutermost(q)) # <<>> THEN KeysShown(q, GroupedOutermost(q))
       ELSE inner
AddedJoinKeys(v) ==
    IF /\ Has(v.query, "join")
       /\ GroupedOutermost(v.query) # <<>>
       /\ ~UnionBeforeAggregate(v.query)
    THEN JoinKeysShown(v.query) \ Range(BaseGroupColumns(v)) ELSE {}
GroupColumns(v) == BaseGroupColumns(v) \o SetToSeq(AddedJoinKeys(v))

\* Why the groups cannot be added up and are computed again; s is what is stored.
StrategyReasons(v, s) ==
    LET q == v.query
        aggs == IF Has(q, "group") THEN Len(Outermost(q)[1].aggs) ELSE 0
        joins == Has(q, "join") \/ Has(q, "semi")
    IN {r \in {"union_distinct", "join_key", "join_aggregate_projection", "union_over_aggregate",
               "nested_aggregate", "semi_anti_aggregate"} :
          CASE r = "union_distinct" -> UnionDistinct(q) /\ ~Has(q, "group")
            [] r = "join_key" -> AddedJoinKeys(v) # {}
            [] r = "join_aggregate_projection" ->
                   /\ joins /\ Has(q, "group") /\ GroupColumns(v) # <<>>
                   /\ Len(s.roles) > Len(GroupColumns(v)) + aggs
            [] r = "union_over_aggregate" -> Has(q, "group") /\ UnionBeforeAggregate(q)
            [] r = "nested_aggregate" -> Len(NodesOf(q, "group")) > 1
            [] r = "semi_anti_aggregate" ->
                   Has(q, "semi") /\ Has(q, "group") /\ GroupColumns(v) # <<>>}

\* HAVING on an extreme that the view does not show.
HiddenExtreme(q) ==
    /\ HasHaving(q)
    /\ \A i \in DOMAIN q.items : q.items[i].of # <<q.of.col>>
    /\ q.of.col > Len(q.of.of.keys)
    /\ q.of.of.aggs[q.of.col - Len(q.of.of.keys)].fn \in {"min", "max"}

SelectRefreshType(v, s) ==
    LET q == v.query
        grouped == GroupColumns(v) # <<>>
        recompute == IF grouped THEN "GROUP_RECOMPUTE" ELSE "FULL_REFRESH"
    IN IF Has(q, "window") THEN "WINDOW_PARTITION"
       ELSE IF Has(q, "semi") THEN IF Has(q, "group") THEN recompute ELSE "SEMI_ANTI_RECOMPUTE"
       ELSE IF "count_distinct" \in Aggregates(q) /\ grouped THEN "GROUP_RECOMPUTE"
       ELSE IF FoundDistinct(q) /\ ~DistinctAtTop(v) /\ Has(q, "group")
            THEN IF v.auxState THEN "DISTINCT_INCREMENTAL" ELSE "GROUP_RECOMPUTE"
       ELSE IF UnionDistinct(q) /\ grouped THEN "GROUP_RECOMPUTE"
       ELSE IF DistinctAtTop(v) /\ grouped THEN "AGGREGATE_GROUP"
       ELSE IF StrategyReasons(v, s) # {} /\ grouped THEN "GROUP_RECOMPUTE"
       ELSE IF Has(q, "having") /\ grouped
            THEN IF HiddenExtreme(q) THEN "GROUP_RECOMPUTE" ELSE "AGGREGATE_HAVING"
       ELSE IF Has(q, "group") THEN IF grouped THEN "AGGREGATE_GROUP" ELSE "SIMPLE_AGGREGATE"
       ELSE "SIMPLE_PROJECTION"

HasMinMax(q) == Aggregates(q) \intersect {"min", "max", "count_distinct"} # {}

\* How the affected groups of GROUP_RECOMPUTE are found.
AffectedMode(v, plan) ==
    IF ~Has(plan, "having") THEN "SOURCE_DELTA"
    ELSE IF Has(v.query, "join") \/ v.lake THEN "CURRENT_DIFF"
    ELSE "SOURCE_DELTA_RELAX_AGGREGATE_FILTER"
=============================================================================
