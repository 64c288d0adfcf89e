-------------------------- MODULE RefreshCompiler --------------------------
(***************************************************************************)
(* The SQL programs that bring the stored table of a view up to date, one   *)
(* per refresh type: each is the relation it leaves, given the stored       *)
(* table, the delta view D (the change that DeltaRules computes), what the  *)
(* stored query answers now, and the auxiliary table of the view.           *)
(* e is the environment of DeltaRules and i the view as the catalog         *)
(* describes it.                                                           *)
(***************************************************************************)
EXTENDS DeltaRules, Classifier

Zero(x) == IF x = NULL THEN 0 ELSE x
Positive(R) == Only(R, LAMBDA x : R[x] > 0)
Sources(q) == Range(Leaves(q))
Active(q, e) == {t \in Sources(q) : Touched(e.log[t]) # {}}

RECURSIVE IsAverage(_, _)
IsAverage(q, c) ==
    q.op = "project" /\ (Len(q.items[c].of) = 2 \/ IsAverage(q.of, q.items[c].of[1]))

Nth(s, x) == CHOOSE n \in DOMAIN s : s[n] = x
WithRole(s, role) == SelectSeq([c \in DOMAIN s.roles |-> c], LAMBDA c : s.roles[c] = role)
SummedFunctions(q) ==
    IF Has(q, "group")
    THEN SelectSeq([a \in DOMAIN Outermost(q)[1].aggs |-> Outermost(q)[1].aggs[a].fn],
                   LAMBDA fn : fn # "avg")
    ELSE <<>>
\* The columns that show an average, and those that show neither one nor a key.
Averages(s) == SelectSeq(s.shown, LAMBDA c : IsAverage(s.plan, c))
Plain(s, keys) ==
    SelectSeq(s.shown, LAMBDA c : c \notin Range(keys) /\ ~IsAverage(s.plan, c))

\* What a column holds; the functions of the aggregate are taken in order.
ColumnFunction(s, c, keys, plain, fns) ==
    IF c \in Range(keys) THEN "key"
    ELSE IF c \in Range(Averages(s)) THEN "avg"
    ELSE IF c \notin Range(plain) THEN s.roles[c]
    ELSE IF Nth(plain, c) <= Len(fns) THEN fns[Nth(plain, c)] ELSE "other"

\* The row of openivm_views, and what refresh reads off the columns' names.
Catalogued(v, s, type, keys, plain, fns) ==
    [v |-> v, plan |-> s.plan, where |-> s.where, roles |-> s.roles, shown |-> s.shown,
     type |-> type, keys |-> keys, mode |-> AffectedMode(v, s.plan),
     fn |-> [c \in DOMAIN s.roles |-> ColumnFunction(s, c, keys, plain, fns)],
     parts |-> [c \in Range(Averages(s)) |->
                  <<WithRole(s, "sum")[Nth(Averages(s), c)],
                    WithRole(s, "count")[Nth(Averages(s), c)]>>],
     lost |-> Len(fns) > Len(plain),
     minmax |-> HasMinMax(v.query) \/ type = "AGGREGATE_HAVING"]
DescribedBy(v, s, keys) ==
    Catalogued(v, s, SelectRefreshType(v, s), keys, Plain(s, keys), SummedFunctions(v.query))
Described(v) ==
    DescribedBy(v, Stored(v.query), IF Has(v.query, "window") THEN v.part ELSE GroupColumns(v))

\* Nothing was deleted and no product of two deltas is subtracted.
InsertOnlyDelta(i, e) ==
    LET join == Cardinality(Sources(i.plan)) > 1 \/ Has(i.plan, "join")
    IN /\ \A t \in Sources(i.plan) : e.log[t].del = Empty
       /\ \/ ~join \/ e.lake
          \/ Cardinality(Active(i.plan, e)) <= 1 /\ Cardinality(Sources(i.plan)) > 1

\* DELETE the rows that meet a condition, INSERT those of the query that do.
Replaced(data, now, P(_)) == Plus(Only(data, LAMBDA x : ~P(x)), Only(now, P))
KeysOf(R, cols) == {Columns(x, cols) : x \in DOMAIN R}
ReplacedKeys(data, now, cols, K) == Replaced(data, now, LAMBDA x : Columns(x, cols) \in K)

-----------------------------------------------------------------------------
(* Aggregates.                                                             *)

Added(x, d) == IF x = NULL THEN d ELSE IF d = NULL THEN x ELSE x + d
Extremum(fn, x, d) ==
    IF x = NULL THEN d ELSE IF d = NULL THEN x ELSE IF fn = "min" THEN Min({x, d}) ELSE Max({x, d})
NeedsGroupRecompute(i) == i.lost \/ (i.minmax /\ Range(i.fn) \intersect {"min", "max"} = {})

\* What the delta view adds to the group k: sums, or extremes of what came.
GroupChange(i, D, insertOnly, k) ==
    [c \in DOMAIN i.fn |->
        IF i.fn[c] \in {"key", "avg"} THEN NULL
        ELSE Aggregate(Agg(IF insertOnly /\ i.fn[c] \in {"min", "max"} THEN i.fn[c] ELSE "sum", c),
                       D, {x \in DOMAIN D : Columns(x, i.keys) = k})]
MergedVisible(i, insertOnly, x, change, sums) == [c \in 1 .. Len(i.shown) |-> sums[c]]
MergedRow(i, insertOnly, x, change, sums) ==
    [c \in DOMAIN i.fn |->
        IF i.fn[c] = "avg" THEN Quotient(sums[i.parts[c][1]], sums[i.parts[c][2]])
        ELSE IF i.fn[c] \in {"min", "max"} /\ insertOnly THEN Extremum(i.fn[c], x[c], change[c])
        ELSE sums[c]]
Merged(i, insertOnly, x, change) ==
    MergedRow(i, insertOnly, x, change, [c \in DOMAIN i.fn |-> Added(x[c], change[c])])
\* A group that the stored table does not have yet.
NewGroup(i, k) ==
    [c \in DOMAIN i.fn |-> IF c \in Range(i.keys) THEN k[Nth(i.keys, c)] ELSE NULL]
MergeAsNew(i, D, insertOnly, data, K) ==
    Plus(data, Once({Merged(i, insertOnly, NewGroup(i, k), GroupChange(i, D, insertOnly, k)) : k \in K}))
MergeGroups(i, D, insertOnly, data, K) ==
    Plus(Only(data, LAMBDA x : Columns(x, i.keys) \notin K),
         Plus(Image(Only(data, LAMBDA x : Columns(x, i.keys) \in K),
                    LAMBDA x : Merged(i, insertOnly, x,
                                      GroupChange(i, D, insertOnly, Columns(x, i.keys)))),
              Once({Merged(i, insertOnly, NewGroup(i, k), GroupChange(i, D, insertOnly, k)) :
                        k \in K \ KeysOf(data, i.keys)})))
DeleteEmptyGroups(i, data) ==
    LET counts == {c \in DOMAIN i.fn : i.fn[c] \in {"count", "count_star", "distinct_count"}}
    IN IF counts = {} THEN data ELSE Only(data, LAMBDA x : \E c \in counts : Zero(x[c]) # 0)

CompileWithoutRecompute(i, D, insertOnly, now, data) ==
    DeleteEmptyGroups(i, MergeGroups(i, D, insertOnly, data, KeysOf(D, i.keys)))
CompileAggregateGroups(i, D, insertOnly, now, data) ==
    LET K == KeysOf(D, i.keys)
    IN IF NeedsGroupRecompute(i) \/ (i.minmax /\ ~insertOnly)
       THEN ReplacedKeys(data, now, i.keys, K)
       ELSE IF insertOnly THEN MergeGroups(i, D, TRUE, data, K)
       ELSE DeleteEmptyGroups(i, MergeGroups(i, D, FALSE, data, K))

CompileSimpleAggregates(i, D, now, data) ==
    LET grown(x) ==
            LET new(c) == Zero(x[c]) + Zero(Aggregate(Agg("sum", c), D, DOMAIN D))
            IN [c \in 1 .. Len(x) |->
                  IF i.fn[c] = "avg" THEN Quotient(new(i.parts[c][1]), new(i.parts[c][2]))
                  ELSE new(c)]
    IN IF i.minmax THEN now ELSE Image(data, grown)
AppendSimpleAggregateEmptySourceNulling(i, e, data) ==
    IF ~i.minmax /\ \E t \in Sources(i.plan) : e.db[t] = Empty
    THEN Image(data, LAMBDA x : Nulls(Len(x))) ELSE data

-----------------------------------------------------------------------------
(* Projections.  A full outer join replaces the rows whose left or right    *)
(* key was written, a left join those with the left keys in the delta view. *)

CompileProjectionsFilters(D, insertOnly, data) ==
    IF insertOnly THEN Plus(data, Positive(D)) ELSE Positive(Plus(data, D))

HasRole(i, role) == role \in Range(i.roles)
At1(i, role) == CHOOSE c \in DOMAIN i.roles : i.roles[c] = role
BuildFullOuterProjectionRefresh(i, e, now, data) ==
    LET j == NodesOf(i.plan, "join")[1]
        written(q, c) == UNION {{x[BaseColumn(q, c)] : x \in Touched(e.log[t])} : t \in Sources(q)}
        K == (written(j.left, j.on[1]) \union written(j.right, j.on[2])) \ {NULL}
    IN Replaced(data, now, LAMBDA x : x[At1(i, "left_key")] \in K \/ x[At1(i, "right_key")] \in K)
BuildLeftJoinProjectionRefresh(i, D, now, data) ==
    ReplacedKeys(data, now, <<At1(i, "left_key")>>, KeysOf(D, <<At1(i, "left_key")>>))
CompileProjectionRefresh(i, e, D, now, data) ==
    IF HasRole(i, "right_key") THEN BuildFullOuterProjectionRefresh(i, e, now, data)
    ELSE IF HasRole(i, "left_key") THEN BuildLeftJoinProjectionRefresh(i, D, now, data)
    ELSE CompileProjectionsFilters(D, InsertOnlyDelta(i, e), data)

-----------------------------------------------------------------------------
(* Groups and partitions computed again.                                   *)

\* The plans with one scan of t replaced by its pending rows.
RECURSIVE Variants(_, _, _)
Variants(q, t, pending) ==
    CASE q.op = "scan" -> IF q.table = t THEN {pending} ELSE {}
      [] q.op \in {"join", "semi", "union"} ->
            {[q EXCEPT !.left = p] : p \in Variants(q.left, t, pending)}
            \union {[q EXCEPT !.right = p] : p \in Variants(q.right, t, pending)}
      [] OTHER -> {[q EXCEPT !.of = p] : p \in Variants(q.of, t, pending)}
RECURSIVE Relaxed(_)
Relaxed(q) == IF q.op = "having" THEN Relaxed(q.of) ELSE Below(q, Relaxed)

PendingRows(e, t) ==
    Rows([x \in Touched(e.log[t]) |-> At(e.log[t].ins, x) + At(e.log[t].del, x)], TableWidth)
AffectedGroups(i, e) ==
    LET q == IF i.mode = "SOURCE_DELTA" THEN i.plan ELSE Relaxed(i.plan)
    IN UNION {KeysOf(Eval(p, e.db), i.keys) :
                p \in UNION {Variants(q, t, PendingRows(e, t)) : t \in Active(q, e)}}
CurrentDiff(i, now, data) == KeysOf(Net(Minus(now, data)), i.keys)

\* One row of one source was updated, in one column, which the view only sums.
\* (The column of the groups must have the name primary_key.)
MeasureUpdate(i, e) ==
    {m \in i.v.measured :
        LET log == e.log[m.table]
        IN /\ Active(i.plan, e) = {m.table}
           /\ Total(log.ins, DOMAIN log.ins) = 1 /\ Total(log.del, DOMAIN log.del) = 1
           /\ \A x \in DOMAIN log.ins, y \in DOMAIN log.del :
                {c \in 1 .. TableWidth : x[c] # y[c]} = {m.col}}
UpdateMeasures(i, e, m, data) ==
    LET log == e.log[m.table]
        change == Zero((CHOOSE x \in DOMAIN log.ins : TRUE)[m.col])
                  - Zero((CHOOSE x \in DOMAIN log.del : TRUE)[m.col])
        K == UNION {KeysOf(Eval(q, e.db), i.keys) :
                      q \in Variants(i.plan, m.table, Rows(log.ins, TableWidth))}
        updated(x) == [c \in DOMAIN x |-> IF i.fn[c] = "sum" THEN Zero(x[c]) + change ELSE x[c]]
    IN Image(data, LAMBDA x : IF Columns(x, i.keys) \in K THEN updated(x) ELSE x)

CompileGroupRecompute(i, e, now, data) ==
    LET p == MeasureUpdate(i, e)
    IN IF Active(i.plan, e) = {} THEN data
       ELSE IF p # {} THEN UpdateMeasures(i, e, CHOOSE m \in p : TRUE, data)
       ELSE IF i.keys = <<>> THEN now
       ELSE ReplacedKeys(data, now, i.keys, IF i.mode = "CURRENT_DIFF" THEN CurrentDiff(i, now, data)
                                            ELSE AffectedGroups(i, e))

\* Partitions of the source of the partition column that were written, and
\* those that a written row of the other source meets.
ChangedPartitions(i, e) ==
    LET w == NodesOf(i.plan, "window")[1]
        o == Origin(w.of, 1, w.part[1])
        L == JoinLeaves(w.of, FALSE)
        table(n) == Leaves(L[n].plan)[1]
        values(n, c) == {x[c] : x \in Touched(e.log[table(n)])} \ {NULL}
    IN values(o.leaf, o.col)
       \union UNION {{x[o.col] : x \in {y \in DOMAIN e.db[table(o.leaf)] :
                                          y[p[1].col] \in values(p[2].leaf, p[2].col)}} :
                        p \in {pair \in KeyPairs(w.of, 1) : pair[1].leaf = o.leaf}}
BuildWindowPartitionRefresh(i, e, now, data) ==
    LET K == ChangedPartitions(i, e)
    IN Replaced(data, now, LAMBDA x : x[i.keys[1]] # NULL /\ x[i.keys[1]] \in K)

-----------------------------------------------------------------------------
(* Auxiliary tables: how often a tuple occurs below DISTINCT; how many rows *)
(* of the right side a row of the left side of a semi join meets; the sums  *)
(* of the groups of which those above a threshold are counted.             *)

DistinctInput(i) == NodesOf(i.v.query, "distinct")[1].of
SemiJoin(i) == NodesOf(i.v.query, "semi")[1]
Counting(i) == NodesOf(i.v.query, "having")[1]
\* The extractor reads the table and passes over a WHERE of the inner query.
CountedTable(i) == Scan(Leaves(Counting(i))[1])
\* SELECT count(*) FROM (SELECT k, sum(c) FROM t GROUP BY k) WHERE the sum > 0
FilteredGroupCount(v) ==
    /\ Has(v.query, "having") /\ ~HasHaving(v.query)
    /\ Outermost(v.query)[1].keys = <<>>
    /\ [a \in DOMAIN Outermost(v.query)[1].aggs |-> Outermost(v.query)[1].aggs[a].fn] = <<"count_star">>
    /\ LET h == NodesOf(v.query, "having")[1]
       IN /\ h.above = 0 /\ Len(h.of.keys) = 1
          /\ [a \in DOMAIN h.of.aggs |-> h.of.aggs[a].fn] = <<"sum">>
          /\ Len(Leaves(h)) = 1

Matches(R, on, x) == Total(R, {y \in DOMAIN R : On(on, x, y)})
GroupSums(R, g) ==
    [k \in KeysOf(R, g.keys) |->
        Aggregate(g.aggs[1], R, {x \in DOMAIN R : Columns(x, g.keys) = k})]

BuildAuxState(i, db) ==
    CASE i.type = "DISTINCT_INCREMENTAL" -> Eval(DistinctInput(i), db)
      [] i.type = "SEMI_ANTI_RECOMPUTE" ->
            LET L == Eval(SemiJoin(i).left, db)
            IN [x \in DOMAIN L |-> [rows |-> L[x],
                   matches |-> Matches(Eval(SemiJoin(i).right, db), SemiJoin(i).on, x)]]
      [] i.type = "SIMPLE_AGGREGATE" /\ FilteredGroupCount(i.v) ->
            GroupSums(Eval(CountedTable(i), db), Counting(i).of)
      [] OTHER -> Empty

\* The tuples that appear (1) or disappear (-1) when d is added to the counts.
Turn(was, now) == IF was = 0 /\ now > 0 THEN 1 ELSE IF was > 0 /\ now <= 0 THEN -1 ELSE 0
Turned(aux, d) == Net([x \in DOMAIN d |-> Turn(At(aux, x), At(aux, x) + d[x])])
MergeTurned(i, g, turned, data) ==
    LET of(k) == {x \in DOMAIN turned : Columns(x, g.keys) = k}
        K == KeysOf(turned, g.keys)
        sum(k) == Aggregate(g.aggs[1], turned, of(k))
        n == Len(g.keys) + 1
        merged(x, k) == [x EXCEPT ![n] = IF sum(k) = NULL THEN NULL ELSE Zero(@) + sum(k),
                                  ![n + 1] = @ + Total(turned, of(k))]
        fresh == Once({k \o <<sum(k), Total(turned, of(k))>> : k \in K \ KeysOf(data, i.keys)})
        kept == Image(data, LAMBDA x : IF Columns(x, i.keys) \in K
                                       THEN merged(x, Columns(x, i.keys)) ELSE x)
    IN Only(Plus(kept, fresh), LAMBDA x : x[n + 1] > 0)
CompileDistinctIncremental(i, d, data, aux) ==
    [data |-> MergeTurned(i, NodesOf(i.v.query, "group")[1], Turned(aux, d), data),
     aux |-> Positive(Plus(aux, d))]

\* Left rows that come with the right rows they meet are counted twice.
SemiAntiTwice(j, left, right, e, aux) ==
    LET all == {x \in DOMAIN left \union DOMAIN aux : x \in DOMAIN aux \/ left[x] > 0}
    IN [x \in all |->
          [rows |-> At(left, x) + (IF x \in DOMAIN aux THEN aux[x].rows ELSE 0),
           matches |-> Matches(right, j.on, x)
                       + (IF x \in DOMAIN aux THEN aux[x].matches
                          ELSE Matches(Eval(j.right, e.db), j.on, x))]]
\* The counts of the left rows: those that were there and those that came.
SemiAntiState(j, left, right, e, aux) ==
    [x \in DOMAIN aux |-> [rows |-> aux[x].rows + At(left, x),
                           matches |-> aux[x].matches + Matches(right, j.on, x)]]
    @@ [x \in {y \in DOMAIN left \ DOMAIN aux : left[y] > 0} |->
            [rows |-> left[x], matches |-> Matches(Eval(j.right, e.db), j.on, x)]]
Visible(j, a) == (j.kind = "semi") = (a.matches > 0)
ShownOf(i, j, S, a) ==
    Image([x \in {y \in S : Visible(j, a[y]) /\ a[y].rows > 0} |-> a[x].rows],
          LAMBDA x : Items(x, i.plan.items))
UpsertSemiAnti(i, j, cur, data, aux) ==
    LET affected == {x \in DOMAIN cur :
                        \/ x \notin DOMAIN aux
                        \/ aux[x].rows # cur[x].rows
                        \/ Visible(j, aux[x]) # Visible(j, cur[x])}
    IN [data |-> Plus(Positive(Minus(data, ShownOf(i, j, affected \intersect DOMAIN aux, aux))),
                      ShownOf(i, j, affected, cur)),
        aux |-> [x \in {y \in DOMAIN cur : cur[y].rows > 0} |-> cur[x]]]
CompileSemiAntiRecompute(i, j, e, data, aux) ==
    UpsertSemiAnti(i, j, SemiAntiState(j, Net(Delta(j.left, e)), Delta(j.right, e), e, aux),
                   data, aux)

\* d holds the change of each group's sum.
MergeGroupSums(h, d, data, aux) ==
    LET old(k) == IF k \in DOMAIN aux THEN Zero(aux[k]) ELSE 0
        counted(n) == IF Above(n, h.above) THEN 1 ELSE 0
        change == MapThenSumSet(LAMBDA k : counted(old(k) + d[k]) - counted(old(k)), DOMAIN d)
    IN [data |-> Image(data, LAMBDA x : [x EXCEPT ![1] = Zero(@) + change]),
        aux |-> Net([k \in DOMAIN d |-> old(k) + d[k]] @@ aux)]
CompileFilteredGroupCount(i, e, data, aux) ==
    LET sums == GroupSums(Delta(CountedTable(i), e), Counting(i).of)
    IN MergeGroupSums(Counting(i), Only(sums, LAMBDA k : sums[k] \notin {NULL, 0}), data, aux)

-----------------------------------------------------------------------------
(* One refresh: the stored table, the auxiliary table, and the rows that    *)
(* stay in the delta view for the views that read this one.                 *)

UpsertTo(i, e, D, now, data, aux) ==
    LET to(R) == [data |-> R, aux |-> aux]
    IN CASE i.type = "FULL_REFRESH" -> to(now)
         [] i.type \in {"AGGREGATE_GROUP", "AGGREGATE_HAVING"} ->
                to(CompileAggregateGroups(i, D, InsertOnlyDelta(i, e), now, data))
         [] i.type = "SIMPLE_PROJECTION" -> to(CompileProjectionRefresh(i, e, D, now, data))
         [] i.type = "SIMPLE_AGGREGATE" ->
                IF FilteredGroupCount(i.v) THEN CompileFilteredGroupCount(i, e, data, aux)
                ELSE to(AppendSimpleAggregateEmptySourceNulling(i, e,
                            CompileSimpleAggregates(i, D, now, data)))
         [] i.type = "WINDOW_PARTITION" -> to(BuildWindowPartitionRefresh(i, e, now, data))
         [] i.type = "DISTINCT_INCREMENTAL" -> CompileDistinctIncremental(i, Net(Delta(DistinctInput(i), e)), data, aux)
         [] i.type = "SEMI_ANTI_RECOMPUTE" -> CompileSemiAntiRecompute(i, SemiJoin(i), e, data, aux)
         [] i.type = "GROUP_RECOMPUTE" -> to(CompileGroupRecompute(i, e, now, data))
Upsert(i, e, D, data, aux) == UpsertTo(i, e, D, Eval(i.plan, e.db), data, aux)

CompanionOfDelta(i, D, data, new) == D
\* Strategies whose rows are not sums emit the old rows and the new ones.
Companion(i, D, data, new) ==
    CASE i.type = "SIMPLE_PROJECTION" -> D
      [] i.type \in {"AGGREGATE_GROUP", "AGGREGATE_HAVING"} ->
            LET in(R) == Only(R, LAMBDA x : Columns(x, i.keys) \in KeysOf(D, i.keys))
            IN Minus(in(new), in(data))
      [] OTHER -> Minus(new, data)
BuildCompactDeltaViewSQL(R) == Net(R)
=============================================================================
