--------------------------- MODULE MCMaintenance ---------------------------
(***************************************************************************)
(* The views that TLC maintains: one for every refresh type, fast path and *)
(* shape of query.  Each has few rows, so that the statements meet each     *)
(* other's rows and groups, and three initial databases: no rows, one row   *)
(* per table, all of them.                                                 *)
(***************************************************************************)
EXTENDS Maintenance

R == Scan("r")
S == Scan("s")
T == Scan("t")
Key == <<1, 1>>       \* the first columns of two tables
RS == Join("inner", R, S, Key)
Sum == Agg("sum", 2)
Stars == Agg("count_star", 0)
Highest == Agg("max", 2)

Few == {<<1, 1>>, <<1, 2>>, <<2, 2>>}
Nullable == {<<1, 1>>, <<1, NULL>>, <<NULL, 2>>}
Dims == {<<1, 5>>, <<2, 5>>}
Links == {<<1, 2>>}

A(query, rows, full) ==
    [query |-> query, renames |-> FALSE, auxState |-> FALSE, part |-> <<>>, lake |-> FALSE,
     measured |-> {}, fks |-> {}, chained |-> TRUE, linear |-> FALSE, rows |-> rows,
     start |-> {[t \in DOMAIN full |-> Empty], full, [t \in DOMAIN full |-> Once(rows[t])]}]
OfR(q, rows) == A(q, [r |-> rows], [r |-> Single(<<1, 1>>)])
OfRS(q, rows) == A(q, [r |-> rows, s |-> Dims], [r |-> Single(<<1, 1>>), s |-> Single(<<1, 5>>)])
OfThree(q) == A(q, [r |-> Few, s |-> Links, t |-> {<<1, 5>>, <<2, 2>>}],
                [r |-> Single(<<1, 1>>), s |-> Single(<<1, 2>>), t |-> Single(<<1, 5>>)])

Linear(v) == [v EXCEPT !.linear = TRUE]
Lake(v) == [v EXCEPT !.lake = TRUE]
Alone(v) == [v EXCEPT !.chained = FALSE]
WithAux(v) == [v EXCEPT !.auxState = TRUE]
By(v, c) == [v EXCEPT !.part = <<c>>]
ForeignKey(v) == [v EXCEPT !.fks = {<<"r", "s">>}]
\* Only r is written, and s holds both of its rows.
OnlyR(v) == [v EXCEPT !.rows.s = {}, !.start = {[d EXCEPT !.s = Once(Dims)] : d \in @}]

Rsum == Project(Group(R, <<1>>, <<Sum>>), <<1, 2>>)

Projections == [
    filter      |-> Linear(OfR(Project(Filter(R, 2, 1), <<1>>), Few \union Nullable)),
    union_all   |-> Linear(OfRS(Project(UnionAll(R, S), <<1>>), Few)),
    union       |-> OfRS(Union(Project(R, <<1>>), Project(S, <<1>>)), Few),
    join        |-> Linear(OfRS(Project(RS, <<1, 2, 4>>), Few)),
    self_join   |-> Linear(OfR(Project(Join("inner", R, R, <<1, 2>>), <<1, 4>>), Few)),
    lake_join   |-> Lake(Linear(OfRS(Project(RS, <<1, 2, 4>>), Few))),
    fk_join     |-> ForeignKey(Linear(OfRS(Project(RS, <<1, 2, 4>>), Few))),
    three       |-> Linear(OfThree(Project(Join("inner", RS, T, <<4, 2>>), <<1, 4, 6>>))),
    lake_three  |-> Lake(Linear(OfThree(Project(Join("inner", RS, T, <<4, 2>>), <<1, 4, 6>>)))),
    left        |-> Alone(OfRS(Project(Join("left", R, S, Key), <<1, 2, 4>>), Few)),
    left_null   |-> Alone(OfRS(Project(Join("left", R, S, Key), <<1, 2, 4>>), Nullable)),
    lake_left   |-> Lake(Alone(OfRS(Project(Join("left", R, S, Key), <<1, 2, 4>>), Few))),
    right       |-> Alone(OfRS(Project(Join("right", R, S, Key), <<3, 2, 4>>), Few)),
    full        |-> Alone(OfRS(Project(Join("full", R, S, Key), <<1, 2, 4>>), Few)),
    left_star   |-> Alone(OfThree(Project(Join("left", Join("left", R, T, Key), S, Key),
                                          <<1, 2, 4, 6>>))),
    inner_left  |-> Alone(OfThree(Project(Join("inner", Join("left", R, T, Key), S, Key),
                                          <<1, 2, 4>>))),
    over_avg    |-> OfR(Project(Project(Group(R, <<1>>, <<Agg("avg", 2), Stars>>), <<1, 2, 3>>),
                                <<1, 2>>), Few)]

Groups == [
    group       |-> OfR(Project(Group(R, <<1>>, <<Sum, Stars>>), <<1, 2, 3>>),
                        Few \union {<<NULL, 2>>}),
    sum         |-> OfR(Rsum, Few),
    count       |-> OfR(Project(Group(R, <<1>>, <<Agg("count", 2)>>), <<1, 2>>), Nullable),
    avg         |-> OfR(Project(Group(R, <<1>>, <<Agg("avg", 2), Stars>>), <<1, 2, 3>>), Nullable),
    min_max     |-> OfR(Project(Group(R, <<1>>, <<Agg("min", 2), Highest>>), <<1, 2, 3>>), Nullable),
    distinct    |-> OfR(Distinct(Project(R, <<1>>)), Few \union Nullable),
    join_distinct |-> OfRS(Distinct(Project(RS, <<1>>)), Few),
    join_group  |-> OfRS(Project(Group(RS, <<1>>, <<Sum, Stars>>), <<1, 2, 3>>), Few),
    lake_group  |-> Lake(OfRS(Project(Group(RS, <<1>>, <<Sum, Stars>>), <<1, 2, 3>>), Few)),
    having      |-> OfR(Project(Having(Group(R, <<1>>, <<Sum>>), 2, 1), <<1, 2>>), Few),
    having_hidden |-> OfR(Project(Having(Group(R, <<1>>, <<Sum, Stars>>), 3, 1), <<1, 2>>), Few),
    having_max  |-> OfR(Project(Having(Group(R, <<1>>, <<Sum, Highest>>), 3, 1), <<1, 2>>), Few),
    having_join |-> OfRS(Project(Having(Group(RS, <<1>>, <<Sum, Stars>>), 3, 1), <<1, 2, 3>>), Few),
    total       |-> OfR(Project(Group(R, <<>>, <<Sum>>), <<1>>), Few),
    total_avg   |-> OfR(Project(Group(R, <<>>, <<Agg("avg", 2)>>), <<1>>), Few),
    total_max   |-> OfR(Project(Group(R, <<>>, <<Highest>>), <<1>>), Few),
    over_threshold |-> OfR(Project(Group(Having(Group(R, <<1>>, <<Sum>>), 2, 0), <<>>, <<Stars>>),
                                   <<1>>), {<<1, 1>>, <<1, -2>>, <<2, 2>>})]

Recomputed == [
    count_distinct |-> OfR(Project(Group(R, <<1>>, <<Agg("count_distinct", 2)>>), <<1, 2>>),
                           Few \union Nullable),
    nested      |-> OfR(Project(Group(Project(Group(R, <<1, 2>>, <<Stars>>), <<1, 3>>), <<1>>,
                                      <<Highest>>), <<1, 2>>), Few),
    of_union    |-> OfRS(Project(Group(UnionAll(R, S), <<1>>, <<Sum, Stars>>), <<1, 2, 3>>), Few),
    join_sum    |-> OnlyR(OfRS(Project(Group(RS, <<1>>, <<Sum>>), <<1, 2>>), Few)),
    measured    |-> [OnlyR(OfRS(Project(Group(RS, <<1>>, <<Sum>>), <<1, 2>>), Few))
                        EXCEPT !.measured = {[table |-> "r", col |-> 2]}],
    left_group  |-> OfRS(Project(Group(Join("left", R, S, Key), <<1>>, <<Agg("sum", 4), Stars>>),
                                 <<1, 2, 3>>), Few),
    semi_group  |-> OnlyR(OfRS(Project(Group(Semi("semi", R, S, Key), <<1>>, <<Stars>>), <<1, 2>>),
                               Few)),
    join_over   |-> OnlyR(OfRS(Project(Join("inner", Rsum, S, Key), <<1, 2, 4>>), Few)),
    join_having |-> OfRS(Project(Join("inner", Project(Having(Group(R, <<1>>, <<Sum>>), 2, 1), <<1, 2>>),
                                      S, Key), <<1, 2, 4>>), Few),
    over_distinct |-> OfR(Project(Group(Distinct(R), <<1>>, <<Sum, Stars>>), <<1, 2, 3>>), Few),
    counted_distinct |-> WithAux(OfR(Project(Group(Distinct(R), <<1>>, <<Sum, Stars>>), <<1, 2, 3>>),
                                     Few)),
    window      |-> By(OfR(Project(Window(R, <<1>>, Sum), <<1, 2, 3>>), Few), 1),
    window_join |-> By(OfRS(Project(Window(RS, <<1>>, Agg("sum", 4)), <<1, 2, 5>>), Few), 1),
    window_other |-> By(OfRS(Project(Window(RS, <<3>>, Sum), <<3, 2, 5>>), Few), 1),
    semi        |-> OfRS(Project(Semi("semi", R, S, Key), <<1, 2>>), Nullable),
    anti        |-> OfRS(Project(Semi("anti", R, S, Key), <<1>>), Few \union Nullable)]

Zoo == Projections @@ Groups @@ Recomputed

-----------------------------------------------------------------------------
(* Views that are maintained wrongly.                                      *)

HavingAvg == [having_avg |-> OfR(Project(Having(Group(R, <<1>>, <<Agg("avg", 2)>>), 2, 1), <<1, 2>>), Few)]
\* The key of s is a column of the table that the first join pads.
LeftChain == [left_chain |->
    Alone(OfThree(Project(Join("left", Join("left", R, T, Key), S, <<4, 2>>), <<1, 2, 4, 6>>)))]
\* r refers to s by first columns, and the join compares the second ones.
FkPruning == [fk_other |-> ForeignKey(Linear(
    A(Project(Join("inner", R, S, <<2, 2>>), <<1, 3>>),
      [r |-> {<<1, 5>>}, s |-> Dims], [r |-> Single(<<1, 5>>), s |-> Single(<<1, 5>>)])))]
\* The rows of r and s that meet are deleted before one refresh.
GroupMiss == [group_miss |->
    OfRS(Project(Group(Distinct(Project(RS, <<1, 4>>)), <<1>>, <<Sum>>), <<1, 2>>), Few)]
=============================================================================
