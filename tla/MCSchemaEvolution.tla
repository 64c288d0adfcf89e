------------------------ MODULE MCSchemaEvolution --------------------------
(***************************************************************************)
(* A small instance of SchemaEvolution: two tables and five views, whose    *)
(* queries have aliases, subqueries that see the blocks around them, a      *)
(* derived table with a column list, an alias that hides a table's name and *)
(* a set operation.                                                        *)
(***************************************************************************)
EXTENDS SchemaEvolution

Ref(of, name) == [of |-> of, name |-> name]
Table(t, alias) == [table |-> t, alias |-> alias, names |-> <<>>]
Derived(alias, names) == [table |-> NoName, alias |-> alias, names |-> names]
\* The block at <<>> and, in their places, the queries inside it.
Nest(block, inside) ==
    [p \in {<<>>} \union UNION {{<<n>> \o o : o \in DOMAIN inside[n]} : n \in DOMAIN inside} |->
        IF p = <<>> THEN block ELSE inside[Head(p)][Tail(p)]]
Select(refs, from, out, inside) ==
    Nest([from |-> from, refs |-> refs, out |-> out, derived |-> FALSE, union |-> FALSE], inside)
UnionAll(arms) ==
    Nest([from |-> <<>>, refs |-> <<>>, out |-> <<>>, derived |-> FALSE, union |-> TRUE], arms)
InFrom(q) == [q EXCEPT ![<<>>].derived = TRUE]

\* SELECT x.a FROM t AS x WHERE EXISTS (SELECT 1 FROM u WHERE u.c = x.b)
Exists ==
    Select(<<Ref("x", "a")>>, <<Table("t", "x")>>, <<NoName>>,
           <<Select(<<Ref("u", "c"), Ref("x", "b")>>, <<Table("u", NoName)>>, <<>>, <<>>)>>)
\* SELECT t.b AS k, s.a FROM t JOIN (SELECT c, a FROM u) AS s(a, m) ON t.a = s.m
OverDerived ==
    Select(<<Ref("t", "b"), Ref("s", "a"), Ref("t", "a"), Ref("s", "m")>>,
           <<Table("t", NoName), Derived("s", <<"a", "m">>)>>, <<"k", NoName>>,
           <<InFrom(Select(<<Ref(NoName, "c"), Ref(NoName, "a")>>, <<Table("u", NoName)>>,
                           <<NoName, NoName>>, <<>>))>>)
\* SELECT b FROM t WHERE EXISTS (SELECT 1 FROM u AS t WHERE t.a = 1)
Hidden ==
    Select(<<Ref(NoName, "b")>>, <<Table("t", NoName)>>, <<NoName>>,
           <<Select(<<Ref("t", "a")>>, <<Table("u", "t")>>, <<>>, <<>>)>>)
\* SELECT a AS k FROM t UNION ALL SELECT c FROM u
Union ==
    UnionAll(<<Select(<<Ref(NoName, "a")>>, <<Table("t", NoName)>>, <<"k">>, <<>>),
               Select(<<Ref(NoName, "c")>>, <<Table("u", NoName)>>, <<NoName>>, <<>>)>>)

\* SELECT b, row_number() OVER (PARTITION BY b) FROM t
Window == Select(<<Ref(NoName, "b")>>, <<Table("t", NoName)>>, <<NoName>>, <<>>)

ViewQueries ==
    [v \in Views |-> CASE v = "exists" -> Exists [] v = "derived" -> OverDerived
                       [] v = "hidden" -> Hidden [] v = "union" -> Union [] v = "window" -> Window]
Entry(role, t, name) == [role |-> role, table |-> t, name |-> name]
ViewMetadata ==
    [v \in Views |->
        CASE v = "exists" -> <<Entry("source", "t", "a"), Entry("source", "t", "b"),
                               Entry("stable", "t", "b"), Entry("source", "u", "c")>>
          [] v = "derived" -> <<Entry("source", "t", "a"), Entry("source", "u", "a")>>
          [] v = "window" -> <<Entry("group", "t", "b"), Entry("source", "t", "b")>>
          [] v \in {"hidden", "union"} -> <<>>]
TwoTables == [t \in Tables |-> IF t = "t" THEN (1 :> "a" @@ 2 :> "b") ELSE (3 :> "a" @@ 4 :> "c")]
ViewSources == [v \in Views |-> IF v = "window" THEN {"t"} ELSE Tables]

\* What the proofs about MeaningKept suppose of the queries.
ASSUME PlainQueriesHere == PlainQueries
=============================================================================
