----------------------------- MODULE DeltaRules -----------------------------
(***************************************************************************)
(* How the plan of a view is rewritten into a plan of its change: one rule *)
(* per operator, and for joins inclusion-exclusion over the current tables *)
(* (or, on DuckLake, telescoping over snapshots), with the terms that are   *)
(* pruned.                                                                 *)
(*                                                                         *)
(* e.db[t] is the current table, e.old[t] the table at the view's cursor    *)
(* and e.log[t] the rows written since: those inserted and those deleted,   *)
(* each by the number of delta rows.  e.fks holds the foreign keys          *)
(* <<referencing table, referenced table>> and e.lake says whether the      *)
(* sources are DuckLake tables.                                            *)
(***************************************************************************)
EXTENDS Queries

CONSTANT TinyRows   \* below this many delta rows keys are always probed

Unread(log) == Minus(log.ins, log.del)
Touched(log) == DOMAIN log.ins \union DOMAIN log.del
Count(log) == Total(log.ins, DOMAIN log.ins) + Total(log.del, DOMAIN log.del)

-----------------------------------------------------------------------------
(* The leaves of a join tree.                                              *)

RECURSIVE JoinLeaves(_, _)
JoinLeaves(q, padded) ==
    IF q.op # "join" THEN <<[plan |-> q, padded |-> padded]>>
    ELSE JoinLeaves(q.left, padded \/ q.kind \in {"right", "full"})
         \o JoinLeaves(q.right, padded \/ q.kind \in {"left", "full"})

\* The one table below a leaf, if its operators have one input each.
LeafScan(leaf) == IF Len(Leaves(leaf.plan)) = 1 THEN {Leaves(leaf.plan)[1]} ELSE {}

RECURSIVE HasOuter(_)
HasOuter(q) ==
    CASE q.op = "scan" -> FALSE
      [] q.op = "join" -> q.kind # "inner" \/ HasOuter(q.left) \/ HasOuter(q.right)
      [] q.op \in {"semi", "union"} -> HasOuter(q.left) \/ HasOuter(q.right)
      [] OTHER -> HasOuter(q.of)

Empties(L, e) == {i \in DOMAIN L : \E t \in LeafScan(L[i]) : Count(e.log[t]) = 0}
InsertOnly(L, e) == {i \in DOMAIN L : \E t \in LeafScan(L[i]) : e.log[t].del = Empty}
Tiny(L, e) ==
    {i \in DOMAIN L : \E t \in LeafScan(L[i]) :
        Count(e.log[t]) <= Max({TinyRows, (Total(e.db[t], DOMAIN e.db[t]) + 19) \div 20})}

\* A table that is a leaf twice is looked up as its last leaf.
LeafOf(L, t) == Max({i \in DOMAIN L : LeafScan(L[i]) = {t}})
FKRelations(L, e) ==
    {<<i, LeafOf(L, fk[2])>> : <<i, fk>> \in
        {p \in (DOMAIN L) \X e.fks :
            /\ LeafScan(L[p[1]]) = {p[2][1]}
            /\ \E j \in DOMAIN L : LeafScan(L[j]) = {p[2][2]}}}

\* A referenced leaf with insertions only: no old row can refer to them.
SkipBits(L, e) == {r[2] : r \in FKRelations(L, e)} \intersect InsertOnly(L, e)

-----------------------------------------------------------------------------
(* Key-domain probes: the columns that inner joins equate.                  *)

RECURSIVE BaseColumn(_, _), Origin(_, _, _), KeyPairs(_, _)
BaseColumn(q, c) ==
    CASE q.op = "scan" -> c
      [] q.op = "project" -> BaseColumn(q.of, q.items[c].of[1])
      [] q.op = "filter" -> BaseColumn(q.of, c)

Origin(q, n, c) ==
    IF q.op # "join" THEN [leaf |-> n, col |-> BaseColumn(q, c)]
    ELSE IF c <= Width(q.left) THEN Origin(q.left, n, c)
    ELSE Origin(q.right, n + Len(JoinLeaves(q.left, FALSE)), c - Width(q.left))

KeyPairs(q, n) ==
    IF q.op # "join" THEN {}
    ELSE LET m == n + Len(JoinLeaves(q.left, FALSE))
             l == Origin(q.left, n, q.on[1])
             r == Origin(q.right, m, q.on[2])
         IN (IF q.kind = "inner" THEN {<<l, r>>, <<r, l>>} ELSE {})
            \union KeyPairs(q.left, n) \union KeyPairs(q.right, m)

HaveMatch(X, c, Y, d) == \E x \in X, y \in Y : Equal(x[c], y[d])

\* A leaf of the term whose delta keys meet nothing on the other side.
KeyDomainEmpty(mask, q, L, e) ==
    \E p \in KeyPairs(q, 1) :
        LET from == p[1]  to == p[2]
        IN /\ from.leaf \in mask
           /\ \E t \in LeafScan(L[from.leaf]), u \in LeafScan(L[to.leaf]) :
                IF to.leaf \in mask
                THEN /\ from.leaf < to.leaf
                     /\ ~HaveMatch(Touched(e.log[t]), from.col, Touched(e.log[u]), to.col)
                ELSE ~HaveMatch(Touched(e.log[t]), from.col, DOMAIN e.db[u], to.col)

-----------------------------------------------------------------------------
(* The rules.  In a term the leaves of mask give their delta, the others    *)
(* the table at[i]; an outer join whose padded side has a delta is demoted  *)
(* to an inner join, and all of them when inner is set.                     *)

Demoted(kind, leftDelta, rightDelta) ==
    IF \/ kind = "left" /\ rightDelta
       \/ kind = "right" /\ leftDelta
       \/ kind = "full" /\ (leftDelta \/ rightDelta)
    THEN "inner" ELSE kind

\* Aggregates of the delta: the multiplicity is one more grouping key.
GroupedByWeight(R, keys, aggs) ==
    LET at(w) == {x \in DOMAIN R : R[x] = w}
        rows(w) == Times(w, Grouped(Once(at(w)), keys, aggs))
    IN FoldSet(LAMBDA w, S : Plus(rows(w), S), Empty, {R[x] : x \in DOMAIN R})

RECURSIVE AboveAggregate(_)
AboveAggregate(q) ==
    q.op = "group" \/ (q.op = "project" /\ AboveAggregate(q.of))

RECURSIVE Delta(_, _), Term(_, _, _, _)
Term(q, n, c, e) ==
    IF q.op # "join"
    THEN IF n \in c.mask THEN Delta(q, e) ELSE Eval(q, c.at[n])
    ELSE LET m == n + Len(JoinLeaves(q.left, FALSE))
             last == m + Len(JoinLeaves(q.right, FALSE)) - 1
             kind == IF c.inner THEN "inner"
                     ELSE IF c.keep THEN q.kind
                     ELSE Demoted(q.kind, \E i \in n .. m - 1 : i \in c.mask,
                                  \E i \in m .. last : i \in c.mask)
         IN Joined(kind, Term(q.left, n, c, e), Term(q.right, m, c, e), q.on,
                   Width(q.left), Width(q.right))

\* Terms with k deltas have sign (-1)^(k-1): the tables read are the current
\* ones, which already hold the deltas.
AlwaysAdded(mask) == 1
Sign(mask) == IF Cardinality(mask) % 2 = 0 THEN -1 ELSE 1
\* Which leaves changed, which of them need no term, and whether keys are probed.
JoinFacts(q, L, e, changed) ==
    [changed |-> changed,
     skip |-> IF Cardinality(changed) = 1 THEN SkipBits(L, e) ELSE {},
     probe |-> ~HasOuter(q) /\ (Cardinality(changed) = 1 \/ changed \subseteq Tiny(L, e))]
Masks(q, L, e, facts) ==
    {m \in SUBSET facts.changed :
        /\ m # {}
        /\ m \intersect facts.skip = {}
        /\ ~(facts.probe /\ KeyDomainEmpty(m, q, L, e))}
MaskTerm(q, L, e, m) ==
    Times(Sign(m), Term(q, 1, [mask |-> m, at |-> [i \in DOMAIN L |-> e.db],
                               inner |-> FALSE, keep |-> FALSE], e))
InclusionExclusion(q, L, e) ==
    FoldSet(LAMBDA m, R : Plus(MaskTerm(q, L, e, m), R), Empty,
            Masks(q, L, e, JoinFacts(q, L, e, DOMAIN L \ Empties(L, e))))

\* On snapshots: the delta of one leaf, those before it current, those after it old.
MeetsNothing(q, L, e, i) ==
    \E p \in KeyPairs(q, 1) : \E t \in LeafScan(L[i]), u \in LeafScan(L[p[2].leaf]) :
        /\ p[1].leaf = i
        /\ ~HaveMatch(Touched(e.log[t]), p[1].col,
                      DOMAIN (IF p[2].leaf > i THEN e.old[u] ELSE e.db[u]), p[2].col)
SnapshotTerm(q, L, e, i) ==
    Term(q, 1, [mask |-> {i}, at |-> [j \in DOMAIN L |-> IF j > i THEN e.old ELSE e.db],
                inner |-> L[i].padded, keep |-> ~L[i].padded], e)
Telescoped(q, L, e) ==
    FoldSet(LAMBDA i, R : Plus(SnapshotTerm(q, L, e, i), R), Empty,
            {i \in DOMAIN L \ Empties(L, e) : HasOuter(q) \/ ~MeetsNothing(q, L, e, i)})

JoinDelta(q, L, e) == IF e.lake THEN Telescoped(q, L, e) ELSE InclusionExclusion(q, L, e)
ScanDelta(log) == Net(Unread(log))
\* A condition on an aggregate says nothing of the change of the aggregate.
FilterDelta(q, d) ==
    IF AboveAggregate(q.of) THEN d ELSE Only(d, LAMBDA x : Above(x[q.col], q.above))
DistinctDelta(q, d) ==
    GroupedByWeight(d, [i \in 1 .. Width(q.of) |-> i], <<Agg("count_star", 0)>>)

Delta(q, e) ==
    CASE q.op = "scan" -> ScanDelta(e.log[q.table])
      [] q.op \in {"filter", "having"} -> FilterDelta(q, Delta(q.of, e))
      [] q.op = "project" -> Image(Delta(q.of, e), LAMBDA x : Items(x, q.items))
      [] q.op = "union" -> Plus(Delta(q.left, e), Delta(q.right, e))
      [] q.op = "join" -> JoinDelta(q, JoinLeaves(q, FALSE), e)
      [] q.op = "group" -> GroupedByWeight(Delta(q.of, e), q.keys, q.aggs)
      [] q.op = "distinct" -> DistinctDelta(q, Delta(q.of, e))
      [] q.op = "window" -> Delta(q.of, e)
=============================================================================
