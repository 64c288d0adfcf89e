---------------------------- MODULE SchemaProofs ----------------------------
(***************************************************************************)
(* Proofs about SchemaEvolution, for any tables, views, queries, names and  *)
(* number of statements.                                                   *)
(*                                                                         *)
(* That names stay unique and that the delta tables follow their tables     *)
(* needs nothing of the queries.  That the stored queries go on reading the *)
(* columns they were created over is proved for PlainQueries: those whose   *)
(* references the rewriting, which looks at names, can tell apart.          *)
(***************************************************************************)
EXTENDS SchemaEvolution, FiniteSetTheorems, TLAPS

-----------------------------------------------------------------------------
(* The invariants *)

\* Rewriting changes the names of references and of the output, nothing else.
SameShape(q, r) ==
    /\ DOMAIN q = DOMAIN r
    /\ \A p \in DOMAIN q :
          /\ q[p].from = r[p].from /\ q[p].derived = r[p].derived /\ q[p].union = r[p].union
          /\ DOMAIN q[p].refs = DOMAIN r[p].refs /\ Len(q[p].out) = Len(r[p].out)
          /\ \A k \in DOMAIN q[p].refs : q[p].refs[k].of = r[p].refs[k].of
ShapeKept ==
    \A v \in Views :
        /\ SameShape(stored[v], Queries[v])
        /\ \A n \in DOMAIN aux[v] :
              aux[v][n].role = Metadata[v][n].role /\ aux[v][n].table = Metadata[v][n].table

\* The guards under which a statement was issued hold until it is done.
Fits(s) ==
    LET names == Named(s.table, columns)
    IN  /\ s.op = "add" => s.name \notin names
        /\ s.op = "drop" => s.name \in names
        /\ s.op = "rename" => s.name \in names /\ s.new \notin names
\* The column that a statement adds is none that the table has.
IsNew(a) == a.column <= Known + issued /\ a.column \notin DOMAIN columns[a.statement.table]
StatementInv ==
    /\ \A t \in Tables : \A c \in DOMAIN columns[t] : c <= Known + issued
    /\ alter # Idle =>
          /\ Fits(alter.statement) /\ IsNew(alter)
          /\ alter.synced \/ alter.statement.op # "rename" => alter.views = <<>>
    /\ \A t \in Tables : torn[t] # Idle =>
          /\ Fits(torn[t].statement) /\ IsNew(torn[t])
          /\ alter # Idle /\ alter.statement.table = t =>
                torn[t].statement = alter.statement /\ torn[t].column = alter.column

\* The delta table is as the table, or as the statement will leave it, unless
\* the table strayed from it or the statement at work is about to let it.
AfterIt(t) == AlteredColumns(columns[t], Unfinished(t).statement, Unfinished(t).column)
Mirrors(t) == IF Settled(t) THEN delta[t] = columns[t] ELSE delta[t] \in {columns[t], AfterIt(t)}
DeltaInv ==
    /\ \A t \in Tables \ strayed : Mirrors(t)
    /\ alter # Idle /\ alter.synced /\ ~alter.missed /\ alter.statement.table \notin strayed =>
          delta[alter.statement.table] = AfterIt(alter.statement.table)

\* What a view calls column c of table t: by its name, or by the one that an
\* unfinished statement gives it; by the latter in the views that the
\* statement has passed.  No view uses a column that is being dropped.
Renaming(t) == ~Settled(t) /\ Unfinished(t).statement.op = "rename"
Follows(v, t, c, name) ==
    /\ c \in DOMAIN columns[t]
    /\ \/ name = columns[t][c]
       \/ Renaming(t) /\ columns[t][c] = Unfinished(t).statement.name /\ name = Unfinished(t).statement.new
    /\ alter # Idle /\ alter.statement.table = t =>
          /\ alter.statement.op = "rename" /\ v \notin Range(alter.views) => name # alter.statement.name
          /\ alter.statement.op = "drop" => name # alter.statement.name
Original(t, name) == ColumnOf(FirstColumns[t], name)
ReferenceFollows(v, p, k, o, n) ==
    LET t == Queries[v][o].from[n].table
        name == Queries[v][p].refs[k].name
    IN  IF t # NoName THEN Follows(v, t, Original(t, name), stored[v][p].refs[k].name)
        ELSE stored[v][p].refs[k].name = name
EntryFollows(v, n) ==
    LET e == Metadata[v][n]
    IN  IF e.role # "stable" THEN Follows(v, e.table, Original(e.table, e.name), aux[v][n].name)
        ELSE aux[v][n].name = e.name
QueryInv ==
    /\ \A v \in Views : \A p \in DOMAIN Queries[v] : \A k \in DOMAIN Queries[v][p].refs :
       \A o \in DOMAIN Queries[v] : \A n \in DOMAIN Queries[v][o].from :
          Reads(v, p, k, o, n) => ReferenceFollows(v, p, k, o, n)
    /\ \A v \in Views : \A n \in DOMAIN Metadata[v] : EntryFollows(v, n)
    /\ \A v \in Views : IF Queries[v][<<>>].union
                        THEN \A p \in DOMAIN Queries[v] : stored[v][p].out = Queries[v][p].out
                        ELSE Output(stored[v]) = Output(Queries[v])

-----------------------------------------------------------------------------
(* Lemmas about the operators *)

\* The views of a statement, one after the other.
LEMMA SetToSeqOK ==
    ASSUME NEW S, IsFiniteSet(S)
    PROVE  SetToSeq(S) \in Seq(S) /\ Range(SetToSeq(S)) = S
<1> DEFINE n == Cardinality(S)
           f == SetToSeq(S)
<1>1. n \in Nat /\ ExistsBijection(1 .. n, S)
  BY FS_CardinalityType
<1>2. PICK g \in Bijection(1 .. n, S) : TRUE
  BY <1>1 DEF ExistsBijection
<1>3. g \in [1 .. n -> S] /\ IsInjective(g)
  BY <1>2 DEF Bijection, Injection, IsInjective
<1>4. f \in [1 .. n -> S] /\ IsInjective(f)
  BY <1>3 DEF SetToSeq
<1>5. f \in Surjection(1 .. n, S)
  <2>1. f \in Injection(1 .. n, S)
    BY <1>4 DEF Injection, IsInjective
  <2>2. IsFiniteSet(1 .. n) /\ Cardinality(1 .. n) = n
    BY <1>1, FS_Interval
  <2> QED
    BY <2>1, <2>2, FS_Injection
<1>6. \A x \in S : \E i \in 1 .. n : f[i] = x
  BY <1>5 DEF Surjection
<1> HIDE DEF n, f
<1>7. f \in Seq(S)
  BY <1>1, <1>4
<1>8. Range(f) = S
  BY <1>4, <1>6 DEF Range
<1> QED
  BY <1>7, <1>8 DEF f

\* The first and the other views of a statement.
LEMMA HeadTail ==
    ASSUME NEW S, NEW s \in Seq(S), s # <<>>
    PROVE  /\ Head(s) \in S /\ Tail(s) \in Seq(S)
           /\ Range(s) = {Head(s)} \union Range(Tail(s))
           /\ \A i \in DOMAIN Tail(s) : Tail(s)[i] = s[i + 1] /\ i + 1 \in DOMAIN s
<1>1. Len(s) \in Nat \ {0} /\ DOMAIN s = 1 .. Len(s) /\ Head(s) = s[1]
  OBVIOUS
<1>2. Tail(s) \in Seq(S) /\ DOMAIN Tail(s) = 1 .. Len(s) - 1
  BY <1>1
<1>3. \A i \in 1 .. Len(s) - 1 : Tail(s)[i] = s[i + 1]
  BY <1>1
<1>4. \A i \in 1 .. Len(s) : i = 1 \/ (i - 1 \in 1 .. Len(s) - 1 /\ Tail(s)[i - 1] = s[i])
  <2> SUFFICES ASSUME NEW i \in 1 .. Len(s), i # 1
               PROVE  i - 1 \in 1 .. Len(s) - 1 /\ Tail(s)[i - 1] = s[i]
    OBVIOUS
  <2>1. PICK j \in 1 .. Len(s) - 1 : j + 1 = i /\ j = i - 1
    BY <1>1
  <2>2. Tail(s)[j] = s[i]
    BY <1>3, <2>1
  <2> QED
    BY <2>1, <2>2
<1>5. Range(s) \subseteq {Head(s)} \union Range(Tail(s))
  BY <1>1, <1>2, <1>4 DEF Range
<1>6. {Head(s)} \union Range(Tail(s)) \subseteq Range(s)
  <2>1. Head(s) \in Range(s)
    BY <1>1 DEF Range
  <2>2. \A i \in 1 .. Len(s) - 1 : i + 1 \in 1 .. Len(s)
    BY <1>1
  <2> QED
    BY <2>1, <2>2, <1>1, <1>2, <1>3 DEF Range
<1> QED
  BY <1>1, <1>2, <1>3, <1>5, <1>6

\* The column of a name is the one that has it.
LEMMA ColumnOfOK ==
    ASSUME NEW f, IsLayout(f), NEW c \in DOMAIN f
    PROVE  ColumnOf(f, f[c]) = c
BY DEF IsLayout, IsInjective, ColumnOf

LEMMA ColumnOfName ==
    ASSUME NEW f, NEW name \in Range(f)
    PROVE  ColumnOf(f, name) \in DOMAIN f /\ f[ColumnOf(f, name)] = name
BY DEF ColumnOf, Range

\* ALTER TABLE leaves a column a name, and a name to one column; a statement
\* that has been done changes nothing more.
LEMMA AlteredLayout ==
    ASSUME NEW f, IsLayout(f), NEW s \in Statements, NEW c \in Nat
    PROVE  /\ IsLayout(AlteredColumns(f, s, c))
           /\ DOMAIN AlteredColumns(f, s, c) \subseteq DOMAIN f \union {c}
           /\ s.op # "add" => DOMAIN AlteredColumns(f, s, c) \subseteq DOMAIN f
           /\ s.op = "add" => \A x \in DOMAIN f \ {c} : /\ x \in DOMAIN AlteredColumns(f, s, c)
                                                      /\ AlteredColumns(f, s, c)[x] = f[x]
           /\ s.op = "drop" => \A x \in DOMAIN f :
                f[x] # s.name => x \in DOMAIN AlteredColumns(f, s, c) /\ AlteredColumns(f, s, c)[x] = f[x]
           /\ s.op = "rename" /\ s.name \in Range(f) /\ s.new \notin Range(f) =>
                /\ DOMAIN AlteredColumns(f, s, c) = DOMAIN f
                /\ \A x \in DOMAIN f : AlteredColumns(f, s, c)[x] = IF f[x] = s.name THEN s.new ELSE f[x]
<1> DEFINE g == AlteredColumns(f, s, c)
<1>1. s.op \in {"add", "drop", "rename"} /\ s.name \in Names /\ s.new \in Names
  BY DEF Statements
<1>2. /\ DOMAIN f \subseteq Nat /\ f \in [DOMAIN f -> Names]
      /\ \A x, y \in DOMAIN f : f[x] = f[y] => x = y
  BY DEF IsLayout, IsInjective
<1>3. CASE s.op = "add" /\ s.name \notin Range(f)
  <2>1. g = With(f, c, s.name)
    BY <1>3 DEF AlteredColumns
  <2>2. g = [x \in DOMAIN f \union {c} |-> IF x = c THEN s.name ELSE f[x]]
    BY <2>1 DEF With
  <2>3. \A x \in DOMAIN f : f[x] # s.name
    BY <1>3 DEF Range
  <2> HIDE DEF g
  <2>4. IsLayout(g)
    BY <1>1, <1>2, <2>2, <2>3 DEF IsLayout, IsInjective
  <2> QED
    BY <2>2, <2>4, <1>3 DEF g
<1>4. CASE s.op = "drop" /\ s.name \in Range(f)
  <2>1. g = Without(f, ColumnOf(f, s.name))
    BY <1>4 DEF AlteredColumns
  <2>2. g = [x \in DOMAIN f \ {ColumnOf(f, s.name)} |-> f[x]]
    BY <2>1 DEF Without
  <2>3. f[ColumnOf(f, s.name)] = s.name
    BY <1>4, ColumnOfName
  <2> HIDE DEF g
  <2>4. IsLayout(g)
    BY <1>1, <1>2, <2>2 DEF IsLayout, IsInjective
  <2> QED
    BY <2>2, <2>3, <2>4, <1>4 DEF g
<1>5. CASE s.op = "rename" /\ s.name \in Range(f) /\ s.new \notin Range(f)
  <2> DEFINE d == ColumnOf(f, s.name)
  <2>1. g = [f EXCEPT ![d] = s.new]
    BY <1>5 DEF AlteredColumns
  <2>2. d \in DOMAIN f /\ f[d] = s.name
    BY <1>5, ColumnOfName
  <2>3. \A x \in DOMAIN f : f[x] # s.new
    BY <1>5 DEF Range
  <2> HIDE DEF g, d
  <2>4. g = [x \in DOMAIN f |-> IF x = d THEN s.new ELSE f[x]]
    BY <2>1, <1>2
  <2>5. IsLayout(g)
    BY <1>1, <1>2, <2>2, <2>3, <2>4 DEF IsLayout, IsInjective
  <2>6. \A x \in DOMAIN f : (x = d) <=> (f[x] = s.name)
    BY <1>2, <2>2
  <2> QED
    BY <2>4, <2>5, <2>6, <1>5 DEF g
<1>6. CASE /\ ~(s.op = "add" /\ s.name \notin Range(f))
           /\ ~(s.op = "drop" /\ s.name \in Range(f))
           /\ ~(s.op = "rename" /\ s.name \in Range(f) /\ s.new \notin Range(f))
  <2>1. g = f
    BY <1>6 DEF AlteredColumns
  <2> QED
    BY <2>1, <1>6
<1> QED
  BY <1>3, <1>4, <1>5, <1>6

LEMMA AlteredTwice ==
    ASSUME NEW f, IsLayout(f), NEW s \in Statements, NEW c \in Nat,
           s.op = "add" => s.name \notin Range(f),
           s.op = "rename" => s.name \in Range(f) /\ s.new \notin Range(f)
    PROVE  AlteredColumns(AlteredColumns(f, s, c), s, c) = AlteredColumns(f, s, c)
<1> DEFINE g == AlteredColumns(f, s, c)
<1>1. s.op \in {"add", "drop", "rename"}
  BY DEF Statements
<1>2. CASE s.op = "add"
  <2>1. g = With(f, c, s.name)
    BY <1>2 DEF AlteredColumns
  <2>2. s.name \in Range(g)
    BY <2>1 DEF With, Range
  <2> QED
    BY <1>2, <2>2 DEF AlteredColumns
<1>3. CASE s.op = "drop"
  <2>1. s.name \notin Range(g)
    <3>1. CASE s.name \in Range(f)
      <4> DEFINE d == ColumnOf(f, s.name)
      <4>1. g = Without(f, d)
        BY <1>3, <3>1 DEF AlteredColumns
      <4>2. \A x \in DOMAIN f : f[x] = s.name => x = d
        BY ColumnOfOK
      <4> HIDE DEF d, g
      <4> QED
        BY <4>1, <4>2 DEF Without, Range
    <3>2. CASE s.name \notin Range(f)
      <4>1. g = f
        BY <1>3, <3>2 DEF AlteredColumns
      <4> QED
        BY <3>2, <4>1
    <3> QED
      BY <3>1, <3>2
  <2> QED
    BY <1>3, <2>1 DEF AlteredColumns
<1>4. CASE s.op = "rename"
  <2>1. /\ DOMAIN g = DOMAIN f
        /\ \A x \in DOMAIN f : g[x] = IF f[x] = s.name THEN s.new ELSE f[x]
    BY <1>4, AlteredLayout
  <2>2. s.name # s.new
    BY <1>4
  <2> HIDE DEF g
  <2>3. s.name \notin Range(g)
    BY <2>1, <2>2 DEF Range
  <2> QED
    BY <1>4, <2>3 DEF AlteredColumns, g
<1> QED
  BY <1>1, <1>2, <1>3, <1>4

\* Sequences are functions on 1 .. Len.
LEMMA SeqElements ==
    ASSUME NEW S, NEW s \in Seq(S)
    PROVE  /\ Len(s) \in Nat /\ DOMAIN s = 1 .. Len(s) /\ s \in [1 .. Len(s) -> S]
           /\ \A i \in DOMAIN s : s[i] \in S
OBVIOUS

LEMMA SeqOfFunction ==
    ASSUME NEW S, NEW n \in Nat, NEW f \in [1 .. n -> S]
    PROVE  f \in Seq(S) /\ Len(f) = n
OBVIOUS

\* What the rewriting of a query leaves.
LEMMA RewrittenOK ==
    ASSUME NEW q, IsQuery(q), NEW t \in Tables, NEW old \in Words, NEW new \in Words
    PROVE  LET w == RewriteQueryNodeScoped(q, t, old, new)
           IN  /\ IsQuery(w) /\ SameShape(w, q)
               /\ \A p \in DOMAIN q : w[p].out = q[p].out
               /\ \A p \in DOMAIN q : \A k \in DOMAIN q[p].refs :
                     w[p].refs[k].name = IF ColumnRefTargetsTable(q, p, q[p].refs[k].of, t)
                                         THEN Rename(q[p].refs[k].name, old, new)
                                         ELSE q[p].refs[k].name
<1> DEFINE w == RewriteQueryNodeScoped(q, t, old, new)
           R == [of : Words \union {NoName}, name : Words]
           hit(p, k) == ColumnRefTargetsTable(q, p, q[p].refs[k].of, t)
           rr(p) == [k \in DOMAIN q[p].refs |-> RewriteReference(q, p, q[p].refs[k], t, old, new)]
<1>1. /\ DOMAIN q \subseteq Seq(Nat) /\ q \in [DOMAIN q -> Blocks]
      /\ <<>> \in DOMAIN q /\ (q[<<>>].union => <<1>> \in DOMAIN q)
      /\ \A p \in DOMAIN q : Len(q[p].out) <= Len(q[p].refs)
  BY DEF IsQuery
<1>2. w = [p \in DOMAIN q |-> [q[p] EXCEPT !.refs = rr(p)]]
  BY DEF RewriteQueryNodeScoped
<1> HIDE DEF w
<1> HIDE DEF hit
<1>3. ASSUME NEW p \in DOMAIN q
      PROVE  /\ rr(p) \in Seq(R) /\ DOMAIN rr(p) = DOMAIN q[p].refs /\ Len(rr(p)) = Len(q[p].refs)
             /\ \A k \in DOMAIN q[p].refs :
                   /\ rr(p)[k].of = q[p].refs[k].of
                   /\ rr(p)[k].name = IF hit(p, k) THEN Rename(q[p].refs[k].name, old, new)
                                      ELSE q[p].refs[k].name
  <2>1. q[p].refs \in Seq(R)
    BY <1>1 DEF Blocks
  <2>2. /\ \A k \in DOMAIN q[p].refs : q[p].refs[k] \in R
        /\ Len(q[p].refs) \in Nat /\ DOMAIN q[p].refs = 1 .. Len(q[p].refs)
    <3> HIDE DEF R
    <3> QED
      BY <2>1, SeqElements
  <2>3. ASSUME NEW k \in DOMAIN q[p].refs
        PROVE  /\ rr(p)[k] \in R /\ rr(p)[k].of = q[p].refs[k].of
               /\ rr(p)[k].name = IF hit(p, k) THEN Rename(q[p].refs[k].name, old, new)
                                  ELSE q[p].refs[k].name
    BY <2>2 DEF Rename, RewriteReference, hit
  <2>4. rr(p) \in [1 .. Len(q[p].refs) -> R] /\ Len(q[p].refs) \in Nat
    <3> HIDE DEF R
    <3> QED
      BY <2>2, <2>3
  <2>5. rr(p) \in Seq(R) /\ Len(rr(p)) = Len(q[p].refs)
    <3> HIDE DEF R, rr
    <3> QED
      BY <2>4, SeqOfFunction
  <2>6. DOMAIN rr(p) = DOMAIN q[p].refs
    OBVIOUS
  <2> HIDE DEF R, rr
  <2> QED
    BY <2>3, <2>5, <2>6
<1> HIDE DEF rr
<1>4. ASSUME NEW p \in DOMAIN q
      PROVE  /\ w[p] \in Blocks /\ w[p].refs = rr(p) /\ w[p].from = q[p].from /\ w[p].out = q[p].out
             /\ w[p].derived = q[p].derived /\ w[p].union = q[p].union
  BY <1>1, <1>2, <1>3 DEF Blocks, R
<1>5. DOMAIN w = DOMAIN q /\ w \in [DOMAIN w -> Blocks]
  BY <1>2, <1>4
<1>6. IsQuery(w)
  <2>1. \A p \in DOMAIN w : Len(w[p].out) <= Len(w[p].refs)
    BY <1>1, <1>3, <1>4, <1>5
  <2> QED
    BY <1>1, <1>4, <1>5, <2>1 DEF IsQuery
<1>7. SameShape(w, q)
  BY <1>3, <1>4, <1>5 DEF SameShape
<1> QED
  BY <1>3, <1>4, <1>6, <1>7 DEF w, hit

\* The names of a query's columns.
LEMMA OutputOK ==
    ASSUME NEW q, IsQuery(q)
    PROVE  /\ Output(q) \in Seq(Words)
           /\ ~q[<<>>].union => Len(Output(q)) = Len(q[<<>>].out)
<1> DEFINE b == IF q[<<>>].union THEN q[<<1>>] ELSE q[<<>>]
<1>1. b \in Blocks /\ Len(b.out) <= Len(b.refs)
  BY DEF IsQuery
<1>2. /\ b.out \in Seq(Words \union {NoName})
      /\ b.refs \in Seq([of : Words \union {NoName}, name : Words])
  BY <1>1 DEF Blocks
<1>3. Output(q) = [n \in DOMAIN b.out |-> IF b.out[n] # NoName THEN b.out[n] ELSE b.refs[n].name]
  BY DEF Output
<1>9. q[<<>>].union \/ b = q[<<>>]
  OBVIOUS
<1> DEFINE R == [of : Words \union {NoName}, name : Words]
<1> HIDE DEF b
<1>4. DOMAIN b.out = 1 .. Len(b.out) /\ Len(b.out) \in Nat /\ Len(b.refs) \in Nat
      /\ DOMAIN b.refs = 1 .. Len(b.refs)
  BY <1>2
<1>5. \A n \in DOMAIN b.out : n \in DOMAIN b.refs
  BY <1>1, <1>4
<1>6. \A n \in DOMAIN b.out : b.out[n] \in Words \union {NoName} /\ b.refs[n] \in R
  <2>1. b.refs \in Seq(R) /\ b.out \in Seq(Words \union {NoName})
    BY <1>2
  <2> HIDE DEF R
  <2> QED
    BY <2>1, <1>5, SeqElements
<1>7. Output(q) \in [1 .. Len(b.out) -> Words]
  BY <1>3, <1>4, <1>6
<1>8. Output(q) \in Seq(Words) /\ Len(Output(q)) = Len(b.out)
  BY <1>7, <1>4
<1> QED
  BY <1>8, <1>9

\* A query whose columns are called as before.
LEMMA PreservedOK ==
    ASSUME NEW q, IsQuery(q), NEW out \in Seq(Words), ~q[<<>>].union => Len(out) = Len(q[<<>>].out)
    PROVE  LET w == PreserveOutput(q, out)
           IN  /\ IsQuery(w) /\ SameShape(w, q)
               /\ \A p \in DOMAIN q : w[p].refs = q[p].refs
               /\ IF q[<<>>].union THEN w = q ELSE Output(w) = out
<1> DEFINE w == PreserveOutput(q, out)
<1>1. /\ DOMAIN q \subseteq Seq(Nat) /\ q \in [DOMAIN q -> Blocks]
      /\ <<>> \in DOMAIN q /\ (q[<<>>].union => <<1>> \in DOMAIN q)
      /\ \A p \in DOMAIN q : Len(q[p].out) <= Len(q[p].refs)
  BY DEF IsQuery
<1>2. CASE q[<<>>].union
  <2>1. w = q
    BY <1>2 DEF PreserveOutput
  <2> QED
    BY <2>1, <1>2 DEF SameShape
<1>3. CASE ~q[<<>>].union
  <2>1. w = [q EXCEPT ![<<>>].out = out]
    BY <1>3 DEF PreserveOutput
  <2> HIDE DEF w
  <2>2. out \in Seq(Words \union {NoName})
    OBVIOUS
  <2>3. /\ DOMAIN w = DOMAIN q
        /\ \A p \in DOMAIN q : p # <<>> => w[p] = q[p]
        /\ w[<<>>] = [q[<<>>] EXCEPT !.out = out]
    BY <2>1, <1>1
  <2>4. q[<<>>] \in Blocks
    BY <1>1
  <2>5. /\ w[<<>>] \in Blocks /\ w[<<>>].out = out /\ w[<<>>].refs = q[<<>>].refs
        /\ w[<<>>].from = q[<<>>].from /\ w[<<>>].derived = q[<<>>].derived
        /\ w[<<>>].union = q[<<>>].union
    BY <2>2, <2>3, <2>4 DEF Blocks
  <2>6. w \in [DOMAIN w -> Blocks]
    <3>1. \A p \in DOMAIN q : w[p] \in Blocks
      BY <2>3, <2>5, <1>1
    <3>2. w = [p \in DOMAIN q |-> w[p]]
      BY <2>1, <1>1
    <3> QED
      BY <3>1, <3>2, <2>3
  <2>7. \A p \in DOMAIN q : /\ Len(w[p].out) = Len(q[p].out) /\ w[p].refs = q[p].refs
                            /\ w[p].from = q[p].from /\ w[p].derived = q[p].derived
                            /\ w[p].union = q[p].union
    BY <2>3, <2>5, <1>3
  <2>8. IsQuery(w)
    BY <1>1, <1>3, <2>3, <2>6, <2>7 DEF IsQuery
  <2>9. SameShape(w, q)
    BY <2>3, <2>7 DEF SameShape
  <2>10. Output(w) = out
    <3>1. Output(w) = [n \in DOMAIN out |-> IF out[n] # NoName THEN out[n] ELSE q[<<>>].refs[n].name]
      BY <2>5, <1>3 DEF Output
    <3>2. \A n \in DOMAIN out : out[n] \in Words
      OBVIOUS
    <3>3. Output(w) = [n \in DOMAIN out |-> out[n]]
      BY <3>1, <3>2, NamesAssumption
    <3> QED
      BY <3>3
  <2> QED
    BY <2>7, <2>8, <2>9, <2>10, <1>3 DEF w
<1> QED
  BY <1>2, <1>3

LEMMA SameShapeTrans ==
    ASSUME NEW q, NEW r, NEW s, SameShape(q, r), SameShape(r, s)
    PROVE  SameShape(q, s)
BY DEF SameShape

\* The stored query of a view after a rename: every reference to the table by
\* its old name has the new one.
LEMMA RewriteStoredOK ==
    ASSUME NEW v \in Views, IsQuery(stored[v]), SameShape(stored[v], Queries[v]),
           NEW t \in Tables, NEW old \in Words, NEW new \in Words
    PROVE  LET q == stored[v]
               w == RewriteStored(v, t, old, new)
           IN  /\ IsQuery(w) /\ SameShape(w, Queries[v])
               /\ \A p \in DOMAIN q : \A k \in DOMAIN q[p].refs :
                     w[p].refs[k].name = IF ColumnRefTargetsTable(q, p, q[p].refs[k].of, t)
                                         THEN Rename(q[p].refs[k].name, old, new)
                                         ELSE q[p].refs[k].name
               /\ IF q[<<>>].union THEN \A p \in DOMAIN q : w[p].out = q[p].out
                  ELSE Output(w) \in {Output(q), Output(Queries[v])}
<1> DEFINE q == stored[v]
           x == RewriteQueryNodeScoped(q, t, old, new)
           out == Output(Queries[v])
           w == RewriteStored(v, t, old, new)
           hit(p, k) == ColumnRefTargetsTable(q, p, q[p].refs[k].of, t)
<1>1. IsQuery(Queries[v]) /\ out \in Seq(Words)
  BY ViewsAssumption, OutputOK
<1>2. /\ IsQuery(x) /\ SameShape(x, q)
      /\ \A p \in DOMAIN q : x[p].out = q[p].out
      /\ \A p \in DOMAIN q : \A k \in DOMAIN q[p].refs :
            x[p].refs[k].name = IF hit(p, k) THEN Rename(q[p].refs[k].name, old, new) ELSE q[p].refs[k].name
  BY RewrittenOK
<1>3. /\ <<>> \in DOMAIN q /\ q[<<>>].union = Queries[v][<<>>].union
      /\ Len(q[<<>>].out) = Len(Queries[v][<<>>].out)
      /\ x[<<>>].union = q[<<>>].union /\ Len(x[<<>>].out) = Len(q[<<>>].out)
  BY <1>2 DEF SameShape, IsQuery
<1>4. ~x[<<>>].union => Len(out) = Len(x[<<>>].out)
  BY <1>1, <1>3, OutputOK
<1>5. CASE References(v, t, old)
  <2>1. w = PreserveOutput(x, out)
    BY <1>5 DEF RewriteStored
  <2> HIDE DEF w, x, out, hit
  <2>2. /\ IsQuery(w) /\ SameShape(w, x)
        /\ \A p \in DOMAIN x : w[p].refs = x[p].refs
        /\ IF x[<<>>].union THEN w = x ELSE Output(w) = out
    BY <1>1, <1>2, <1>4, <2>1, PreservedOK
  <2>3. DOMAIN x = DOMAIN q
    BY <1>2 DEF SameShape
  <2>4. SameShape(w, Queries[v])
    BY <1>2, <2>2, SameShapeTrans
  <2>5. \A p \in DOMAIN q : \A k \in DOMAIN q[p].refs :
            w[p].refs[k].name = IF hit(p, k) THEN Rename(q[p].refs[k].name, old, new) ELSE q[p].refs[k].name
    BY <1>2, <2>2, <2>3
  <2>6. IF q[<<>>].union THEN \A p \in DOMAIN q : w[p].out = q[p].out ELSE Output(w) = out
    BY <1>2, <1>3, <2>2
  <2> QED
    BY <2>2, <2>4, <2>5, <2>6 DEF w, out, hit
<1>6. CASE ~References(v, t, old)
  <2>1. w = q
    BY <1>6 DEF RewriteStored
  <2>2. \A p \in DOMAIN q : \A k \in DOMAIN q[p].refs : hit(p, k) => q[p].refs[k].name # old
    BY <1>6 DEF References
  <2> HIDE DEF hit, w
  <2>3. \A p \in DOMAIN q : \A k \in DOMAIN q[p].refs :
            q[p].refs[k].name = IF hit(p, k) THEN Rename(q[p].refs[k].name, old, new) ELSE q[p].refs[k].name
    BY <2>2 DEF Rename
  <2> QED
    BY <2>1, <2>3 DEF hit, w
<1> QED
  BY <1>5, <1>6

\* The metadata of a view after a rename.
LEMMA RewriteAuxOK ==
    ASSUME NEW v \in Views, aux[v] \in Seq(Entries),
           NEW t \in Tables, NEW old \in Words, NEW new \in Words
    PROVE  LET w == RewriteAux(v, t, old, new)
           IN  /\ w \in Seq(Entries) /\ Len(w) = Len(aux[v]) /\ DOMAIN w = DOMAIN aux[v]
               /\ \A n \in DOMAIN aux[v] :
                     /\ w[n].role = aux[v][n].role /\ w[n].table = aux[v][n].table
                     /\ w[n].name = IF \/ aux[v][n].role = "group"
                                       \/ aux[v][n].role = "source" /\ aux[v][n].table = t
                                    THEN Rename(aux[v][n].name, old, new) ELSE aux[v][n].name
<1> DEFINE w == RewriteAux(v, t, old, new)
           hit(n) == aux[v][n].role = "group" \/ (aux[v][n].role = "source" /\ aux[v][n].table = t)
<1>1. /\ Len(aux[v]) \in Nat /\ DOMAIN aux[v] = 1 .. Len(aux[v])
      /\ \A n \in DOMAIN aux[v] : aux[v][n] \in Entries
  BY SeqElements
<1>2. w = [n \in DOMAIN aux[v] |->
              IF hit(n) THEN [aux[v][n] EXCEPT !.name = Rename(aux[v][n].name, old, new)] ELSE aux[v][n]]
  BY DEF RewriteAux
<1> HIDE DEF w, hit
<1>3. \A n \in DOMAIN aux[v] : Rename(aux[v][n].name, old, new) \in Words
  BY <1>1 DEF Rename, Entries
<1>4. ASSUME NEW n \in DOMAIN aux[v]
      PROVE  /\ w[n] \in Entries /\ w[n].role = aux[v][n].role /\ w[n].table = aux[v][n].table
             /\ w[n].name = IF hit(n) THEN Rename(aux[v][n].name, old, new) ELSE aux[v][n].name
  BY <1>1, <1>2, <1>3 DEF Entries
<1>5. w \in [1 .. Len(aux[v]) -> Entries]
  BY <1>1, <1>2, <1>4
<1>6. w \in Seq(Entries) /\ Len(w) = Len(aux[v]) /\ DOMAIN w = DOMAIN aux[v]
  BY <1>1, <1>5, SeqOfFunction
<1> QED
  BY <1>4, <1>6 DEF w, hit

-----------------------------------------------------------------------------
(* Types *)

TypesInv == TypeOK /\ ShapeKept

LEMMA TypesInit == Init => TypesInv
<1> SUFFICES ASSUME Init PROVE TypesInv
  OBVIOUS
<1> USE DEF Init
<1>1. AreLayouts(columns) /\ AreLayouts(delta)
  BY ColumnsAssumption
<1>2. /\ DOMAIN stored = Views /\ \A v \in Views : IsQuery(stored[v])
      /\ DOMAIN aux = Views /\ \A v \in Views : aux[v] \in Seq(Entries)
  BY ViewsAssumption
<1>3. torn \in [Tables -> Alters \union {Idle}] /\ \A t \in Tables : torn[t] = Idle
  OBVIOUS
<1>4. issued \in 0 .. MaxAlters /\ strayed \subseteq Tables
  BY ColumnsAssumption
<1>5. ShapeKept
  BY DEF ShapeKept, SameShape
<1> QED
  BY <1>1, <1>2, <1>3, <1>4, <1>5 DEF TypesInv, TypeOK

\* What a statement is when it is issued.
LEMMA IssueOK ==
    ASSUME TypesInv, NEW op \in {"add", "drop", "rename"}, NEW t \in Tables,
           NEW name \in Names, NEW new \in Names, NEW views \in Seq(Views),
           \A n \in DOMAIN views : t \in Sources[views[n]],
           Issue(op, t, name, new, views)
    PROVE  /\ alter = Idle /\ alter' # Idle /\ alter' \in Alters
           /\ alter'.statement = [op |-> op, table |-> t, name |-> name, new |-> new]
           /\ alter'.views = views /\ ~alter'.synced
           /\ alter'.column = (IF torn[t] = Idle THEN Known + 1 + issued ELSE torn[t].column)
           /\ torn[t] # Idle => torn[t].statement = alter'.statement
           /\ issued' = issued + 1 /\ issued' \in 0 .. MaxAlters /\ refused' = Idle
           /\ UNCHANGED <<columns, delta, stored, aux, torn, strayed>>
<1> DEFINE s == [op |-> op, table |-> t, name |-> name, new |-> new]
           c == IF torn[t] = Idle THEN Known + 1 + issued ELSE torn[t].column
<1>1. /\ alter = Idle /\ issued < MaxAlters /\ issued' = issued + 1 /\ refused' = Idle
      /\ torn[t] # Idle => torn[t].statement = s
      /\ alter' = [statement |-> s, views |-> views, synced |-> FALSE, missed |-> FALSE, column |-> c]
      /\ UNCHANGED <<columns, delta, stored, aux, torn, strayed>>
  BY DEF Issue, Fresh
<1>2. issued \in Nat /\ Known \in Nat /\ MaxAlters \in Nat
  BY ColumnsAssumption DEF TypesInv, TypeOK
<1>3. c \in Nat
  <2>1. torn[t] \in Alters \union {Idle}
    BY DEF TypesInv, TypeOK
  <2>2. torn[t] # Idle => torn[t].column \in Nat
    BY <2>1 DEF Alters
  <2> QED
    BY <1>2, <2>2
<1>4. s \in Statements
  BY DEF Statements
<1> HIDE DEF s, c
<1>5. alter' \in Alters
  BY <1>1, <1>3, <1>4 DEF Alters
<1>6. alter' # Idle
  BY <1>5, NamesAssumption
<1> QED
  BY <1>1, <1>2, <1>5, <1>6 DEF s, c

\* The three ways to issue one.
LEMMA IssuedOK ==
    ASSUME TypesInv, NEW t \in Tables, NEW name \in Names, NEW new \in Names,
           AddColumn(t, name) \/ DropColumn(t, name) \/ RenameColumn(t, name, new)
    PROVE  /\ alter = Idle /\ alter' # Idle /\ alter' \in Alters /\ alter'.statement \in Statements
           /\ alter'.statement.table = t /\ alter'.statement.name = name /\ ~alter'.synced
           /\ \A n \in DOMAIN alter'.views : t \in Sources[alter'.views[n]]
           /\ alter'.column = (IF torn[t] = Idle THEN Known + 1 + issued ELSE torn[t].column)
           /\ torn[t] # Idle => torn[t].statement = alter'.statement
           /\ issued' = issued + 1 /\ issued' \in 0 .. MaxAlters /\ refused' = Idle
           /\ UNCHANGED <<columns, delta, stored, aux, torn, strayed>>
           /\ Fits(alter'.statement)
           /\ alter'.statement.op = "rename" => Range(alter'.views) = DependentViews(t)
           /\ alter'.statement.op # "rename" => alter'.views = <<>>
           /\ alter'.statement.op = "drop" => ~SomeViewReferences(t, name)
<1>0. ASSUME alter' \in Alters PROVE alter'.statement \in Statements
  BY <1>0 DEF Alters
<1>1. CASE AddColumn(t, name)
  <2> DEFINE none == <<>>
  <2>1. Issue("add", t, name, name, none) /\ name \notin Named(t, columns)
    BY <1>1 DEF AddColumn
  <2>2. none \in Seq(Views) /\ \A n \in DOMAIN none : t \in Sources[none[n]]
    OBVIOUS
  <2>9. none = <<>>
    OBVIOUS
  <2> HIDE DEF none
  <2>3. alter'.statement = [op |-> "add", table |-> t, name |-> name, new |-> name]
    BY <2>1, <2>2, IssueOK
  <2>4. Fits(alter'.statement)
    BY <2>1, <2>3 DEF Fits
  <2>8. alter'.views = none
    BY <2>1 DEF Issue
  <2>5. /\ alter'.statement.op = "add" /\ alter'.statement.table = t /\ alter'.statement.name = name
        /\ alter'.views = <<>>
    BY <2>3, <2>8, <2>9
  <2>6. \A n \in DOMAIN alter'.views : t \in Sources[alter'.views[n]]
    BY <2>2, <2>8
  <2>7. /\ alter = Idle /\ alter' # Idle /\ alter' \in Alters /\ ~alter'.synced
        /\ alter'.column = (IF torn[t] = Idle THEN Known + 1 + issued ELSE torn[t].column)
        /\ torn[t] # Idle => torn[t].statement = alter'.statement
        /\ issued' = issued + 1 /\ issued' \in 0 .. MaxAlters /\ refused' = Idle
        /\ UNCHANGED <<columns, delta, stored, aux, torn, strayed>>
    BY <2>1, <2>2, IssueOK
  <2> QED
    BY <1>0, <2>1, <2>4, <2>5, <2>6, <2>7
<1>2. CASE DropColumn(t, name)
  <2> DEFINE none == <<>>
  <2>1. /\ Issue("drop", t, name, name, none) /\ name \in Named(t, columns)
        /\ ~SomeViewReferences(t, name)
    BY <1>2 DEF DropColumn
  <2>2. none \in Seq(Views) /\ \A n \in DOMAIN none : t \in Sources[none[n]]
    OBVIOUS
  <2>9. none = <<>>
    OBVIOUS
  <2> HIDE DEF none
  <2>3. alter'.statement = [op |-> "drop", table |-> t, name |-> name, new |-> name]
    BY <2>1, <2>2, IssueOK
  <2>4. Fits(alter'.statement)
    BY <2>1, <2>3 DEF Fits
  <2>8. alter'.views = none
    BY <2>1 DEF Issue
  <2>5. /\ alter'.statement.op = "drop" /\ alter'.statement.table = t /\ alter'.statement.name = name
        /\ alter'.views = <<>>
    BY <2>3, <2>8, <2>9
  <2>6. \A n \in DOMAIN alter'.views : t \in Sources[alter'.views[n]]
    BY <2>2, <2>8
  <2>7. /\ alter = Idle /\ alter' # Idle /\ alter' \in Alters /\ ~alter'.synced
        /\ alter'.column = (IF torn[t] = Idle THEN Known + 1 + issued ELSE torn[t].column)
        /\ torn[t] # Idle => torn[t].statement = alter'.statement
        /\ issued' = issued + 1 /\ issued' \in 0 .. MaxAlters /\ refused' = Idle
        /\ UNCHANGED <<columns, delta, stored, aux, torn, strayed>>
    BY <2>1, <2>2, IssueOK
  <2> QED
    BY <1>0, <2>1, <2>4, <2>5, <2>6, <2>7
<1>3. CASE RenameColumn(t, name, new)
  <2> DEFINE D == DependentViews(t)
             views == SetToSeq(D)
  <2>1. /\ Issue("rename", t, name, new, views)
        /\ name \in Named(t, columns) /\ new \notin Named(t, columns)
    BY <1>3 DEF RenameColumn
  <2>2. IsFiniteSet(D) /\ D \subseteq Views /\ \A v \in D : t \in Sources[v]
    BY ViewsAssumption, FS_Subset DEF DependentViews
  <2> HIDE DEF D
  <2>3. views \in Seq(D) /\ Range(views) = D
    BY <2>2, SetToSeqOK
  <2> HIDE DEF views
  <2>4. views \in Seq(Views) /\ \A n \in DOMAIN views : t \in Sources[views[n]]
    BY <2>2, <2>3, SeqElements
  <2>5. alter'.statement = [op |-> "rename", table |-> t, name |-> name, new |-> new]
    BY <2>1, <2>4, IssueOK
  <2>6. Fits(alter'.statement)
    BY <2>1, <2>5 DEF Fits
  <2> QED
    BY <1>0, <2>1, <2>3, <2>4, <2>5, <2>6, IssueOK DEF D
<1> QED
  BY <1>1, <1>2, <1>3

\* One view is rewritten for the rename at work.
LEMMA RewriteViewOK ==
    ASSUME TypesInv, RewriteView
    PROVE  LET v == Head(alter.views)
               s == alter.statement
           IN  /\ alter # Idle /\ alter \in Alters /\ s \in Statements /\ s.name \in Words /\ s.new \in Words
               /\ v \in Views /\ s.table \in Tables /\ s.table \in Sources[v]
               /\ stored' = [stored EXCEPT ![v] = RewriteStored(v, s.table, s.name, s.new)]
               /\ aux' = [aux EXCEPT ![v] = RewriteAux(v, s.table, s.name, s.new)]
               /\ alter' \in Alters /\ alter' # Idle /\ alter'.statement = s
               /\ alter'.synced = alter.synced /\ alter'.missed = alter.missed
               /\ alter'.column = alter.column
               /\ Range(alter.views) = {v} \union Range(alter'.views)
               /\ \A n \in DOMAIN alter'.views : s.table \in Sources[alter'.views[n]]
               /\ alter.views # <<>>
               /\ UNCHANGED <<columns, delta, torn, strayed, refused, issued>>
<1> DEFINE v == Head(alter.views)
           s == alter.statement
           rest == Tail(alter.views)
<1>1. /\ alter # Idle /\ alter.views # <<>>
      /\ stored' = [stored EXCEPT ![v] = RewriteStored(v, s.table, s.name, s.new)]
      /\ aux' = [aux EXCEPT ![v] = RewriteAux(v, s.table, s.name, s.new)]
      /\ alter' = [alter EXCEPT !.views = rest]
      /\ UNCHANGED <<columns, delta, torn, strayed, refused, issued>>
  BY DEF RewriteView
<1>2. /\ alter \in Alters
      /\ \A n \in DOMAIN alter.views : s.table \in Sources[alter.views[n]]
  BY <1>1 DEF TypesInv, TypeOK
<1>3. s \in Statements /\ alter.views \in Seq(Views) /\ alter.synced \in BOOLEAN /\ alter.column \in Nat
  BY <1>2 DEF Alters
<1>4. s.table \in Tables /\ s.name \in Words /\ s.new \in Words
  BY <1>3, NamesAssumption DEF Statements
<1>5. /\ v \in Views /\ rest \in Seq(Views) /\ Range(alter.views) = {v} \union Range(rest)
      /\ \A i \in DOMAIN rest : rest[i] = alter.views[i + 1] /\ i + 1 \in DOMAIN alter.views
  BY <1>1, <1>3, HeadTail
<1>6. s.table \in Sources[v]
  <2>1. v \in Range(alter.views)
    BY <1>5
  <2> QED
    BY <1>2, <2>1 DEF Range
<1>7. \A n \in DOMAIN rest : s.table \in Sources[rest[n]]
  BY <1>2, <1>5
<1> HIDE DEF rest
<1>8. /\ alter' \in Alters /\ alter'.statement = s /\ alter'.views = rest
      /\ alter'.synced = alter.synced /\ alter'.missed = alter.missed /\ alter'.column = alter.column
  BY <1>1, <1>2, <1>5 DEF Alters
<1>9. alter' # Idle
  BY <1>8, NamesAssumption
<1> QED
  BY <1>1, <1>2, <1>3, <1>4, <1>5, <1>6, <1>7, <1>8, <1>9

\* What is left of the steps after the views.
LEMMA SyncedOK ==
    ASSUME TypesInv, SyncDeltaTable
    PROVE  /\ alter # Idle /\ alter \in Alters /\ alter.statement \in Statements
           /\ alter.statement.table \in Tables /\ alter.column \in Nat
           /\ alter.views = <<>>
           /\ delta' = Altered(delta, alter.statement, alter.column)
           /\ alter' \in Alters /\ alter' # Idle /\ alter'.statement = alter.statement
           /\ alter'.views = alter.views /\ alter'.column = alter.column /\ alter'.synced
           /\ alter'.missed = alter.missed
           /\ UNCHANGED <<columns, stored, aux, torn, strayed, refused, issued>>
<1>1. /\ alter # Idle /\ alter.views = <<>>
      /\ delta' = Altered(delta, alter.statement, alter.column)
      /\ alter' = [alter EXCEPT !.synced = TRUE]
      /\ UNCHANGED <<columns, stored, aux, torn, strayed, refused, issued>>
  BY DEF SyncDeltaTable, SyncDelta
<1>2. alter \in Alters
  BY <1>1 DEF TypesInv, TypeOK
<1>3. alter.statement \in Statements /\ alter.column \in Nat
  BY <1>2 DEF Alters
<1>4. alter.statement.table \in Tables
  BY <1>3 DEF Statements
<1>5. /\ alter' \in Alters /\ alter'.statement = alter.statement /\ alter'.views = alter.views
      /\ alter'.column = alter.column /\ alter'.synced /\ alter'.missed = alter.missed
  BY <1>1, <1>2 DEF Alters
<1>6. alter' # Idle
  BY <1>5, NamesAssumption
<1> QED
  BY <1>1, <1>2, <1>3, <1>4, <1>5, <1>6

LEMMA MissedOK ==
    ASSUME TypesInv, MissDeltaTable
    PROVE  /\ alter # Idle /\ alter \in Alters /\ alter.statement \in Statements
           /\ alter.statement.table \in Tables /\ alter.views = <<>>
           /\ alter' \in Alters /\ alter' # Idle /\ alter'.statement = alter.statement
           /\ alter'.views = alter.views /\ alter'.column = alter.column
           /\ alter'.synced /\ alter'.missed
           /\ UNCHANGED <<columns, delta, stored, aux, torn, strayed, refused, issued>>
<1>1. /\ alter # Idle /\ alter.views = <<>>
      /\ alter' = [alter EXCEPT !.synced = TRUE, !.missed = TRUE]
      /\ UNCHANGED <<columns, delta, stored, aux, torn, strayed, refused, issued>>
  BY DEF MissDeltaTable
<1>2. alter \in Alters
  BY <1>1 DEF TypesInv, TypeOK
<1>3. alter.statement \in Statements
  BY <1>2 DEF Alters
<1>4. alter.statement.table \in Tables
  BY <1>3 DEF Statements
<1>5. /\ alter' \in Alters /\ alter'.statement = alter.statement /\ alter'.views = alter.views
      /\ alter'.column = alter.column /\ alter'.synced /\ alter'.missed
  BY <1>1, <1>2 DEF Alters
<1>6. alter' # Idle
  BY <1>5, NamesAssumption
<1> QED
  BY <1>1, <1>2, <1>3, <1>4, <1>5, <1>6

LEMMA AlteredTables ==
    ASSUME NEW f, AreLayouts(f), NEW s \in Statements, NEW c \in Nat
    PROVE  /\ AreLayouts(Altered(f, s, c)) /\ s.table \in Tables
           /\ Altered(f, s, c)[s.table] = AlteredColumns(f[s.table], s, c)
           /\ \A t \in Tables \ {s.table} : Altered(f, s, c)[t] = f[t]
<1>1. s.table \in Tables /\ DOMAIN f = Tables /\ \A t \in Tables : IsLayout(f[t])
  BY DEF AreLayouts, Statements
<1>2. Altered(f, s, c) = [f EXCEPT ![s.table] = AlteredColumns(f[s.table], s, c)]
  BY DEF Altered
<1>3. IsLayout(AlteredColumns(f[s.table], s, c))
  BY <1>1, AlteredLayout
<1>4. /\ DOMAIN Altered(f, s, c) = Tables
      /\ Altered(f, s, c)[s.table] = AlteredColumns(f[s.table], s, c)
      /\ \A t \in Tables \ {s.table} : Altered(f, s, c)[t] = f[t]
  BY <1>1, <1>2
<1> QED
  BY <1>1, <1>3, <1>4 DEF AreLayouts

LEMMA FinishedOK ==
    ASSUME TypesInv, AlterTable
    PROVE  /\ alter # Idle /\ alter \in Alters /\ alter.statement \in Statements /\ alter.synced
           /\ alter.statement.table \in Tables /\ alter.column \in Nat
           /\ columns' = Altered(columns, alter.statement, alter.column)
           /\ torn' = [torn EXCEPT ![alter.statement.table] = Idle]
           /\ torn \in [Tables -> Alters \union {Idle}]
           /\ strayed' = (IF alter.missed THEN strayed \union {alter.statement.table} ELSE strayed)
           /\ alter' = Idle
           /\ UNCHANGED <<delta, stored, aux, refused, issued>>
<1>1. alter \in Alters
  BY DEF AlterTable, TypesInv, TypeOK
<1>2. alter.statement \in Statements /\ alter.column \in Nat
  BY <1>1 DEF Alters
<1>3. alter.statement.table \in Tables
  BY <1>2 DEF Statements
<1> QED
  BY <1>1, <1>2, <1>3 DEF AlterTable, TypesInv, TypeOK

LEMMA FailedOK ==
    ASSUME TypesInv, Fail
    PROVE  /\ alter # Idle /\ alter \in Alters /\ alter.statement \in Statements
           /\ alter.statement.table \in Tables
           /\ torn' = [torn EXCEPT ![alter.statement.table] = Afresh(alter)]
           /\ Afresh(alter) \in Alters /\ Afresh(alter) # Idle
           /\ Afresh(alter).statement = alter.statement /\ Afresh(alter).column = alter.column
           /\ torn \in [Tables -> Alters \union {Idle}]
           /\ alter' = Idle
           /\ UNCHANGED <<columns, delta, stored, aux, strayed, refused, issued>>
<1>1. alter \in Alters
  BY DEF Fail, TypesInv, TypeOK
<1>2. alter.statement \in Statements
  BY <1>1 DEF Alters
<1>3. alter.statement.table \in Tables
  BY <1>2 DEF Statements
<1>4. /\ Afresh(alter) \in Alters
      /\ Afresh(alter).statement = alter.statement /\ Afresh(alter).column = alter.column
  <2> DEFINE none == <<>>
  <2>1. none \in Seq(Views)
    OBVIOUS
  <2>2. Afresh(alter) = [alter EXCEPT !.views = none, !.synced = FALSE, !.missed = FALSE]
    BY DEF Afresh
  <2> HIDE DEF none
  <2> QED
    BY <1>1, <2>1, <2>2 DEF Alters
<1>5. Afresh(alter) # Idle
  BY <1>4, NamesAssumption
<1> QED
  BY <1>1, <1>2, <1>3, <1>4, <1>5 DEF Fail, TypesInv, TypeOK

LEMMA RefusedOK ==
    ASSUME NEW t \in Tables, NEW name \in Names, RefuseDrop(t, name)
    PROVE  /\ refused' \in Refusals /\ refused' # Idle /\ refused' = [table |-> t, name |-> name]
           /\ UNCHANGED <<columns, delta, stored, aux, alter, torn, strayed, issued>>
<1>1. refused' = [table |-> t, name |-> name] /\ UNCHANGED <<columns, delta, stored, aux, alter, torn, strayed, issued>>
  BY DEF RefuseDrop
<1>2. refused' \in Refusals
  BY <1>1 DEF Refusals
<1> QED
  BY <1>1, <1>2, NamesAssumption

LEMMA TypesStep == TypesInv /\ [Next]_vars => TypesInv'
<1> SUFFICES ASSUME TypesInv, [Next]_vars PROVE TypesInv'
  OBVIOUS
<1>0. /\ AreLayouts(columns) /\ AreLayouts(delta)
      /\ DOMAIN stored = Views /\ \A v \in Views : IsQuery(stored[v]) /\ SameShape(stored[v], Queries[v])
      /\ DOMAIN aux = Views /\ \A v \in Views : aux[v] \in Seq(Entries) /\ Len(aux[v]) = Len(Metadata[v])
      /\ \A v \in Views : \A n \in DOMAIN aux[v] :
            aux[v][n].role = Metadata[v][n].role /\ aux[v][n].table = Metadata[v][n].table
      /\ alter \in Alters \union {Idle}
      /\ alter # Idle => \A n \in DOMAIN alter.views : alter.statement.table \in Sources[alter.views[n]]
      /\ torn \in [Tables -> Alters \union {Idle}]
      /\ \A t \in Tables : torn[t] # Idle => torn[t].statement.table = t
      /\ strayed \subseteq Tables
      /\ refused \in Refusals \union {Idle} /\ issued \in 0 .. MaxAlters
  BY DEF TypesInv, TypeOK, ShapeKept
<1>1. ASSUME NEW t \in Tables, NEW name \in Names, NEW new \in Names,
             AddColumn(t, name) \/ DropColumn(t, name) \/ RenameColumn(t, name, new)
      PROVE  TypesInv'
  <2>1. /\ alter' \in Alters /\ alter'.statement.table = t
        /\ \A n \in DOMAIN alter'.views : t \in Sources[alter'.views[n]]
        /\ issued' \in 0 .. MaxAlters /\ refused' = Idle
        /\ UNCHANGED <<columns, delta, stored, aux, torn, strayed>>
    BY <1>1, IssuedOK
  <2> QED
    BY <1>0, <2>1 DEF TypesInv, TypeOK, ShapeKept
<1>2. ASSUME NEW t \in Tables, NEW name \in Names, RefuseDrop(t, name)
      PROVE  TypesInv'
  <2>1. refused' \in Refusals /\ UNCHANGED <<columns, delta, stored, aux, alter, torn, strayed, issued>>
    BY <1>2, RefusedOK
  <2> QED
    BY <1>0, <2>1 DEF TypesInv, TypeOK, ShapeKept
<1>3. CASE RewriteView
  <2> DEFINE v == Head(alter.views)
             s == alter.statement
             w == RewriteStored(v, s.table, s.name, s.new)
             a == RewriteAux(v, s.table, s.name, s.new)
  <2>1. /\ v \in Views /\ s.table \in Tables /\ s.name \in Words /\ s.new \in Words
        /\ stored' = [stored EXCEPT ![v] = w] /\ aux' = [aux EXCEPT ![v] = a]
        /\ alter' \in Alters /\ alter'.statement = s
        /\ \A n \in DOMAIN alter'.views : s.table \in Sources[alter'.views[n]]
        /\ UNCHANGED <<columns, delta, torn, strayed, refused, issued>>
    BY <1>3, RewriteViewOK
  <2>2. IsQuery(w) /\ SameShape(w, Queries[v])
    BY <1>0, <2>1, RewriteStoredOK
  <2>3. /\ a \in Seq(Entries) /\ Len(a) = Len(aux[v]) /\ DOMAIN a = DOMAIN aux[v]
        /\ \A n \in DOMAIN aux[v] : a[n].role = aux[v][n].role /\ a[n].table = aux[v][n].table
    BY <1>0, <2>1, RewriteAuxOK
  <2> HIDE DEF w, a, v, s
  <2>4. DOMAIN stored' = Views /\ \A u \in Views : IsQuery(stored'[u]) /\ SameShape(stored'[u], Queries[u])
    BY <1>0, <2>1, <2>2
  <2>5. /\ DOMAIN aux' = Views
        /\ \A u \in Views : aux'[u] \in Seq(Entries) /\ Len(aux'[u]) = Len(Metadata[u])
        /\ \A u \in Views : \A n \in DOMAIN aux'[u] :
              aux'[u][n].role = Metadata[u][n].role /\ aux'[u][n].table = Metadata[u][n].table
    BY <1>0, <2>1, <2>3
  <2>6. TypeOK'
    BY <1>0, <2>1, <2>4, <2>5 DEF TypeOK, s
  <2>7. ShapeKept'
    BY <2>4, <2>5 DEF ShapeKept
  <2> QED
    BY <2>6, <2>7 DEF TypesInv
<1>4. CASE SyncDeltaTable
  <2>1. /\ alter # Idle /\ alter.statement \in Statements /\ alter.column \in Nat
        /\ delta' = Altered(delta, alter.statement, alter.column)
        /\ alter' \in Alters /\ alter'.statement = alter.statement /\ alter'.views = alter.views
        /\ UNCHANGED <<columns, stored, aux, torn, strayed, refused, issued>>
    BY <1>4, SyncedOK
  <2>2. AreLayouts(delta')
    BY <1>0, <2>1, AlteredTables
  <2> QED
    BY <1>0, <2>1, <2>2 DEF TypesInv, TypeOK, ShapeKept
<1>5. CASE AlterTable
  <2>1. /\ alter.statement \in Statements /\ alter.column \in Nat /\ alter.statement.table \in Tables
        /\ columns' = Altered(columns, alter.statement, alter.column)
        /\ torn' = [torn EXCEPT ![alter.statement.table] = Idle]
        /\ strayed' \in {strayed, strayed \union {alter.statement.table}}
        /\ alter' = Idle
        /\ UNCHANGED <<delta, stored, aux, refused, issued>>
    BY <1>5, FinishedOK
  <2>2. AreLayouts(columns')
    BY <1>0, <2>1, AlteredTables
  <2>3. /\ torn' \in [Tables -> Alters \union {Idle}]
        /\ \A t \in Tables : torn'[t] # Idle => torn'[t].statement.table = t
    BY <1>0, <2>1
  <2> QED
    BY <1>0, <2>1, <2>2, <2>3 DEF TypesInv, TypeOK, ShapeKept
<1>6. CASE Fail
  <2>1. /\ alter \in Alters /\ alter.statement.table \in Tables
        /\ torn' = [torn EXCEPT ![alter.statement.table] = Afresh(alter)]
        /\ Afresh(alter) \in Alters /\ Afresh(alter).statement = alter.statement
        /\ alter' = Idle
        /\ UNCHANGED <<columns, delta, stored, aux, strayed, refused, issued>>
    BY <1>6, FailedOK
  <2>2. /\ torn' \in [Tables -> Alters \union {Idle}]
        /\ \A t \in Tables : torn'[t] # Idle => torn'[t].statement.table = t
    BY <1>0, <2>1
  <2> QED
    BY <1>0, <2>1, <2>2 DEF TypesInv, TypeOK, ShapeKept
<1>8. CASE MissDeltaTable
  <2>1. /\ alter # Idle /\ alter' \in Alters /\ alter'.statement = alter.statement /\ alter'.views = alter.views
        /\ UNCHANGED <<columns, delta, stored, aux, torn, strayed, refused, issued>>
    BY <1>8, MissedOK
  <2> QED
    BY <1>0, <2>1 DEF TypesInv, TypeOK, ShapeKept
<1>7. CASE UNCHANGED vars
  BY <1>0, <1>7 DEF vars, TypesInv, TypeOK, ShapeKept
<1> QED
  BY <1>1, <1>2, <1>3, <1>4, <1>5, <1>6, <1>7, <1>8 DEF Next

LEMMA TypesInvariant == Spec => []TypesInv
BY TypesInit, TypesStep, PTL DEF Spec

\* Whatever is altered, and wherever a statement fails: the names of a table's
\* columns stay unique, in the table and in its delta table, the stored
\* queries stay queries, and only views of the altered table are rewritten.
THEOREM SchemaTypesHold == Spec => []TypeOK
<1>1. TypesInv => TypeOK
  BY DEF TypesInv
<1> QED
  BY <1>1, TypesInvariant, PTL

-----------------------------------------------------------------------------
(* The statements and the delta tables *)

LEMMA StatementInit == Init => StatementInv
<1> SUFFICES ASSUME Init PROVE StatementInv
  OBVIOUS
<1>1. \A t \in Tables : \A c \in DOMAIN columns[t] : c \in 1 .. Known
  BY ColumnsAssumption DEF Init
<1> QED
  BY <1>1, ColumnsAssumption DEF Init, StatementInv

LEMMA StatementStep == TypesInv /\ StatementInv /\ [Next]_vars => StatementInv'
<1> SUFFICES ASSUME TypesInv, StatementInv, [Next]_vars PROVE StatementInv'
  OBVIOUS
<1>0. /\ AreLayouts(columns) /\ torn \in [Tables -> Alters \union {Idle}]
      /\ \A t \in Tables : torn[t] # Idle => torn[t].statement.table = t
      /\ issued \in Nat /\ Known \in Nat
      /\ \A t \in Tables : DOMAIN columns[t] \subseteq Nat
  BY ColumnsAssumption DEF TypesInv, TypeOK, AreLayouts, IsLayout
<1>9. /\ \A t \in Tables : \A c \in DOMAIN columns[t] : c <= Known + issued
      /\ alter # Idle =>
            /\ Fits(alter.statement) /\ IsNew(alter)
            /\ alter.synced \/ alter.statement.op # "rename" => alter.views = <<>>
      /\ \A t \in Tables : torn[t] # Idle =>
            /\ Fits(torn[t].statement) /\ IsNew(torn[t])
            /\ alter # Idle /\ alter.statement.table = t =>
                  torn[t].statement = alter.statement /\ torn[t].column = alter.column
  BY DEF StatementInv
<1>1. ASSUME NEW t \in Tables, NEW name \in Names, NEW new \in Names,
             AddColumn(t, name) \/ DropColumn(t, name) \/ RenameColumn(t, name, new)
      PROVE  StatementInv'
  <2>1. /\ alter' \in Alters /\ alter'.statement.table = t /\ ~alter'.synced
        /\ alter'.column = (IF torn[t] = Idle THEN Known + 1 + issued ELSE torn[t].column)
        /\ torn[t] # Idle => torn[t].statement = alter'.statement
        /\ alter'.statement.op # "rename" => alter'.views = <<>>
        /\ issued' = issued + 1 /\ Fits(alter'.statement)
        /\ UNCHANGED <<columns, delta, stored, aux, torn, strayed>>
    BY <1>1, IssuedOK
  <2>2. Fits(alter.statement)'
    BY <2>1 DEF Fits, Named
  <2>3. \A u \in Tables : torn[u] # Idle => torn[u].column \in Nat
    BY <1>0 DEF Alters
  <2>4. \A u \in Tables : \A c \in DOMAIN columns[u] : c <= Known + issued + 1
    BY <1>0, <1>9
  <2>5. IsNew(alter)'
    <3>1. CASE torn[t] = Idle
      <4>1. alter'.column = Known + 1 + issued /\ alter'.column \notin DOMAIN columns[t]
        BY <1>0, <1>9, <2>1, <3>1
      <4> QED
        BY <1>0, <2>1, <4>1 DEF IsNew
    <3>2. CASE torn[t] # Idle
      <4>1. alter'.column = torn[t].column /\ torn[t].column <= Known + issued
            /\ torn[t].column \notin DOMAIN columns[t]
        BY <1>0, <1>9, <2>1, <3>2 DEF IsNew
      <4> QED
        BY <1>0, <2>1, <2>3, <3>2, <4>1 DEF IsNew
    <3> QED
      BY <3>1, <3>2
  <2>6. ASSUME NEW u \in Tables, torn'[u] # Idle
        PROVE  /\ Fits(torn[u].statement)' /\ IsNew(torn[u])'
               /\ alter' # Idle /\ alter'.statement.table = u =>
                     torn'[u].statement = alter'.statement /\ torn'[u].column = alter'.column
    <3>1. Fits(torn[u].statement)'
      BY <1>9, <2>1, <2>6 DEF Fits, Named
    <3>2. IsNew(torn[u])'
      BY <1>0, <1>9, <2>1, <2>3, <2>6 DEF IsNew
    <3> QED
      BY <2>1, <2>6, <3>1, <3>2
  <2> QED
    BY <1>0, <2>1, <2>2, <2>4, <2>5, <2>6 DEF StatementInv
<1>2. CASE UNCHANGED <<columns, alter, torn, issued>>
  BY <1>2 DEF StatementInv, Fits, Named, IsNew
<1>3. ASSUME RewriteView \/ SyncDeltaTable \/ MissDeltaTable PROVE StatementInv'
  <2>1. /\ alter # Idle /\ alter'.statement = alter.statement /\ alter'.column = alter.column
        /\ UNCHANGED <<columns, torn, issued>>
    BY <1>3, RewriteViewOK, SyncedOK, MissedOK
  <2>2. alter'.synced \/ alter'.statement.op # "rename" => alter'.views = <<>>
    <3>1. CASE RewriteView
      <4>1. alter'.synced = alter.synced /\ alter.views # <<>>
        BY <3>1, RewriteViewOK
      <4> QED
        BY <1>9, <2>1, <4>1
    <3>2. CASE SyncDeltaTable
      BY <3>2, SyncedOK
    <3>3. CASE MissDeltaTable
      BY <3>3, MissedOK
    <3> QED
      BY <1>3, <3>1, <3>2, <3>3
  <2>3. Fits(alter.statement)' /\ IsNew(alter)'
    BY <1>9, <2>1 DEF Fits, Named, IsNew
  <2>4. \A u \in Tables : torn'[u] # Idle =>
            /\ Fits(torn[u].statement)' /\ IsNew(torn[u])'
            /\ alter' # Idle /\ alter'.statement.table = u =>
                  torn'[u].statement = alter'.statement /\ torn'[u].column = alter'.column
    BY <1>9, <2>1 DEF Fits, Named, IsNew
  <2> QED
    BY <1>9, <2>1, <2>2, <2>3, <2>4 DEF StatementInv
<1>4. CASE AlterTable
  <2> DEFINE s == alter.statement
             t == s.table
             c == alter.column
  <2>1. /\ alter # Idle /\ s \in Statements /\ t \in Tables /\ c \in Nat
        /\ columns' = Altered(columns, s, c)
        /\ torn' = [torn EXCEPT ![t] = Idle] /\ alter' = Idle /\ issued' = issued
    BY <1>4, FinishedOK
  <2>2. \A u \in Tables : DOMAIN columns'[u] \subseteq DOMAIN columns[u] \union {c}
    <3>1. IsLayout(columns[t]) /\ Altered(columns, s, c)[t] = AlteredColumns(columns[t], s, c)
      BY <1>0, <2>1, AlteredTables DEF AreLayouts
    <3>2. DOMAIN AlteredColumns(columns[t], s, c) \subseteq DOMAIN columns[t] \union {c}
      BY <2>1, <3>1, AlteredLayout
    <3>3. \A u \in Tables \ {t} : columns'[u] = columns[u]
      BY <1>0, <2>1, AlteredTables
    <3> QED
      BY <2>1, <3>1, <3>2, <3>3
  <2>3. \A u \in Tables \ {t} : columns'[u] = columns[u]
    BY <1>0, <2>1, AlteredTables
  <2>4. c <= Known + issued
    BY <1>9, <2>1 DEF IsNew
  <2>5. ASSUME NEW u \in Tables, torn'[u] # Idle
        PROVE  Fits(torn[u].statement)' /\ IsNew(torn[u])'
    <3>1. u # t /\ torn'[u] = torn[u] /\ torn[u].statement.table = u
      BY <1>0, <2>1, <2>5
    <3> QED
      BY <1>9, <2>1, <2>3, <2>5, <3>1 DEF Fits, Named, IsNew
  <2>6. \A u \in Tables : \A d \in DOMAIN columns'[u] : d <= Known + issued'
    BY <1>9, <2>1, <2>2, <2>4
  <2> QED
    BY <2>1, <2>5, <2>6 DEF StatementInv
<1>5. CASE Fail
  <2> DEFINE t == alter.statement.table
  <2>1. /\ alter # Idle /\ t \in Tables
        /\ torn' = [torn EXCEPT ![t] = Afresh(alter)] /\ alter' = Idle
        /\ Afresh(alter).statement = alter.statement /\ Afresh(alter).column = alter.column
        /\ UNCHANGED <<columns, issued>>
    BY <1>5, FailedOK
  <2>2. \A u \in Tables : torn'[u] = IF u = t THEN Afresh(alter) ELSE torn[u]
    BY <1>0, <2>1
  <2>3. \A u \in Tables : torn'[u] # Idle => Fits(torn[u].statement)' /\ IsNew(torn[u])'
    BY <1>9, <2>1, <2>2 DEF Fits, Named, IsNew
  <2> QED
    BY <1>9, <2>1, <2>3 DEF StatementInv
<1>6. ASSUME NEW t \in Tables, NEW name \in Names, RefuseDrop(t, name)
      PROVE  StatementInv'
  BY <1>2, <1>6, RefusedOK
<1>7. CASE UNCHANGED vars
  BY <1>2, <1>7 DEF vars
<1> QED
  BY <1>1, <1>3, <1>4, <1>5, <1>6, <1>7 DEF Next

\* The statement that a table waits for is the one at work on it, if there is.
LEMMA UnfinishedOK ==
    ASSUME TypesInv, StatementInv, NEW t \in Tables, ~Settled(t)
    PROVE  /\ Unfinished(t).statement \in Statements /\ Unfinished(t).statement.table = t
           /\ Unfinished(t).column \in Nat /\ Fits(Unfinished(t).statement)
           /\ Unfinished(t).column \notin DOMAIN columns[t]
           /\ alter # Idle /\ alter.statement.table = t =>
                 Unfinished(t).statement = alter.statement /\ Unfinished(t).column = alter.column
<1>1. /\ torn[t] \in Alters \union {Idle} /\ alter \in Alters \union {Idle}
      /\ torn[t] # Idle => torn[t].statement.table = t
  BY DEF TypesInv, TypeOK
<1>2. CASE torn[t] # Idle
  BY <1>1, <1>2 DEF Unfinished, StatementInv, Alters, IsNew
<1>3. CASE torn[t] = Idle
  <2>1. alter # Idle /\ alter.statement.table = t /\ Unfinished(t) = alter
    BY <1>3 DEF Settled, Unfinished
  <2> QED
    BY <1>1, <2>1 DEF StatementInv, Alters, IsNew
<1> QED
  BY <1>2, <1>3

\* Steps that leave every table waiting for what it waited for.
SameWaiting ==
    \A t \in Tables : /\ Settled(t)' <=> Settled(t)
                      /\ ~Settled(t) => /\ Unfinished(t)'.statement = Unfinished(t).statement
                                        /\ Unfinished(t)'.column = Unfinished(t).column
LEMMA WaitingKept ==
    ASSUME TypesInv, StatementInv, RewriteView \/ SyncDeltaTable \/ MissDeltaTable \/ Fail
    PROVE  SameWaiting
<1> SUFFICES ASSUME NEW t \in Tables
             PROVE  /\ Settled(t)' <=> Settled(t)
                    /\ ~Settled(t) => /\ Unfinished(t)'.statement = Unfinished(t).statement
                                      /\ Unfinished(t)'.column = Unfinished(t).column
  BY DEF SameWaiting
<1>1. CASE RewriteView \/ SyncDeltaTable \/ MissDeltaTable
  <2>1. /\ alter # Idle /\ alter' # Idle /\ alter'.statement = alter.statement
        /\ alter'.column = alter.column /\ torn' = torn
    BY <1>1, RewriteViewOK, SyncedOK, MissedOK
  <2> QED
    BY <2>1 DEF Settled, Unfinished
<1>2. CASE Fail
  <2>1. /\ alter # Idle /\ alter.statement.table \in Tables /\ torn \in [Tables -> Alters \union {Idle}]
        /\ torn' = [torn EXCEPT ![alter.statement.table] = Afresh(alter)] /\ alter' = Idle
        /\ Afresh(alter) # Idle
        /\ Afresh(alter).statement = alter.statement /\ Afresh(alter).column = alter.column
    BY <1>2, FailedOK
  <2>2. torn'[t] = IF t = alter.statement.table THEN Afresh(alter) ELSE torn[t]
    BY <2>1
  <2>3. CASE t = alter.statement.table
    <3>1. ~Settled(t) /\ ~Settled(t)' /\ Unfinished(t)' = Afresh(alter)
      BY <2>1, <2>2, <2>3 DEF Settled, Unfinished
    <3>2. Unfinished(t).statement = alter.statement /\ Unfinished(t).column = alter.column
      BY <2>1, <2>3, <3>1, UnfinishedOK
    <3> QED
      BY <2>1, <3>1, <3>2
  <2>4. CASE t # alter.statement.table
    BY <2>1, <2>2, <2>4 DEF Settled, Unfinished
  <2> QED
    BY <2>3, <2>4
<1> QED
  BY <1>1, <1>2

\* A statement that is issued: its table waits for it from now on, or for it
\* still.
LEMMA WaitingIssued ==
    ASSUME TypesInv, NEW t \in Tables, NEW name \in Names, NEW new \in Names,
           AddColumn(t, name) \/ DropColumn(t, name) \/ RenameColumn(t, name, new)
    PROVE  /\ ~Settled(t)' /\ Unfinished(t)'.statement = alter'.statement
           /\ Unfinished(t)'.column = alter'.column
           /\ ~Settled(t) => Unfinished(t)' = Unfinished(t)
           /\ \A u \in Tables \ {t} : /\ Settled(u)' <=> Settled(u)
                                      /\ ~Settled(u) => Unfinished(u)' = Unfinished(u)
<1>1. /\ alter = Idle /\ alter' # Idle /\ alter'.statement.table = t
      /\ alter'.column = (IF torn[t] = Idle THEN Known + 1 + issued ELSE torn[t].column)
      /\ torn[t] # Idle => torn[t].statement = alter'.statement
      /\ torn' = torn
  BY IssuedOK
<1> QED
  BY <1>1 DEF Settled, Unfinished

\* The end of a statement: its table waits for nothing, the others as before.
LEMMA WaitingFinished ==
    ASSUME TypesInv, AlterTable, NEW t \in Tables, t = alter.statement.table
    PROVE  /\ ~Settled(t) /\ Settled(t)'
           /\ \A u \in Tables \ {t} :
                 /\ Settled(u)' <=> Settled(u)
                 /\ ~Settled(u) => Unfinished(u)' = Unfinished(u)
<1>1. /\ alter # Idle /\ alter.statement.table \in Tables /\ torn \in [Tables -> Alters \union {Idle}]
      /\ torn' = [torn EXCEPT ![alter.statement.table] = Idle] /\ alter' = Idle
  BY FinishedOK
<1>2. torn'[t] = Idle /\ \A u \in Tables \ {t} : torn'[u] = torn[u]
  BY <1>1
<1> QED
  BY <1>1, <1>2 DEF Settled, Unfinished

LEMMA DeltaInit == Init => DeltaInv
BY DEF Init, DeltaInv, Mirrors, Settled

\* Steps that change neither the tables nor what they wait for.
LEMMA MirrorsKept ==
    ASSUME NEW t \in Tables, Mirrors(t), UNCHANGED <<columns, delta>>,
           Settled(t)' <=> Settled(t),
           ~Settled(t) => /\ Unfinished(t)'.statement = Unfinished(t).statement
                          /\ Unfinished(t)'.column = Unfinished(t).column
    PROVE  Mirrors(t)' /\ (~Settled(t) => AfterIt(t)' = AfterIt(t))
<1>1. ~Settled(t) => AfterIt(t)' = AfterIt(t)
  BY DEF AfterIt
<1> QED
  BY <1>1 DEF Mirrors

LEMMA DeltaStep == TypesInv /\ StatementInv /\ DeltaInv /\ [Next]_vars => DeltaInv'
<1> SUFFICES ASSUME TypesInv, StatementInv, DeltaInv, [Next]_vars PROVE DeltaInv'
  OBVIOUS
<1>0. /\ AreLayouts(columns) /\ AreLayouts(delta)
      /\ \A t \in Tables \ strayed : Mirrors(t)
      /\ alter # Idle /\ alter.synced /\ ~alter.missed /\ alter.statement.table \notin strayed =>
            delta[alter.statement.table] = AfterIt(alter.statement.table)
  BY DEF TypesInv, TypeOK, DeltaInv
<1>1. ASSUME NEW t \in Tables, NEW name \in Names, NEW new \in Names,
             AddColumn(t, name) \/ DropColumn(t, name) \/ RenameColumn(t, name, new)
      PROVE  DeltaInv'
  <2>1. ~alter'.synced /\ UNCHANGED <<columns, delta, strayed>>
    BY <1>1, IssuedOK
  <2>2. /\ ~Settled(t)'
        /\ ~Settled(t) => Unfinished(t)' = Unfinished(t)
        /\ \A u \in Tables \ {t} : /\ Settled(u)' <=> Settled(u)
                                   /\ ~Settled(u) => Unfinished(u)' = Unfinished(u)
    BY <1>1, WaitingIssued
  <2>3. ASSUME NEW u \in Tables \ strayed' PROVE Mirrors(u)'
    BY <1>0, <2>1, <2>2, <2>3 DEF Mirrors, AfterIt
  <2> QED
    BY <2>1, <2>3 DEF DeltaInv
<1>2. CASE UNCHANGED <<columns, delta, alter, torn, strayed>>
  BY <1>2 DEF DeltaInv, Mirrors, Settled, AfterIt, Unfinished
<1>3. ASSUME RewriteView \/ MissDeltaTable \/ Fail PROVE DeltaInv'
  <2>1. SameWaiting /\ UNCHANGED <<columns, delta, strayed>>
    BY <1>3, WaitingKept, RewriteViewOK, MissedOK, FailedOK
  <2>2. \A t \in Tables \ strayed : Mirrors(t)' /\ (~Settled(t) => AfterIt(t)' = AfterIt(t))
    BY <1>0, <2>1, MirrorsKept DEF SameWaiting
  <2>3. alter' # Idle /\ alter'.synced /\ ~alter'.missed =>
            /\ alter # Idle /\ alter.synced /\ ~alter.missed
            /\ alter'.statement.table = alter.statement.table /\ alter.statement.table \in Tables
    BY <1>3, RewriteViewOK, MissedOK, FailedOK
  <2>4. ASSUME alter' # Idle, alter'.synced, ~alter'.missed, alter'.statement.table \notin strayed'
        PROVE  delta'[alter'.statement.table] = AfterIt(alter.statement.table)'
    <3> DEFINE t == alter.statement.table
    <3>1. /\ alter # Idle /\ alter.synced /\ ~alter.missed /\ t \in Tables \ strayed
          /\ alter'.statement.table = t
      BY <2>1, <2>3, <2>4
    <3>2. ~Settled(t)
      BY <3>1 DEF Settled
    <3>3. delta'[t] = AfterIt(t) /\ AfterIt(t)' = AfterIt(t)
      BY <1>0, <2>1, <2>2, <3>1, <3>2
    <3>4. AfterIt(alter.statement.table)' = AfterIt(t)'
      BY <3>1 DEF AfterIt, Unfinished
    <3> QED
      BY <3>1, <3>3, <3>4
  <2> QED
    BY <2>1, <2>2, <2>4 DEF DeltaInv
<1>4. CASE SyncDeltaTable
  <2> DEFINE s == alter.statement
             t == s.table
             c == alter.column
  <2>1. /\ alter # Idle /\ s \in Statements /\ t \in Tables /\ c \in Nat
        /\ delta' = Altered(delta, s, c)
        /\ alter' # Idle /\ alter'.statement = s /\ columns' = columns /\ strayed' = strayed
    BY <1>4, SyncedOK
  <2>2. SameWaiting
    BY <1>4, WaitingKept
  <2>3. ~Settled(t)
    BY <2>1 DEF Settled
  <2>4. /\ Fits(s) /\ AfterIt(t) = AlteredColumns(columns[t], s, c)
    BY <2>1, <2>3, UnfinishedOK DEF AfterIt
  <2>5. IsLayout(columns[t])
    BY <1>0, <2>1 DEF AreLayouts
  <2>6. AlteredColumns(AlteredColumns(columns[t], s, c), s, c) = AlteredColumns(columns[t], s, c)
    BY <2>1, <2>4, <2>5, AlteredTwice DEF Fits, Named
  <2>7. delta'[t] = AlteredColumns(delta[t], s, c) /\ \A u \in Tables \ {t} : delta'[u] = delta[u]
    BY <1>0, <2>1, AlteredTables
  <2>8. t \notin strayed => delta'[t] = AfterIt(t)
    BY <1>0, <2>1, <2>3, <2>4, <2>6, <2>7 DEF Mirrors
  <2>9. \A u \in Tables : ~Settled(u) => AfterIt(u)' = AfterIt(u)
    BY <2>1, <2>2 DEF SameWaiting, AfterIt
  <2>10. ASSUME NEW u \in Tables \ strayed PROVE Mirrors(u)'
    BY <1>0, <2>1, <2>2, <2>3, <2>7, <2>8, <2>9, <2>10 DEF SameWaiting, Mirrors
  <2>11. AfterIt(alter.statement.table)' = AfterIt(t)'
    BY <2>1 DEF AfterIt, Unfinished
  <2>12. t \notin strayed => delta'[alter'.statement.table] = AfterIt(alter.statement.table)'
    BY <2>1, <2>3, <2>8, <2>9, <2>11
  <2> QED
    BY <2>1, <2>10, <2>12 DEF DeltaInv
<1>5. CASE AlterTable
  <2> DEFINE s == alter.statement
             c == alter.column
  <2>0. PICK t \in Tables : t = s.table
    BY <1>5, FinishedOK
  <2>1. /\ alter # Idle /\ s \in Statements /\ t = s.table /\ c \in Nat /\ alter.synced
        /\ columns' = Altered(columns, s, c) /\ alter' = Idle /\ delta' = delta
        /\ strayed' = (IF alter.missed THEN strayed \union {t} ELSE strayed)
    BY <1>5, <2>0, FinishedOK
  <2>2. /\ ~Settled(t) /\ Settled(t)'
        /\ \A u \in Tables \ {t} : /\ Settled(u)' <=> Settled(u)
                                   /\ ~Settled(u) => Unfinished(u)' = Unfinished(u)
    BY <1>5, <2>0, WaitingFinished
  <2>3. AfterIt(t) = AlteredColumns(columns[t], s, c)
    BY <2>1, <2>2, UnfinishedOK DEF AfterIt
  <2>4. columns'[t] = AlteredColumns(columns[t], s, c) /\ \A u \in Tables \ {t} : columns'[u] = columns[u]
    BY <1>0, <2>1, AlteredTables
  <2>5. t \notin strayed' => delta'[t] = columns'[t]
    BY <1>0, <2>1, <2>3, <2>4
  <2>6. ASSUME NEW u \in Tables \ strayed', u # t PROVE Mirrors(u)'
    <3>1. u \notin strayed
      BY <2>1
    <3> QED
      BY <1>0, <2>1, <2>2, <2>4, <2>6, <3>1 DEF Mirrors, AfterIt
  <2>7. t \notin strayed' => Mirrors(t)'
    BY <2>2, <2>5 DEF Mirrors
  <2> QED
    BY <2>1, <2>6, <2>7 DEF DeltaInv
<1>6. ASSUME NEW t \in Tables, NEW name \in Names, RefuseDrop(t, name)
      PROVE  DeltaInv'
  BY <1>2, <1>6, RefusedOK
<1>7. CASE UNCHANGED vars
  BY <1>2, <1>7 DEF vars
<1> QED
  BY <1>1, <1>3, <1>4, <1>5, <1>6, <1>7 DEF Next

LEMMA StatementInvariant == Spec => [](TypesInv /\ StatementInv)
<1>1. TypesInv /\ StatementInv /\ [Next]_vars => (TypesInv /\ StatementInv)'
  BY TypesStep, StatementStep
<1> QED
  BY TypesInit, StatementInit, <1>1, PTL DEF Spec

\* Whatever the views are, and however often a statement failed before or
\* after the delta table and was issued again: a table that no statement is
\* waiting to alter has the columns of its delta table, by the same names,
\* unless it was once altered although its delta table's own ALTER, whose
\* result is not looked at, had failed.
THEOREM DeltaFollowsTable == Spec => []DeltaMirrors
<1>1. TypesInv /\ StatementInv /\ DeltaInv /\ [Next]_vars => DeltaInv'
  BY DeltaStep
<1>2. DeltaInv => DeltaMirrors
  BY DEF DeltaInv, DeltaMirrors, Mirrors
<1> QED
  BY DeltaInit, StatementInvariant, <1>1, <1>2, PTL DEF Spec

-----------------------------------------------------------------------------
(* Names and scopes *)

LEMMA PrefixElement ==
    ASSUME NEW a \in Seq(Nat), NEW p \in Seq(Nat), IsPrefix(a, p)
    PROVE  Len(a) <= Len(p) /\ Len(a) \in Nat /\ \A i \in 1 .. Len(a) : a[i] = p[i]
<1>1. Len(a) <= Len(p) /\ SubSeq(a, 1, Len(a)) = SubSeq(p, 1, Len(a)) /\ Len(a) \in Nat /\ Len(p) \in Nat
  BY DEF IsPrefix
<1>2. \A i \in 1 .. Len(a) : SubSeq(a, 1, Len(a))[i] = a[i] /\ SubSeq(p, 1, Len(a))[i] = p[i]
  BY <1>1
<1> QED
  BY <1>1, <1>2

LEMMA PrefixIf ==
    ASSUME NEW a \in Seq(Nat), NEW p \in Seq(Nat), Len(a) <= Len(p), \A i \in 1 .. Len(a) : a[i] = p[i]
    PROVE  IsPrefix(a, p)
<1>1. Len(a) \in Nat /\ Len(p) \in Nat
  OBVIOUS
<1>2. SubSeq(a, 1, Len(a)) \in [1 .. Len(a) -> Nat] /\ SubSeq(p, 1, Len(a)) \in [1 .. Len(a) -> Nat]
  <2>1. /\ SubSeq(a, 1, Len(a)) \in Seq(Nat) /\ Len(SubSeq(a, 1, Len(a))) = Len(a)
        /\ SubSeq(p, 1, Len(a)) \in Seq(Nat) /\ Len(SubSeq(p, 1, Len(a))) = Len(a)
    BY <1>1
  <2> QED
    BY <2>1, SeqElements
<1>3. \A i \in 1 .. Len(a) : SubSeq(a, 1, Len(a))[i] = a[i] /\ SubSeq(p, 1, Len(a))[i] = p[i]
  BY <1>1
<1>4. SubSeq(a, 1, Len(a)) = SubSeq(p, 1, Len(a))
  BY <1>2, <1>3
<1> QED
  BY <1>4 DEF IsPrefix

\* Of two blocks around a place the shorter one is around the other.
LEMMA AroundOrder ==
    ASSUME NEW q, IsQuery(q), NEW p \in DOMAIN q,
           NEW a \in Around(q, p), NEW b \in Around(q, p)
    PROVE  /\ a \in DOMAIN q /\ Len(a) \in Nat /\ Len(a) <= Len(p) /\ Len(p) \in Nat
           /\ Len(a) <= Len(b) <=> IsPrefix(a, b)
           /\ Len(a) = Len(b) => a = b
<1>1. /\ a \in Seq(Nat) /\ b \in Seq(Nat) /\ p \in Seq(Nat) /\ IsPrefix(a, p) /\ IsPrefix(b, p)
      /\ a \in DOMAIN q
  BY DEF IsQuery, Around
<1>2. /\ Len(a) <= Len(p) /\ Len(a) \in Nat /\ \A i \in 1 .. Len(a) : a[i] = p[i]
      /\ Len(b) <= Len(p) /\ Len(b) \in Nat /\ \A i \in 1 .. Len(b) : b[i] = p[i]
  BY <1>1, PrefixElement
<1>3. Len(a) <= Len(b) => IsPrefix(a, b)
  <2> SUFFICES ASSUME Len(a) <= Len(b) PROVE IsPrefix(a, b)
    OBVIOUS
  <2>1. \A i \in 1 .. Len(a) : a[i] = b[i]
    BY <1>2
  <2> QED
    BY <1>1, <2>1, PrefixIf
<1>4. IsPrefix(a, b) => Len(a) <= Len(b)
  BY DEF IsPrefix
<1>5. Len(a) = Len(b) => a = b
  <2> SUFFICES ASSUME Len(a) = Len(b) PROVE a = b
    OBVIOUS
  <2>1. \A i \in 1 .. Len(a) : a[i] = b[i]
    BY <1>2
  <2>2. a \in [1 .. Len(a) -> Nat] /\ b \in [1 .. Len(a) -> Nat]
    BY <1>1, SeqElements
  <2> HIDE DEF Around
  <2> QED
    BY <2>1, <2>2
<1> QED
  BY <1>1, <1>2, <1>3, <1>4, <1>5

\* A place is the innermost block around itself.
LEMMA AroundSelf ==
    ASSUME NEW q, IsQuery(q), NEW p \in DOMAIN q
    PROVE  p \in Visible(q, p) /\ p \in Around(q, p) /\ Visible(q, p) \subseteq Around(q, p)
<1>1. p \in Seq(Nat)
  BY DEF IsQuery
<1>2. p \in Around(q, p)
  BY <1>1, PrefixIf DEF Around
<1>3. ASSUME NEW b \in Around(q, p) PROVE Len(b) # Len(p) + 1
  <2>1. Len(b) <= Len(p) /\ Len(b) \in Nat /\ Len(p) \in Nat
    BY <1>2, AroundOrder
  <2> QED
    BY <2>1
<1> QED
  BY <1>2, <1>3 DEF Visible

\* What the rewriting of a reference depends on is the shape of the query.
LEMMA ShapeScopes ==
    ASSUME NEW q, NEW r, SameShape(q, r), NEW p \in DOMAIN q, NEW t, NEW of
    PROVE  /\ Around(q, p) = Around(r, p) /\ Visible(q, p) = Visible(r, p)
           /\ \A o \in DOMAIN q : LocalAliases(q[o]) = LocalAliases(r[o])
           /\ ColumnRefTargetsTable(q, p, of, t) <=> ColumnRefTargetsTable(r, p, of, t)
<1>1. /\ DOMAIN q = DOMAIN r
      /\ \A o \in DOMAIN q : q[o].from = r[o].from /\ q[o].derived = r[o].derived
  BY DEF SameShape
<1>2. Around(q, p) = Around(r, p) /\ Around(q, p) \subseteq DOMAIN q
  BY <1>1 DEF Around
<1>3. Visible(q, p) = Visible(r, p)
  BY <1>1, <1>2 DEF Visible
<1>4. \A o \in DOMAIN q : LocalAliases(q[o]) = LocalAliases(r[o])
  BY <1>1 DEF LocalAliases
<1>5. \A o \in DOMAIN q : LocalTargets(q[o], t) = LocalTargets(r[o], t)
  BY <1>1 DEF LocalTargets
<1>6. \A x : x \in ApplyLocalAliases(q, p, t) <=> x \in ApplyLocalAliases(r, p, t)
  <2>1. \A x : x \in ApplyLocalAliases(q, p, t) <=>
                  \E o \in Around(q, p) : /\ x \in LocalTargets(q[o], t)
                                          /\ \A i \in Around(q, p) : Len(i) > Len(o) => x \notin LocalAliases(q[i])
    BY DEF ApplyLocalAliases
  <2>2. \A x : x \in ApplyLocalAliases(r, p, t) <=>
                  \E o \in Around(r, p) : /\ x \in LocalTargets(r[o], t)
                                          /\ \A i \in Around(r, p) : Len(i) > Len(o) => x \notin LocalAliases(r[i])
    BY DEF ApplyLocalAliases
  <2> QED
    BY <1>2, <1>4, <1>5, <2>1, <2>2
<1> QED
  BY <1>2, <1>3, <1>4, <1>5, <1>6 DEF ColumnRefTargetsTable

LEMMA ShapeRefersTo ==
    ASSUME NEW q, NEW r, SameShape(q, r), NEW p \in DOMAIN q, NEW x, NEW y, x.of = y.of,
           NEW o \in DOMAIN q, NEW n
    PROVE  RefersTo(q, p, x, o, n) <=> RefersTo(r, p, y, o, n)
<1>1. /\ DOMAIN q = DOMAIN r
      /\ \A i \in DOMAIN q : q[i].from = r[i].from
  BY DEF SameShape
<1>2. /\ Around(q, p) = Around(r, p) /\ Visible(q, p) = Visible(r, p) /\ Around(q, p) \subseteq DOMAIN q
      /\ \A i \in DOMAIN q : LocalAliases(q[i]) = LocalAliases(r[i])
  BY ShapeScopes DEF Around
<1> QED
  BY <1>1, <1>2 DEF RefersTo

\* The names of the relations of a block.
LEMMA RelationNames ==
    ASSUME NEW q, IsQuery(q), NEW o \in DOMAIN q, NEW m \in DOMAIN q[o].from
    PROVE  /\ q[o].from[m] \in Relations
           /\ VisibleName(q[o].from[m]) \in {q[o].from[m].table, q[o].from[m].alias}
           /\ VisibleName(q[o].from[m]) # NoName => VisibleName(q[o].from[m]) \in LocalAliases(q[o])
           /\ \A t : q[o].from[m].table = t =>
                 \A x \in {q[o].from[m].table, q[o].from[m].alias} : x # NoName => x \in LocalTargets(q[o], t)
<1>1. q[o].from \in Seq(Relations)
  BY DEF IsQuery, Blocks
<1>2. q[o].from[m] \in Relations
  BY <1>1, SeqElements
<1>3. VisibleName(q[o].from[m]) \in {q[o].from[m].table, q[o].from[m].alias}
  BY DEF VisibleName
<1> DEFINE S(k) == {q[o].from[k].table, q[o].from[k].alias}
<1>4. ASSUME NEW x \in S(m), x # NoName PROVE x \in LocalAliases(q[o])
  <2>1. x \in UNION {S(k) : k \in DOMAIN q[o].from}
    <3> HIDE DEF S
    <3> QED
      BY <1>4
  <2>2. LocalAliases(q[o]) = (UNION {S(k) : k \in DOMAIN q[o].from}) \ {NoName}
    BY DEF LocalAliases
  <2> HIDE DEF S
  <2> QED
    BY <1>4, <2>1, <2>2
<1>5. ASSUME NEW t, q[o].from[m].table = t, NEW x \in S(m), x # NoName
      PROVE  x \in LocalTargets(q[o], t)
  <2> DEFINE D == {k \in DOMAIN q[o].from : q[o].from[k].table = t}
  <2>1. x \in UNION {S(k) : k \in D}
    <3>1. m \in D
      BY <1>5
    <3> HIDE DEF S, D
    <3> QED
      BY <1>5, <3>1
  <2>2. LocalTargets(q[o], t) = (UNION {S(k) : k \in D}) \ {NoName}
    BY DEF LocalTargets
  <2> HIDE DEF S, D
  <2> QED
    BY <1>5, <2>1, <2>2
<1> QED
  BY <1>2, <1>3, <1>4, <1>5

\* The rewriting takes a plain reference to be to the table that it is to.
LEMMA TargetsOK ==
    ASSUME NEW q, IsQuery(q), NEW p \in DOMAIN q, NEW ref, NEW o \in DOMAIN q,
           NEW n \in DOMAIN q[o].from, RefersTo(q, p, ref, o, n), NEW t \in Tables
    PROVE  ColumnRefTargetsTable(q, p, ref.of, t) <=> q[o].from[n].table = t
<1>0. t # NoName
  BY NamesAssumption
<1>1. CASE ref.of = NoName
  <2>1. o = p /\ DOMAIN q[p].from = {n}
    BY <1>1 DEF RefersTo
  <2>2. LocalTargets(q[p], t) # {} <=> q[p].from[n].table = t
    <3>1. q[p].from[n].table = t => t \in LocalTargets(q[p], t)
      BY <1>0, <2>1, RelationNames
    <3>2. q[p].from[n].table # t => LocalTargets(q[p], t) = {}
      BY <2>1 DEF LocalTargets
    <3> QED
      BY <3>1, <3>2
  <2> QED
    BY <1>1, <2>1, <2>2 DEF ColumnRefTargetsTable
<1>2. CASE ref.of # NoName
  <2> DEFINE x == ref.of
  <2>1. /\ o \in Visible(q, p) /\ x = VisibleName(q[o].from[n])
        /\ \A m \in DOMAIN q[o].from \ {n} : x \notin {q[o].from[m].table, q[o].from[m].alias}
        /\ \A i \in Around(q, p) : Len(i) > Len(o) => x \notin LocalAliases(q[i])
    BY <1>2 DEF RefersTo
  <2>2. o \in Around(q, p)
    BY <2>1 DEF Visible
  <2>3. x \in {q[o].from[n].table, q[o].from[n].alias} /\ x \in LocalAliases(q[o])
    BY <1>2, <2>1, RelationNames
  <2>4. x \in ApplyLocalAliases(q, p, t) <=>
                  \E j \in Around(q, p) : /\ x \in LocalTargets(q[j], t)
                                          /\ \A i \in Around(q, p) : Len(i) > Len(j) => x \notin LocalAliases(q[i])
    BY DEF ApplyLocalAliases
  <2> HIDE DEF x
  <2>5. q[o].from[n].table = t => x \in ApplyLocalAliases(q, p, t)
    <3>1. q[o].from[n].table = t => x \in LocalTargets(q[o], t)
      BY <1>2, <2>3, RelationNames DEF x
    <3> QED
      BY <2>1, <2>2, <2>4, <3>1
  <2>6. ASSUME x \in ApplyLocalAliases(q, p, t) PROVE q[o].from[n].table = t
    <3>1. PICK j \in Around(q, p) : /\ x \in LocalTargets(q[j], t)
                                    /\ \A i \in Around(q, p) : Len(i) > Len(j) => x \notin LocalAliases(q[i])
      BY <2>4, <2>6
    <3>2. LocalTargets(q[j], t) \subseteq LocalAliases(q[j])
      BY DEF LocalTargets, LocalAliases
    <3>3. Len(j) \in Nat /\ Len(o) \in Nat /\ ~(Len(j) > Len(o)) /\ ~(Len(o) > Len(j))
      BY <2>1, <2>2, <2>3, <3>1, <3>2, AroundOrder
    <3>4. j = o
      BY <2>2, <3>1, <3>3, AroundOrder
    <3>5. PICK m \in DOMAIN q[o].from : q[o].from[m].table = t /\ x \in {q[o].from[m].table, q[o].from[m].alias}
      BY <3>1, <3>4 DEF LocalTargets
    <3> QED
      BY <2>1, <3>5
  <2> QED
    BY <1>2, <2>5, <2>6 DEF ColumnRefTargetsTable, x
<1> QED
  BY <1>1, <1>2

-----------------------------------------------------------------------------
(* What a reference reads *)

\* The columns that the relations of a block offer.
LEMMA OfferedOK ==
    ASSUME NEW q, NEW o, NEW tables, NEW x
    PROVE  x \in Offered(q, o, tables) <=>
               \E m \in DOMAIN q[o].from :
                  LET r == q[o].from[m]
                  IN  \/ /\ r.table # NoName
                         /\ \E d \in DOMAIN tables[r.table] :
                               x = [of |-> VisibleName(r), name |-> tables[r.table][d], id |-> <<d>>]
                      \/ /\ r.table = NoName
                         /\ \E k \in DOMAIN r.names :
                               x = [of |-> VisibleName(r), name |-> r.names[k], id |-> <<o, m, k>>]
<1> DEFINE S(m) == LET r == q[o].from[m]
                   IN  IF IsTable(r)
                       THEN {[of |-> VisibleName(r), name |-> tables[r.table][c], id |-> <<c>>] :
                                 c \in DOMAIN tables[r.table]}
                       ELSE {[of |-> VisibleName(r), name |-> r.names[k], id |-> <<o, m, k>>] :
                                 k \in DOMAIN r.names}
<1>1. Offered(q, o, tables) = UNION {S(m) : m \in DOMAIN q[o].from}
  BY DEF Offered
<1>2. \A m \in DOMAIN q[o].from :
        x \in S(m) <=>
           \/ /\ q[o].from[m].table # NoName
              /\ \E d \in DOMAIN tables[q[o].from[m].table] :
                    x = [of |-> VisibleName(q[o].from[m]), name |-> tables[q[o].from[m].table][d], id |-> <<d>>]
           \/ /\ q[o].from[m].table = NoName
              /\ \E k \in DOMAIN q[o].from[m].names :
                    x = [of |-> VisibleName(q[o].from[m]), name |-> q[o].from[m].names[k], id |-> <<o, m, k>>]
  BY DEF IsTable
<1> HIDE DEF S
<1>3. x \in Offered(q, o, tables) <=> \E m \in DOMAIN q[o].from : x \in S(m)
  BY <1>1
<1> QED
  BY <1>2, <1>3

\* A reference reads what the innermost block offers that offers something.
LEMMA ResolveAt ==
    ASSUME NEW q, IsQuery(q), NEW p \in DOMAIN q, NEW ref, NEW tables,
           NEW o \in Visible(q, p), Found(q, o, ref, tables) # {},
           \A i \in Visible(q, p) : Len(i) > Len(o) => Found(q, i, ref, tables) = {}
    PROVE  Resolve(q, p, ref, tables) = One({c.id : c \in Found(q, o, ref, tables)})
<1> DEFINE F(i) == Found(q, i, ref, tables)
           having == {i \in Visible(q, p) : F(i) # {}}
           at == {i \in having : \A j \in having : IsPrefix(j, i)}
<1>1. Resolve(q, p, ref, tables) = One({c.id : c \in UNION {F(i) : i \in at}})
  BY DEF Resolve
<1>2. o \in having /\ having \subseteq Around(q, p)
  BY DEF Visible
<1>3. \A i \in having : ~(Len(i) > Len(o))
  OBVIOUS
<1> HIDE DEF having, F
<1>4. \A i \in having : Len(i) \in Nat /\ Len(i) <= Len(o) /\ IsPrefix(i, o) /\ (IsPrefix(o, i) => i = o)
  <2> TAKE i \in having
  <2>1. Len(i) \in Nat /\ Len(o) \in Nat
    BY <1>2, AroundOrder
  <2>2. Len(i) <= Len(o)
    BY <1>3, <2>1
  <2>3. IsPrefix(i, o)
    BY <1>2, <2>2, AroundOrder
  <2>4. IsPrefix(o, i) => i = o
    <3>1. IsPrefix(o, i) => Len(o) <= Len(i)
      BY DEF IsPrefix
    <3> QED
      BY <1>2, <2>1, <2>2, <3>1, AroundOrder
  <2> QED
    BY <2>1, <2>2, <2>3, <2>4
<1>5. at = {o}
  BY <1>2, <1>4
<1>6. UNION {F(i) : i \in at} = F(o)
  BY <1>5
<1> QED
  BY <1>1, <1>6 DEF F

\* Nothing between a plain reference and its relation offers it a column.
LEMMA NothingBetween ==
    ASSUME NEW q, IsQuery(q), NEW p \in DOMAIN q, NEW ref, NEW tables,
           NEW o \in DOMAIN q, NEW n \in DOMAIN q[o].from, RefersTo(q, p, ref, o, n)
    PROVE  /\ o \in Visible(q, p)
           /\ \A i \in Visible(q, p) : Len(i) > Len(o) => Found(q, i, ref, tables) = {}
           /\ \A x \in Found(q, o, ref, tables) :
                 /\ x.name = ref.name
                 /\ LET r == q[o].from[n]
                    IN  \/ /\ r.table # NoName
                           /\ \E d \in DOMAIN tables[r.table] :
                                 x = [of |-> VisibleName(r), name |-> tables[r.table][d], id |-> <<d>>]
                        \/ /\ r.table = NoName
                           /\ \E k \in DOMAIN r.names :
                                 x = [of |-> VisibleName(r), name |-> r.names[k], id |-> <<o, n, k>>]
<1>1. CASE ref.of = NoName
  <2>1. o = p /\ DOMAIN q[p].from = {n}
    BY <1>1 DEF RefersTo
  <2>2. p \in Visible(q, p) /\ Visible(q, p) \subseteq Around(q, p)
    BY AroundSelf
  <2>3. \A i \in Visible(q, p) : ~(Len(i) > Len(p))
    <3> TAKE i \in Visible(q, p)
    <3>1. Len(i) \in Nat /\ Len(i) <= Len(p) /\ Len(p) \in Nat
      BY <2>2, AroundOrder
    <3> QED
      BY <3>1
  <2>4. ASSUME NEW x \in Found(q, o, ref, tables)
        PROVE  x \in Offered(q, o, tables) /\ x.name = ref.name
    BY DEF Found
  <2>5. ASSUME NEW x \in Found(q, o, ref, tables)
        PROVE  LET r == q[o].from[n]
               IN  \/ /\ r.table # NoName
                      /\ \E d \in DOMAIN tables[r.table] :
                            x = [of |-> VisibleName(r), name |-> tables[r.table][d], id |-> <<d>>]
                   \/ /\ r.table = NoName
                      /\ \E k \in DOMAIN r.names :
                            x = [of |-> VisibleName(r), name |-> r.names[k], id |-> <<o, n, k>>]
    BY <2>1, <2>4, OfferedOK
  <2> QED
    BY <1>1, <2>1, <2>2, <2>3, <2>4, <2>5
<1>2. CASE ref.of # NoName
  <2>1. /\ o \in Visible(q, p) /\ ref.of = VisibleName(q[o].from[n])
        /\ \A m \in DOMAIN q[o].from \ {n} : ref.of \notin {q[o].from[m].table, q[o].from[m].alias}
        /\ \A i \in Around(q, p) : Len(i) > Len(o) => ref.of \notin LocalAliases(q[i])
    BY <1>2 DEF RefersTo
  <2>2. ASSUME NEW i \in DOMAIN q, NEW x \in Found(q, i, ref, tables)
        PROVE  /\ x.name = ref.name
               /\ \E m \in DOMAIN q[i].from :
                     /\ VisibleName(q[i].from[m]) = ref.of
                     /\ LET r == q[i].from[m]
                        IN  \/ /\ r.table # NoName
                               /\ \E d \in DOMAIN tables[r.table] :
                                     x = [of |-> VisibleName(r), name |-> tables[r.table][d], id |-> <<d>>]
                            \/ /\ r.table = NoName
                               /\ \E k \in DOMAIN r.names :
                                     x = [of |-> VisibleName(r), name |-> r.names[k], id |-> <<i, m, k>>]
    <3>1. x \in Offered(q, i, tables) /\ x.name = ref.name /\ x.of = ref.of
      BY <1>2 DEF Found
    <3>2. PICK m \in DOMAIN q[i].from :
                  LET r == q[i].from[m]
                  IN  \/ /\ r.table # NoName
                         /\ \E d \in DOMAIN tables[r.table] :
                               x = [of |-> VisibleName(r), name |-> tables[r.table][d], id |-> <<d>>]
                      \/ /\ r.table = NoName
                         /\ \E k \in DOMAIN r.names :
                               x = [of |-> VisibleName(r), name |-> r.names[k], id |-> <<i, m, k>>]
      BY <3>1, OfferedOK
    <3>3. x.of = VisibleName(q[i].from[m])
      BY <3>2
    <3> QED
      BY <3>1, <3>2, <3>3
  <2>3. \A i \in Visible(q, p) : Len(i) > Len(o) => Found(q, i, ref, tables) = {}
    <3> SUFFICES ASSUME NEW i \in Visible(q, p), Len(i) > Len(o), NEW x \in Found(q, i, ref, tables)
                 PROVE  FALSE
      OBVIOUS
    <3>1. i \in Around(q, p) /\ i \in DOMAIN q
      BY DEF Visible, Around
    <3>2. PICK m \in DOMAIN q[i].from : VisibleName(q[i].from[m]) = ref.of
      BY <2>2, <3>1
    <3>3. ref.of \in LocalAliases(q[i])
      BY <1>2, <3>1, <3>2, RelationNames
    <3> QED
      BY <2>1, <3>1, <3>3
  <2>4. ASSUME NEW x \in Found(q, o, ref, tables)
        PROVE  /\ x.name = ref.name
               /\ LET r == q[o].from[n]
                  IN  \/ /\ r.table # NoName
                         /\ \E d \in DOMAIN tables[r.table] :
                               x = [of |-> VisibleName(r), name |-> tables[r.table][d], id |-> <<d>>]
                      \/ /\ r.table = NoName
                         /\ \E k \in DOMAIN r.names :
                               x = [of |-> VisibleName(r), name |-> r.names[k], id |-> <<o, n, k>>]
    <3>1. PICK m \in DOMAIN q[o].from :
             /\ VisibleName(q[o].from[m]) = ref.of
             /\ LET r == q[o].from[m]
                IN  \/ /\ r.table # NoName
                       /\ \E d \in DOMAIN tables[r.table] :
                             x = [of |-> VisibleName(r), name |-> tables[r.table][d], id |-> <<d>>]
                    \/ /\ r.table = NoName
                       /\ \E k \in DOMAIN r.names :
                             x = [of |-> VisibleName(r), name |-> r.names[k], id |-> <<o, m, k>>]
      BY <2>2
    <3>2. m = n
      BY <2>1, <3>1, RelationNames
    <3> QED
      BY <2>2, <3>1, <3>2
  <2> QED
    BY <2>1, <2>3, <2>4
<1> QED
  BY <1>1, <1>2

LEMMA OneOK == \A x : One({x}) = x
BY DEF One

\* A reference to a table's column reads that column.
ReadsColumn(q, p, ref, tables, o, n, t, c) ==
    /\ IsQuery(q) /\ p \in DOMAIN q /\ o \in DOMAIN q /\ n \in DOMAIN q[o].from
    /\ RefersTo(q, p, ref, o, n)
    /\ t \in Tables /\ q[o].from[n].table = t /\ IsLayout(tables[t])
    /\ c \in DOMAIN tables[t] /\ tables[t][c] = ref.name
LEMMA BoundToTable ==
    ASSUME NEW q, NEW p, NEW ref, NEW tables, NEW o, NEW n, NEW t, NEW c,
           ReadsColumn(q, p, ref, tables, o, n, t, c)
    PROVE  Resolve(q, p, ref, tables) = <<c>>
<1> USE DEF ReadsColumn
<1> DEFINE F == Found(q, o, ref, tables)
           x == [of |-> VisibleName(q[o].from[n]), name |-> tables[t][c], id |-> <<c>>]
<1>0. t # NoName
  BY NamesAssumption
<1>1. x \in F
  <2>1. x \in Offered(q, o, tables)
    BY <1>0, OfferedOK
  <2>2. VisibleName(q[o].from[n]) = ref.of \/ ref.of = NoName
    BY DEF RefersTo
  <2> QED
    BY <2>1, <2>2 DEF Found
<1>2. ASSUME NEW y \in F PROVE y = x
  <2>1. y.name = ref.name /\ \E d \in DOMAIN tables[t] :
           y = [of |-> VisibleName(q[o].from[n]), name |-> tables[t][d], id |-> <<d>>]
    BY <1>0, NothingBetween
  <2>2. PICK d \in DOMAIN tables[t] :
           y = [of |-> VisibleName(q[o].from[n]), name |-> tables[t][d], id |-> <<d>>]
    BY <2>1
  <2>3. tables[t][d] = tables[t][c]
    BY <2>1, <2>2
  <2>4. d = c
    BY <2>3 DEF IsLayout, IsInjective
  <2> QED
    BY <2>2, <2>4
<1>3. Resolve(q, p, ref, tables) = One({y.id : y \in F})
  BY <1>1, NothingBetween, ResolveAt
<1>4. x.id = <<c>>
  OBVIOUS
<1> HIDE DEF F, x
<1>5. {y.id : y \in F} = {<<c>>}
  BY <1>1, <1>2, <1>4
<1> QED
  BY <1>3, <1>5, OneOK

\* A reference to a column of a derived table reads that.
LEMMA BoundToDerived ==
    ASSUME NEW q, IsQuery(q), NEW p \in DOMAIN q, NEW ref, NEW tables,
           NEW o \in DOMAIN q, NEW n \in DOMAIN q[o].from, RefersTo(q, p, ref, o, n),
           q[o].from[n].table = NoName, IsInjective(q[o].from[n].names),
           NEW k \in DOMAIN q[o].from[n].names, q[o].from[n].names[k] = ref.name
    PROVE  Resolve(q, p, ref, tables) = <<o, n, k>>
<1> DEFINE F == Found(q, o, ref, tables)
           names == q[o].from[n].names
           x == [of |-> VisibleName(q[o].from[n]), name |-> names[k], id |-> <<o, n, k>>]
<1>1. x \in F
  <2>1. x \in Offered(q, o, tables)
    BY OfferedOK
  <2>2. VisibleName(q[o].from[n]) = ref.of \/ ref.of = NoName
    BY DEF RefersTo
  <2> QED
    BY <2>1, <2>2 DEF Found
<1>2. ASSUME NEW y \in F PROVE y = x
  <2>1. y.name = ref.name /\ \E d \in DOMAIN names :
           y = [of |-> VisibleName(q[o].from[n]), name |-> names[d], id |-> <<o, n, d>>]
    BY NothingBetween
  <2>2. PICK d \in DOMAIN names :
           y = [of |-> VisibleName(q[o].from[n]), name |-> names[d], id |-> <<o, n, d>>]
    BY <2>1
  <2>3. names[d] = names[k]
    BY <2>1, <2>2
  <2>4. d = k
    BY <2>3 DEF IsInjective
  <2> QED
    BY <2>2, <2>4
<1>3. Resolve(q, p, ref, tables) = One({y.id : y \in F})
  BY <1>1, NothingBetween, ResolveAt
<1>4. x.id = <<o, n, k>>
  OBVIOUS
<1> HIDE DEF F, x
<1>5. {y.id : y \in F} = {<<o, n, k>>}
  BY <1>1, <1>2, <1>4
<1> QED
  BY <1>3, <1>5, OneOK

\* A reference by a name that nothing has does not bind.
LEMMA BoundToNothing ==
    ASSUME NEW q, NEW p \in DOMAIN q, NEW ref, NEW tables,
           \A o \in DOMAIN q : \A m \in DOMAIN q[o].from :
              /\ q[o].from[m].table # NoName => ref.name \notin Range(tables[q[o].from[m].table])
              /\ q[o].from[m].table = NoName => ref.name \notin Range(q[o].from[m].names)
    PROVE  Resolve(q, p, ref, tables) = Unbound
<1>1. ASSUME NEW o \in DOMAIN q, NEW x \in Found(q, o, ref, tables) PROVE FALSE
  <2>1. x \in Offered(q, o, tables) /\ x.name = ref.name
    BY DEF Found
  <2>2. PICK m \in DOMAIN q[o].from :
           LET r == q[o].from[m]
           IN  \/ /\ r.table # NoName
                  /\ \E d \in DOMAIN tables[r.table] :
                        x = [of |-> VisibleName(r), name |-> tables[r.table][d], id |-> <<d>>]
               \/ /\ r.table = NoName
                  /\ \E k \in DOMAIN r.names :
                        x = [of |-> VisibleName(r), name |-> r.names[k], id |-> <<o, m, k>>]
    BY <2>1, OfferedOK
  <2>3. q[o].from[m].table # NoName =>
            \E d \in DOMAIN tables[q[o].from[m].table] : ref.name = tables[q[o].from[m].table][d]
    BY <2>1, <2>2
  <2>4. q[o].from[m].table = NoName => \E k \in DOMAIN q[o].from[m].names : ref.name = q[o].from[m].names[k]
    BY <2>1, <2>2
  <2> QED
    BY <2>3, <2>4 DEF Range
<1>2. \A o \in Visible(q, p) : Found(q, o, ref, tables) = {}
  BY <1>1 DEF Visible, Around
<1>3. Resolve(q, p, ref, tables) = One({})
  <2> DEFINE having == {o \in Visible(q, p) : Found(q, o, ref, tables) # {}}
             ids == {c.id : c \in UNION {Found(q, o, ref, tables) :
                                           o \in {i \in having : \A o \in having : IsPrefix(o, i)}}}
  <2>1. having = {}
    BY <1>2
  <2>2. Resolve(q, p, ref, tables) = One(ids)
    BY DEF Resolve
  <2> HIDE DEF having
  <2>3. ids = {}
    BY <2>1
  <2> QED
    BY <2>2, <2>3
<1> QED
  BY <1>3 DEF One

-----------------------------------------------------------------------------
(* What the views call the columns *)

LEMMA FollowsIssued ==
    ASSUME TypesInv, StatementInv, NEW v \in Views, NEW t \in Sources[v], t \in Tables, NEW c, NEW called,
           Follows(v, t, c, called),
           NEW u \in Tables, NEW name \in Names, NEW new \in Names,
           AddColumn(u, name) \/ DropColumn(u, name) \/ RenameColumn(u, name, new),
           alter'.statement.op = "drop" /\ u = t => called # name
    PROVE  Follows(v, t, c, called)'
<1>1. /\ columns' = columns /\ alter' # Idle
      /\ alter'.statement.table = u /\ alter'.statement.name = name
      /\ alter'.statement.op = "rename" => Range(alter'.views) = DependentViews(u)
  BY IssuedOK
<1>2. Renaming(t) => Renaming(t)' /\ Unfinished(t)'.statement = Unfinished(t).statement
  BY WaitingIssued DEF Renaming
<1>3. u = t /\ alter'.statement.op = "rename" => v \in Range(alter'.views)
  BY <1>1 DEF DependentViews
<1> QED
  BY <1>1, <1>2, <1>3 DEF Follows

LEMMA FollowsRewritten ==
    ASSUME TypesInv, StatementInv, NEW v \in Views, NEW t \in Tables, NEW c, NEW called,
           Follows(v, t, c, called), RewriteView,
           NEW after,
           after = IF v = Head(alter.views) /\ alter.statement.table = t
                   THEN Rename(called, alter.statement.name, alter.statement.new) ELSE called
    PROVE  Follows(v, t, c, after)'
<1> DEFINE s == alter.statement
           h == Head(alter.views)
<1>1. /\ alter # Idle /\ alter.views # <<>> /\ alter' # Idle /\ alter'.statement = s
      /\ Range(alter.views) = {h} \union Range(alter'.views) /\ columns' = columns
  BY RewriteViewOK
<1>2. Renaming(t) => Renaming(t)' /\ Unfinished(t)'.statement = Unfinished(t).statement
  BY WaitingKept DEF SameWaiting, Renaming
<1>3. s.op = "rename" /\ Fits(s)
  BY <1>1 DEF StatementInv
<1>4. CASE s.table # t
  BY <1>1, <1>2, <1>4 DEF Follows
<1>5. CASE s.table = t /\ v # h
  BY <1>1, <1>2, <1>5 DEF Follows
<1>6. CASE s.table = t /\ v = h
  <2>1. ~Settled(t)
    BY <1>1, <1>6 DEF Settled
  <2>2. Unfinished(t).statement = s /\ Renaming(t)
    BY <1>1, <1>3, <1>6, <2>1, UnfinishedOK DEF Renaming
  <2>3. Renaming(t)' /\ Unfinished(t)'.statement = s
    BY <1>2, <2>2
  <2>4. s.name # s.new
    BY <1>3 DEF Fits
  <2>5. after = Rename(called, s.name, s.new)
    BY <1>6
  <2>6. c \in DOMAIN columns[t] /\ (called = columns[t][c] \/ (columns[t][c] = s.name /\ called = s.new))
    BY <2>2 DEF Follows
  <2>7. CASE called = s.name
    <3>1. after = s.new /\ columns[t][c] = s.name
      BY <2>4, <2>5, <2>6, <2>7 DEF Rename
    <3> QED
      BY <1>1, <1>3, <2>3, <2>4, <2>6, <3>1 DEF Follows
  <2>8. CASE called # s.name
    <3>1. after = called
      BY <2>5, <2>8 DEF Rename
    <3> QED
      BY <1>1, <1>3, <2>3, <2>6, <2>8, <3>1 DEF Follows
  <2> QED
    BY <2>7, <2>8
<1> QED
  BY <1>4, <1>5, <1>6

LEMMA FollowsKept ==
    ASSUME TypesInv, StatementInv, NEW v, NEW t \in Tables, NEW c, NEW called,
           Follows(v, t, c, called), SyncDeltaTable \/ MissDeltaTable \/ Fail
    PROVE  Follows(v, t, c, called)'
<1>1. Renaming(t) => Renaming(t)' /\ Unfinished(t)'.statement = Unfinished(t).statement
  BY WaitingKept DEF SameWaiting, Renaming
<1>2. CASE SyncDeltaTable \/ MissDeltaTable
  BY <1>1, <1>2, SyncedOK, MissedOK DEF Follows
<1>3. CASE Fail
  BY <1>1, <1>3, FailedOK DEF Follows
<1> QED
  BY <1>2, <1>3

LEMMA FollowsFinished ==
    ASSUME TypesInv, StatementInv, NEW v, NEW t \in Tables, NEW c, NEW called,
           Follows(v, t, c, called), AlterTable
    PROVE  Follows(v, t, c, called)'
<1> DEFINE s == alter.statement
           d == alter.column
<1>1. /\ alter # Idle /\ s \in Statements /\ d \in Nat /\ alter.synced /\ s.table \in Tables
      /\ columns' = Altered(columns, s, d) /\ alter' = Idle
  BY FinishedOK
<1>2. AreLayouts(columns) /\ IsLayout(columns[t])
  BY DEF TypesInv, TypeOK, AreLayouts
<1>3. CASE t # s.table
  <2>1. columns'[t] = columns[t]
    BY <1>1, <1>2, <1>3, AlteredTables
  <2>2. Renaming(t) => Renaming(t)' /\ Unfinished(t)' = Unfinished(t)
    BY <1>1, <1>3, WaitingFinished DEF Renaming
  <2> QED
    BY <1>1, <2>1, <2>2 DEF Follows
<1>4. CASE t = s.table
  <2>1. ~Settled(t)
    BY <1>1, <1>4 DEF Settled
  <2>2. Unfinished(t).statement = s /\ Fits(s)
    BY <1>1, <1>4, <2>1, UnfinishedOK
  <2>3. d \notin DOMAIN columns[t] /\ alter.views = <<>>
    BY <1>1, <1>4 DEF StatementInv, IsNew
  <2>4. columns'[t] = AlteredColumns(columns[t], s, d)
    BY <1>1, <1>2, <1>4, AlteredTables
  <2>5. /\ c \in DOMAIN columns[t]
        /\ called = columns[t][c] \/ (s.op = "rename" /\ columns[t][c] = s.name /\ called = s.new)
        /\ s.op \in {"rename", "drop"} => called # s.name
    <3>1. v \notin Range(alter.views)
      BY <2>3 DEF Range
    <3> QED
      BY <1>1, <1>4, <2>2, <3>1 DEF Follows, Renaming
  <2>6. c \in DOMAIN columns'[t] /\ called = columns'[t][c]
    <3>1. CASE s.op = "add"
      <4>1. c # d
        BY <2>3, <2>5
      <4> QED
        BY <1>1, <1>2, <2>4, <2>5, <3>1, <4>1, AlteredLayout
    <3>2. CASE s.op = "drop"
      BY <1>1, <1>2, <2>4, <2>5, <3>2, AlteredLayout
    <3>3. CASE s.op = "rename"
      <4>1. s.name \in Range(columns[t]) /\ s.new \notin Range(columns[t])
        BY <1>4, <2>2, <3>3 DEF Fits, Named
      <4>2. /\ DOMAIN AlteredColumns(columns[t], s, d) = DOMAIN columns[t]
            /\ \A x \in DOMAIN columns[t] :
                  AlteredColumns(columns[t], s, d)[x] = IF columns[t][x] = s.name THEN s.new ELSE columns[t][x]
        BY <1>1, <1>2, <3>3, <4>1, AlteredLayout
      <4> QED
        BY <2>4, <2>5, <3>3, <4>2
    <3> QED
      BY <1>1, <3>1, <3>2, <3>3 DEF Statements
  <2> QED
    BY <1>1, <2>6 DEF Follows
<1> QED
  BY <1>3, <1>4

\* A table that waits for no rename has the columns that the views read, by
\* the names that they use.
LEMMA FollowsName ==
    ASSUME NEW v, NEW t, NEW c, NEW called, Follows(v, t, c, called), ~Renaming(t)
    PROVE  c \in DOMAIN columns[t] /\ called = columns[t][c]
BY DEF Follows

-----------------------------------------------------------------------------
(* The stored queries *)

\* What the stored query of a view has of the query it was created with.
LEMMA StoredOK ==
    ASSUME TypesInv, NEW v \in Views, NEW p \in DOMAIN Queries[v], NEW k \in DOMAIN Queries[v][p].refs
    PROVE  /\ IsQuery(stored[v]) /\ IsQuery(Queries[v]) /\ SameShape(stored[v], Queries[v])
           /\ p \in DOMAIN stored[v] /\ k \in DOMAIN stored[v][p].refs
           /\ DOMAIN stored[v] = DOMAIN Queries[v]
           /\ stored[v][p].refs[k].of = Queries[v][p].refs[k].of
<1>1. IsQuery(stored[v]) /\ IsQuery(Queries[v]) /\ SameShape(stored[v], Queries[v])
  BY ViewsAssumption DEF TypesInv, TypeOK, ShapeKept
<1> QED
  BY <1>1 DEF SameShape

\* The rewriting takes a reference to be to the table that it reads.
LEMMA StoredTargets ==
    ASSUME TypesInv, NEW v \in Views, NEW p \in DOMAIN Queries[v], NEW k \in DOMAIN Queries[v][p].refs,
           NEW o \in DOMAIN Queries[v], NEW n \in DOMAIN Queries[v][o].from, Reads(v, p, k, o, n),
           NEW t \in Tables
    PROVE  ColumnRefTargetsTable(stored[v], p, stored[v][p].refs[k].of, t) <=> Queries[v][o].from[n].table = t
<1>1. /\ IsQuery(Queries[v]) /\ SameShape(stored[v], Queries[v])
      /\ p \in DOMAIN stored[v] /\ stored[v][p].refs[k].of = Queries[v][p].refs[k].of
  BY StoredOK
<1>2. RefersTo(Queries[v], p, Queries[v][p].refs[k], o, n)
  BY DEF Reads
<1>3. ColumnRefTargetsTable(Queries[v], p, Queries[v][p].refs[k].of, t) <=> Queries[v][o].from[n].table = t
  BY <1>1, <1>2, TargetsOK
<1> QED
  BY <1>1, <1>3, ShapeScopes

\* What a reference reads, of the tables.
LEMMA ReadsOK ==
    ASSUME NEW v \in Views, NEW p \in DOMAIN Queries[v], NEW k \in DOMAIN Queries[v][p].refs,
           NEW o \in DOMAIN Queries[v], NEW n \in DOMAIN Queries[v][o].from, Reads(v, p, k, o, n),
           NEW t, t = Queries[v][o].from[n].table, t # NoName
    PROVE  /\ t \in Sources[v] /\ t \in Tables /\ t \in Sources[v]
           /\ LET name == Queries[v][p].refs[k].name
              IN  /\ name \in Named(t, FirstColumns) /\ Original(t, name) \in DOMAIN FirstColumns[t]
                  /\ FirstColumns[t][Original(t, name)] = name
<1> DEFINE name == Queries[v][p].refs[k].name
<1>1. t \in Sources[v] /\ name \in Range(FirstColumns[t])
  BY DEF Reads, IsTable, Named
<1>2. t \in Tables
  BY <1>1, ViewsAssumption
<1> QED
  BY <1>1, <1>2, ColumnOfName DEF Original, Named

LEMMA EntryOK ==
    ASSUME PlainQueries, NEW v \in Views, NEW n \in DOMAIN Metadata[v], Metadata[v][n].role # "stable"
    PROVE  LET e == Metadata[v][n]
           IN  /\ e.table \in Sources[v] /\ e.table \in Tables /\ e.table # NoName
               /\ e.role = "group" => Sources[v] = {e.table}
               /\ e.role \in {"source", "group"}
               /\ \E p \in DOMAIN Queries[v] : \E k \in DOMAIN Queries[v][p].refs :
                  \E o \in DOMAIN Queries[v] : \E m \in DOMAIN Queries[v][o].from :
                     /\ Reads(v, p, k, o, m) /\ Queries[v][o].from[m].table = e.table
                     /\ Queries[v][p].refs[k].name = e.name
<1> DEFINE e == Metadata[v][n]
<1>1. Metadata[v] \in Seq(Entries)
  BY ViewsAssumption
<1>2. e \in Entries /\ e \in Range(Metadata[v])
  BY <1>1, SeqElements DEF Range
<1>3. e.table \in Tables /\ e.role \in {"source", "stable", "group"}
  BY <1>2 DEF Entries
<1>4. /\ e.role = "group" => Sources[v] = {e.table}
      /\ \E p \in DOMAIN Queries[v] : \E k \in DOMAIN Queries[v][p].refs :
         \E o \in DOMAIN Queries[v] : \E m \in DOMAIN Queries[v][o].from :
            /\ Reads(v, p, k, o, m) /\ Queries[v][o].from[m].table = e.table
            /\ Queries[v][p].refs[k].name = e.name
  BY <1>2 DEF PlainQueries, PlainMetadata
<1>5. e.table # NoName
  BY <1>3, NamesAssumption
<1>6. e.table \in Sources[v]
  BY <1>4, <1>5, ReadsOK
<1> QED
  BY <1>3, <1>4, <1>5, <1>6

LEMMA QueryInit == ASSUME PlainQueries, Init PROVE QueryInv
<1>1. /\ columns = FirstColumns /\ stored = Queries /\ aux = Metadata /\ alter = Idle
  BY DEF Init
<1>2. ASSUME NEW v \in Views, NEW p \in DOMAIN Queries[v], NEW k \in DOMAIN Queries[v][p].refs,
             NEW o \in DOMAIN Queries[v], NEW n \in DOMAIN Queries[v][o].from, Reads(v, p, k, o, n)
      PROVE  ReferenceFollows(v, p, k, o, n)
  <2> DEFINE t == Queries[v][o].from[n].table
             name == Queries[v][p].refs[k].name
  <2>1. ASSUME t # NoName PROVE Follows(v, t, Original(t, name), name)
    <3>1. Original(t, name) \in DOMAIN columns[t] /\ columns[t][Original(t, name)] = name
      BY <1>1, <1>2, <2>1, ReadsOK
    <3> QED
      BY <1>1, <3>1 DEF Follows
  <2> QED
    BY <1>1, <2>1 DEF ReferenceFollows
<1>3. ASSUME NEW v \in Views, NEW n \in DOMAIN Metadata[v] PROVE EntryFollows(v, n)
  <2> DEFINE e == Metadata[v][n]
  <2>1. ASSUME e.role # "stable" PROVE Follows(v, e.table, Original(e.table, e.name), e.name)
    <3>1. PICK p, k, o, m :
               /\ p \in DOMAIN Queries[v] /\ k \in DOMAIN Queries[v][p].refs
               /\ o \in DOMAIN Queries[v] /\ m \in DOMAIN Queries[v][o].from
               /\ Reads(v, p, k, o, m) /\ Queries[v][o].from[m].table = e.table
               /\ Queries[v][p].refs[k].name = e.name /\ e.table # NoName
      BY <2>1, EntryOK
    <3>2. ReferenceFollows(v, p, k, o, m)
      BY <1>2, <3>1
    <3> QED
      BY <1>1, <3>1, <3>2 DEF ReferenceFollows
  <2> QED
    BY <1>1, <2>1 DEF EntryFollows
<1> QED
  BY <1>1, <1>2, <1>3 DEF QueryInv

\* A column is dropped only while no view calls one by its name.
LEMMA DropSafe ==
    ASSUME PlainQueries, TypesInv, StatementInv, QueryInv,
           NEW u \in Tables, NEW name \in Names, alter = Idle, ~SomeViewReferences(u, name),
           torn[u] # Idle => torn[u].statement.op # "rename",
           NEW v \in Views
    PROVE  /\ \A p \in DOMAIN Queries[v] : \A k \in DOMAIN Queries[v][p].refs :
              \A o \in DOMAIN Queries[v] : \A n \in DOMAIN Queries[v][o].from :
                 Reads(v, p, k, o, n) /\ Queries[v][o].from[n].table = u => stored[v][p].refs[k].name # name
           /\ \A n \in DOMAIN Metadata[v] :
                 Metadata[v][n].role # "stable" /\ Metadata[v][n].table = u => aux[v][n].name # name
<1>0. u # NoName
  BY NamesAssumption
<1>1. ~Renaming(u)
  BY DEF Renaming, Settled, Unfinished
<1>2. ASSUME NEW p \in DOMAIN Queries[v], NEW k \in DOMAIN Queries[v][p].refs,
             NEW o \in DOMAIN Queries[v], NEW n \in DOMAIN Queries[v][o].from,
             Reads(v, p, k, o, n), Queries[v][o].from[n].table = u
      PROVE  stored[v][p].refs[k].name # name
  <2>1. u \in Sources[v]
    BY <1>0, <1>2, ReadsOK
  <2>2. ~References(v, u, name)
    BY <2>1 DEF SomeViewReferences, DependentViews
  <2>3. ColumnRefTargetsTable(stored[v], p, stored[v][p].refs[k].of, u)
    BY <1>2, StoredTargets
  <2>4. p \in DOMAIN stored[v] /\ k \in DOMAIN stored[v][p].refs
    BY StoredOK
  <2> QED
    BY <2>2, <2>3, <2>4 DEF References
<1>3. ASSUME NEW n \in DOMAIN Metadata[v], Metadata[v][n].role # "stable", Metadata[v][n].table = u
      PROVE  aux[v][n].name # name
  <2> DEFINE e == Metadata[v][n]
  <2>1. PICK p, k, o, m :
             /\ p \in DOMAIN Queries[v] /\ k \in DOMAIN Queries[v][p].refs
             /\ o \in DOMAIN Queries[v] /\ m \in DOMAIN Queries[v][o].from
             /\ Reads(v, p, k, o, m) /\ Queries[v][o].from[m].table = u
             /\ Queries[v][p].refs[k].name = e.name
    BY <1>3, EntryOK
  <2>2. ReferenceFollows(v, p, k, o, m) /\ EntryFollows(v, n)
    BY <2>1 DEF QueryInv
  <2>3. stored[v][p].refs[k].name = columns[u][Original(u, e.name)]
    BY <1>0, <1>1, <2>1, <2>2, FollowsName DEF ReferenceFollows
  <2>4. aux[v][n].name = columns[u][Original(u, e.name)]
    BY <1>1, <1>3, <2>2, FollowsName DEF EntryFollows
  <2> QED
    BY <1>2, <2>1, <2>3, <2>4
<1> QED
  BY <1>2, <1>3

\* When nothing of the views changes, what they call the columns has to be
\* right still.
LEMMA QueryFollows ==
    ASSUME PlainQueries, TypesInv, QueryInv, UNCHANGED <<stored, aux>>,
           \A v \in Views : \A t \in Sources[v] : \A c, called :
              Follows(v, t, c, called) => Follows(v, t, c, called)'
    PROVE  QueryInv'
<1>1. ASSUME NEW v \in Views, NEW p \in DOMAIN Queries[v], NEW k \in DOMAIN Queries[v][p].refs,
             NEW o \in DOMAIN Queries[v], NEW n \in DOMAIN Queries[v][o].from, Reads(v, p, k, o, n)
      PROVE  ReferenceFollows(v, p, k, o, n)'
  <2>1. ReferenceFollows(v, p, k, o, n)
    BY <1>1 DEF QueryInv
  <2> DEFINE t == Queries[v][o].from[n].table
             c == Original(t, Queries[v][p].refs[k].name)
  <2>0. PICK called : called = stored[v][p].refs[k].name
    OBVIOUS
  <2>2. CASE t # NoName
    <3>1. t \in Sources[v]
      BY <1>1, <2>2, ReadsOK
    <3>2. Follows(v, t, c, called)
      BY <2>0, <2>1, <2>2 DEF ReferenceFollows
    <3>3. Follows(v, t, c, called)'
      <4>1. \A d, x : Follows(v, t, d, x) => Follows(v, t, d, x)'
        BY <3>1
      <4> QED
        BY <3>2, <4>1
    <3>4. stored'[v][p].refs[k].name = called
      BY <2>0
    <3> QED
      BY <2>2, <3>3, <3>4 DEF ReferenceFollows
  <2>3. CASE t = NoName
    BY <2>1, <2>3 DEF ReferenceFollows
  <2> QED
    BY <2>2, <2>3
<1>2. ASSUME NEW v \in Views, NEW n \in DOMAIN Metadata[v] PROVE EntryFollows(v, n)'
  <2> DEFINE e == Metadata[v][n]
             t == e.table
             c == Original(t, e.name)
  <2>0. PICK called : called = aux[v][n].name
    OBVIOUS
  <2>1. EntryFollows(v, n)
    BY DEF QueryInv
  <2>2. CASE e.role # "stable"
    <3>1. t \in Sources[v]
      BY <2>2, EntryOK
    <3>2. Follows(v, t, c, called)
      BY <2>0, <2>1, <2>2 DEF EntryFollows
    <3>3. Follows(v, t, c, called)'
      <4>1. \A d, x : Follows(v, t, d, x) => Follows(v, t, d, x)'
        BY <3>1
      <4> QED
        BY <3>2, <4>1
    <3>4. aux'[v][n].name = called
      BY <2>0
    <3> QED
      BY <2>2, <3>3, <3>4 DEF EntryFollows
  <2>3. CASE e.role = "stable"
    BY <2>1, <2>3 DEF EntryFollows
  <2> QED
    BY <2>2, <2>3
<1>3. \A v \in Views : IF Queries[v][<<>>].union
                       THEN \A p \in DOMAIN Queries[v] : stored'[v][p].out = Queries[v][p].out
                       ELSE Output(stored'[v]) = Output(Queries[v])
  BY DEF QueryInv
<1> QED
  BY <1>1, <1>2, <1>3 DEF QueryInv

\* One view follows the rename; the others stay as they are.
LEMMA QueryRewritten ==
    ASSUME PlainQueries, TypesInv, StatementInv, QueryInv, RewriteView
    PROVE  QueryInv'
<1> DEFINE h == Head(alter.views)
           s == alter.statement
           w == RewriteStored(h, s.table, s.name, s.new)
           a == RewriteAux(h, s.table, s.name, s.new)
<1>1. /\ h \in Views /\ s.table \in Tables /\ s.table \in Sources[h] /\ s.name \in Words /\ s.new \in Words
      /\ stored' = [stored EXCEPT ![h] = w] /\ aux' = [aux EXCEPT ![h] = a]
  BY RewriteViewOK
<1>2. /\ DOMAIN stored = Views /\ DOMAIN aux = Views
      /\ IsQuery(stored[h]) /\ SameShape(stored[h], Queries[h]) /\ aux[h] \in Seq(Entries)
      /\ \A v \in Views : Len(aux[v]) = Len(Metadata[v]) /\ aux[v] \in Seq(Entries) /\ Metadata[v] \in Seq(Entries)
      /\ \A v \in Views : \A n \in DOMAIN aux[v] :
            aux[v][n].role = Metadata[v][n].role /\ aux[v][n].table = Metadata[v][n].table
  <2>1. h \in Views
    BY <1>1
  <2>2. \A v \in Views : Metadata[v] \in Seq(Entries)
    BY ViewsAssumption
  <2> HIDE DEF h
  <2> QED
    BY <2>1, <2>2 DEF TypesInv, TypeOK, ShapeKept
<1>3. /\ \A p \in DOMAIN stored[h] : \A k \in DOMAIN stored[h][p].refs :
            w[p].refs[k].name = IF ColumnRefTargetsTable(stored[h], p, stored[h][p].refs[k].of, s.table)
                                THEN Rename(stored[h][p].refs[k].name, s.name, s.new)
                                ELSE stored[h][p].refs[k].name
      /\ IF stored[h][<<>>].union THEN \A p \in DOMAIN stored[h] : w[p].out = stored[h][p].out
         ELSE Output(w) \in {Output(stored[h]), Output(Queries[h])}
  BY <1>1, <1>2, RewriteStoredOK
<1>4. \A n \in DOMAIN aux[h] :
          a[n].name = IF \/ aux[h][n].role = "group"
                         \/ aux[h][n].role = "source" /\ aux[h][n].table = s.table
                      THEN Rename(aux[h][n].name, s.name, s.new) ELSE aux[h][n].name
  BY <1>1, <1>2, RewriteAuxOK
<1> HIDE DEF w, a
<1>5. /\ stored'[h] = w /\ \A v \in Views \ {h} : stored'[v] = stored[v]
      /\ aux'[h] = a /\ \A v \in Views \ {h} : aux'[v] = aux[v]
  BY <1>1, <1>2
<1>6. ASSUME NEW v \in Views, NEW p \in DOMAIN Queries[v], NEW k \in DOMAIN Queries[v][p].refs,
             NEW o \in DOMAIN Queries[v], NEW n \in DOMAIN Queries[v][o].from, Reads(v, p, k, o, n)
      PROVE  ReferenceFollows(v, p, k, o, n)'
  <2> DEFINE t == Queries[v][o].from[n].table
             c == Original(t, Queries[v][p].refs[k].name)
  <2>1. ReferenceFollows(v, p, k, o, n)
    BY <1>6 DEF QueryInv
  <2>2. PICK called : called = stored[v][p].refs[k].name
    OBVIOUS
  <2>3. PICK after : after = IF v = h /\ s.table = t THEN Rename(called, s.name, s.new) ELSE called
    OBVIOUS
  <2>4. stored'[v][p].refs[k].name = after
    <3>1. CASE v = h
      <4>1. ColumnRefTargetsTable(stored[v], p, stored[v][p].refs[k].of, s.table) <=> t = s.table
        BY <1>1, <1>6, StoredTargets
      <4>2. p \in DOMAIN stored[v] /\ k \in DOMAIN stored[v][p].refs
        BY StoredOK
      <4> QED
        BY <1>3, <1>5, <2>2, <2>3, <3>1, <4>1, <4>2
    <3>2. CASE v # h
      BY <1>5, <2>2, <2>3, <3>2
    <3> QED
      BY <3>1, <3>2
  <2>5. CASE t # NoName
    <3>1. t \in Tables
      BY <1>6, <2>5, ReadsOK
    <3>2. Follows(v, t, c, called)
      BY <2>1, <2>2, <2>5 DEF ReferenceFollows
    <3>3. Follows(v, t, c, after)'
      BY <2>3, <3>1, <3>2, FollowsRewritten
    <3> QED
      BY <2>4, <2>5, <3>3 DEF ReferenceFollows
  <2>6. CASE t = NoName
    <3>1. s.table # t
      BY <1>1, <2>6, NamesAssumption
    <3> QED
      BY <2>1, <2>2, <2>3, <2>4, <2>6, <3>1 DEF ReferenceFollows
  <2> QED
    BY <2>5, <2>6
<1>7. ASSUME NEW v \in Views, NEW n \in DOMAIN Metadata[v] PROVE EntryFollows(v, n)'
  <2> DEFINE e == Metadata[v][n]
             t == e.table
             c == Original(t, e.name)
  <2>1. EntryFollows(v, n)
    BY DEF QueryInv
  <2>2. n \in DOMAIN aux[v] /\ aux[v][n].role = e.role /\ aux[v][n].table = t
    BY <1>2, SeqElements
  <2>3. CASE e.role # "stable"
    <3>1. /\ t \in Tables /\ t \in Sources[v]
          /\ e.role = "group" => Sources[v] = {t}
      BY <2>3, EntryOK
    <3>2. PICK called : called = aux[v][n].name
      OBVIOUS
    <3>3. PICK after : after = IF v = h /\ s.table = t THEN Rename(called, s.name, s.new) ELSE called
      OBVIOUS
    <3>4. aux'[v][n].name = after
      <4>1. CASE v = h
        <5>1. (e.role = "group" \/ (e.role = "source" /\ t = s.table)) <=> s.table = t
          <6>1. e.role \in {"source", "group"}
            BY <2>3, EntryOK
          <6> QED
            BY <1>1, <3>1, <4>1, <6>1
        <5> QED
          BY <1>4, <1>5, <2>2, <3>2, <3>3, <4>1, <5>1
      <4>2. CASE v # h
        BY <1>5, <3>2, <3>3, <4>2
      <4> QED
        BY <4>1, <4>2
    <3>5. Follows(v, t, c, called)
      BY <2>1, <2>3, <3>2 DEF EntryFollows
    <3>6. Follows(v, t, c, after)'
      BY <3>1, <3>3, <3>5, FollowsRewritten
    <3> QED
      BY <2>3, <3>4, <3>6 DEF EntryFollows
  <2>4. CASE e.role = "stable"
    <3>1. aux'[v][n].name = aux[v][n].name
      <4>1. CASE v = h
        BY <1>4, <1>5, <2>2, <2>4, <4>1
      <4>2. CASE v # h
        BY <1>5, <4>2
      <4> QED
        BY <4>1, <4>2
    <3> QED
      BY <2>1, <2>4, <3>1 DEF EntryFollows
  <2> QED
    BY <2>3, <2>4
<1>8. ASSUME NEW v \in Views
      PROVE  IF Queries[v][<<>>].union
             THEN \A p \in DOMAIN Queries[v] : stored'[v][p].out = Queries[v][p].out
             ELSE Output(stored'[v]) = Output(Queries[v])
  <2>1. IF Queries[v][<<>>].union
        THEN \A p \in DOMAIN Queries[v] : stored[v][p].out = Queries[v][p].out
        ELSE Output(stored[v]) = Output(Queries[v])
    BY DEF QueryInv
  <2>2. /\ DOMAIN stored[h] = DOMAIN Queries[h] /\ <<>> \in DOMAIN stored[h]
        /\ stored[h][<<>>].union = Queries[h][<<>>].union
    BY <1>2 DEF SameShape, IsQuery
  <2>3. CASE v = h
    BY <1>3, <1>5, <2>1, <2>2, <2>3
  <2>4. CASE v # h
    BY <1>5, <2>1, <2>4
  <2> QED
    BY <2>3, <2>4
<1> QED
  BY <1>6, <1>7, <1>8 DEF QueryInv

LEMMA QueryIssued ==
    ASSUME PlainQueries, TypesInv, StatementInv, QueryInv,
           NEW u \in Tables, NEW name \in Names, NEW new \in Names,
           AddColumn(u, name) \/ DropColumn(u, name) \/ RenameColumn(u, name, new)
    PROVE  QueryInv'
<1>1. /\ UNCHANGED <<stored, aux, columns>> /\ alter = Idle /\ alter'.statement.table = u
      /\ torn[u] # Idle => torn[u].statement = alter'.statement
      /\ alter'.statement.op = "drop" => ~SomeViewReferences(u, name)
  BY IssuedOK
<1>2. CASE alter'.statement.op # "drop"
  <2>1. ASSUME NEW v \in Views, NEW t \in Sources[v], NEW c, NEW called, Follows(v, t, c, called)
        PROVE  Follows(v, t, c, called)'
    <3>1. t \in Tables
      BY ViewsAssumption
    <3> QED
      BY <1>2, <2>1, <3>1, FollowsIssued
  <2> QED
    BY <1>1, <2>1, QueryFollows
<1>3. CASE alter'.statement.op = "drop"
  <2>1. \A v \in Views :
           /\ \A p \in DOMAIN Queries[v] : \A k \in DOMAIN Queries[v][p].refs :
              \A o \in DOMAIN Queries[v] : \A n \in DOMAIN Queries[v][o].from :
                 Reads(v, p, k, o, n) /\ Queries[v][o].from[n].table = u => stored[v][p].refs[k].name # name
           /\ \A n \in DOMAIN Metadata[v] :
                 Metadata[v][n].role # "stable" /\ Metadata[v][n].table = u => aux[v][n].name # name
    BY <1>1, <1>3, DropSafe
  <2>2. ASSUME NEW v \in Views, NEW t \in Sources[v], NEW c, NEW called, Follows(v, t, c, called),
               t = u => called # name
        PROVE  Follows(v, t, c, called)'
    <3>1. t \in Tables
      BY ViewsAssumption
    <3> QED
      BY <2>2, <3>1, FollowsIssued
  <2>3. ASSUME NEW v \in Views, NEW p \in DOMAIN Queries[v], NEW k \in DOMAIN Queries[v][p].refs,
               NEW o \in DOMAIN Queries[v], NEW n \in DOMAIN Queries[v][o].from, Reads(v, p, k, o, n)
        PROVE  ReferenceFollows(v, p, k, o, n)'
    <3> DEFINE t == Queries[v][o].from[n].table
               c == Original(t, Queries[v][p].refs[k].name)
    <3>1. ReferenceFollows(v, p, k, o, n)
      BY <2>3 DEF QueryInv
    <3>2. PICK called : called = stored[v][p].refs[k].name
      OBVIOUS
    <3>3. CASE t # NoName
      <4>1. t \in Sources[v]
        BY <2>3, <3>3, ReadsOK
      <4>2. Follows(v, t, c, called)
        BY <3>1, <3>2, <3>3 DEF ReferenceFollows
      <4>3. t = u => called # name
        BY <2>1, <2>3, <3>2
      <4>4. Follows(v, t, c, called)'
        BY <2>2, <4>1, <4>2, <4>3
      <4>5. stored'[v][p].refs[k].name = called
        BY <1>1, <3>2
      <4> QED
        BY <3>3, <4>4, <4>5 DEF ReferenceFollows
    <3>4. CASE t = NoName
      BY <1>1, <3>1, <3>4 DEF ReferenceFollows
    <3> QED
      BY <3>3, <3>4
  <2>4. ASSUME NEW v \in Views, NEW n \in DOMAIN Metadata[v] PROVE EntryFollows(v, n)'
    <3> DEFINE e == Metadata[v][n]
               t == e.table
               c == Original(t, e.name)
    <3>1. EntryFollows(v, n)
      BY DEF QueryInv
    <3>2. PICK called : called = aux[v][n].name
      OBVIOUS
    <3>3. CASE e.role # "stable"
      <4>1. t \in Sources[v]
        BY <3>3, EntryOK
      <4>2. Follows(v, t, c, called)
        BY <3>1, <3>2, <3>3 DEF EntryFollows
      <4>3. t = u => called # name
        BY <2>1, <3>2, <3>3
      <4>4. Follows(v, t, c, called)'
        BY <2>2, <4>1, <4>2, <4>3
      <4>5. aux'[v][n].name = called
        BY <1>1, <3>2
      <4> QED
        BY <3>3, <4>4, <4>5 DEF EntryFollows
    <3>4. CASE e.role = "stable"
      BY <1>1, <3>1, <3>4 DEF EntryFollows
    <3> QED
      BY <3>3, <3>4
  <2>5. \A v \in Views : IF Queries[v][<<>>].union
                         THEN \A p \in DOMAIN Queries[v] : stored'[v][p].out = Queries[v][p].out
                         ELSE Output(stored'[v]) = Output(Queries[v])
    BY <1>1 DEF QueryInv
  <2> QED
    BY <2>3, <2>4, <2>5 DEF QueryInv
<1> QED
  BY <1>2, <1>3

LEMMA QueryStep ==
    ASSUME PlainQueries, TypesInv, StatementInv, QueryInv, [Next]_vars
    PROVE  QueryInv'
<1>1. \A v \in Views : Sources[v] \subseteq Tables
  BY ViewsAssumption
<1>2. ASSUME UNCHANGED <<columns, stored, aux, alter, torn>> PROVE QueryInv'
  <2>1. \A v \in Views : \A t \in Sources[v] : \A c, called :
           Follows(v, t, c, called) => Follows(v, t, c, called)'
    BY <1>2 DEF Follows, Renaming, Settled, Unfinished
  <2> QED
    BY <1>2, <2>1, QueryFollows
<1>3. ASSUME SyncDeltaTable \/ MissDeltaTable \/ Fail \/ AlterTable PROVE QueryInv'
  <2>1. UNCHANGED <<stored, aux>>
    BY <1>3, SyncedOK, MissedOK, FailedOK, FinishedOK
  <2>2. ASSUME NEW v \in Views, NEW t \in Sources[v], NEW c, NEW called, Follows(v, t, c, called)
        PROVE  Follows(v, t, c, called)'
    <3>1. t \in Tables
      BY <1>1
    <3> QED
      BY <1>3, <2>2, <3>1, FollowsKept, FollowsFinished
  <2> QED
    BY <2>1, <2>2, QueryFollows
<1>4. ASSUME NEW t \in Tables, NEW name \in Names, RefuseDrop(t, name) PROVE QueryInv'
  BY <1>2, <1>4, RefusedOK
<1>5. ASSUME NEW t \in Tables, NEW name \in Names, NEW new \in Names,
             AddColumn(t, name) \/ DropColumn(t, name) \/ RenameColumn(t, name, new)
      PROVE  QueryInv'
  BY <1>5, QueryIssued
<1>6. CASE UNCHANGED vars
  BY <1>2, <1>6 DEF vars
<1> QED
  BY <1>3, <1>4, <1>5, <1>6, QueryRewritten DEF Next

LEMMA QueryInvariant ==
    ASSUME PlainQueries
    PROVE  Spec => [](TypesInv /\ StatementInv /\ QueryInv)
<1>1. Init => QueryInv
  BY QueryInit
<1>2. TypesInv /\ StatementInv /\ QueryInv /\ [Next]_vars => QueryInv'
  BY QueryStep
<1> QED
  BY StatementInvariant, <1>1, <1>2, PTL DEF Spec

-----------------------------------------------------------------------------
(* What the stored queries mean *)

\* What a plain reference read when its view was created.
LEMMA ReadAtFirst ==
    ASSUME NEW v \in Views, NEW p \in DOMAIN Queries[v], NEW k \in DOMAIN Queries[v][p].refs,
           NEW o \in DOMAIN Queries[v], NEW n \in DOMAIN Queries[v][o].from, Reads(v, p, k, o, n),
           NEW t, t = Queries[v][o].from[n].table, t # NoName
    PROVE  AsCreated(v)[p][k] = <<Original(t, Queries[v][p].refs[k].name)>>
<1> DEFINE c == Original(t, Queries[v][p].refs[k].name)
<1>1. /\ t \in Tables /\ c \in DOMAIN FirstColumns[t]
      /\ FirstColumns[t][c] = Queries[v][p].refs[k].name
  BY ReadsOK
<1>2. PICK q, ref, d : q = Queries[v] /\ ref = q[p].refs[k] /\ d = c
  OBVIOUS
<1>3. IsQuery(q) /\ IsLayout(FirstColumns[t]) /\ RefersTo(q, p, ref, o, n)
  BY <1>1, <1>2, ViewsAssumption, ColumnsAssumption DEF Reads, AreLayouts
<1>4. ReadsColumn(q, p, ref, FirstColumns, o, n, t, d)
  BY <1>1, <1>2, <1>3 DEF ReadsColumn
<1>5. Resolve(q, p, ref, FirstColumns) = <<d>>
  BY <1>4, BoundToTable
<1> QED
  BY <1>2, <1>5 DEF AsCreated, Bound, c

\* A reference reads what it read, or has the name that an unfinished rename
\* gives the column.
LEMMA ReadNow ==
    ASSUME TypesInv, StatementInv, QueryInv,
           NEW v \in Views, NEW p \in DOMAIN Queries[v], NEW k \in DOMAIN Queries[v][p].refs,
           NEW o \in DOMAIN Queries[v], NEW n \in DOMAIN Queries[v][o].from, Reads(v, p, k, o, n)
    PROVE  \/ Meaning(v)[p][k] = AsCreated(v)[p][k]
           \/ LET t == Queries[v][o].from[n].table
              IN  /\ t \in Sources[v] /\ Renaming(t)
                  /\ stored[v][p].refs[k].name = Unfinished(t).statement.new
<1> DEFINE q == stored[v]
           ref == stored[v][p].refs[k]
           t == Queries[v][o].from[n].table
           first == Queries[v][p].refs[k]
           c == Original(t, first.name)
<1>1. /\ IsQuery(q) /\ IsQuery(Queries[v]) /\ SameShape(q, Queries[v])
      /\ p \in DOMAIN q /\ k \in DOMAIN q[p].refs /\ DOMAIN q = DOMAIN Queries[v]
      /\ ref.of = first.of
  BY StoredOK
<1>2. RefersTo(Queries[v], p, first, o, n) /\ ReferenceFollows(v, p, k, o, n)
  BY DEF Reads, QueryInv
<1>3. RefersTo(q, p, ref, o, n)
  BY <1>1, <1>2, ShapeRefersTo
<1>4. q[o].from = Queries[v][o].from
  BY <1>1 DEF SameShape
<1>5. Meaning(v)[p][k] = Resolve(q, p, ref, columns)
  BY <1>1 DEF Meaning, Bound
<1>6. CASE t # NoName
  <2>1. t \in Tables /\ t \in Sources[v]
    BY <1>6, ReadsOK
  <2>2. Follows(v, t, c, ref.name)
    BY <1>2, <1>6 DEF ReferenceFollows
  <2>3. CASE ref.name = columns[t][c]
    <3>1. IsLayout(columns[t]) /\ c \in DOMAIN columns[t]
      BY <2>1, <2>2 DEF TypesInv, TypeOK, AreLayouts, Follows
    <3>2. PICK d : d = c
      OBVIOUS
    <3>3. d \in DOMAIN columns[t] /\ columns[t][d] = ref.name /\ q[o].from[n].table = t
      BY <1>4, <2>3, <3>1, <3>2
    <3>4. o \in DOMAIN q /\ n \in DOMAIN q[o].from
      BY <1>1, <1>4
    <3> HIDE DEF c, q, ref, t
    <3>5. Resolve(q, p, ref, columns) = <<d>>
      <4>1. ReadsColumn(q, p, ref, columns, o, n, t, d)
        BY <1>1, <1>3, <2>1, <3>1, <3>3, <3>4 DEF ReadsColumn
      <4> QED
        BY <4>1, BoundToTable
    <3>6. AsCreated(v)[p][k] = <<c>>
      BY <1>6, ReadAtFirst DEF c, t
    <3> QED
      BY <1>5, <3>2, <3>5, <3>6 DEF q, ref
  <2>4. CASE ref.name # columns[t][c]
    BY <2>1, <2>2, <2>4 DEF Follows
  <2> QED
    BY <2>3, <2>4
<1>7. CASE t = NoName
  <2>1. /\ ref.name = first.name /\ first.name \in Range(q[o].from[n].names)
        /\ IsInjective(q[o].from[n].names) /\ q[o].from[n].table = NoName
    BY <1>2, <1>4, <1>7 DEF ReferenceFollows, Reads, IsTable
  <2>2. PICK i \in DOMAIN q[o].from[n].names : q[o].from[n].names[i] = first.name
    BY <2>1 DEF Range
  <2>3. o \in DOMAIN q /\ n \in DOMAIN q[o].from
    BY <1>1, <1>4
  <2>4. Resolve(q, p, ref, columns) = <<o, n, i>>
    <3> HIDE DEF q, ref, first
    <3> QED
      BY <1>1, <1>3, <2>1, <2>2, <2>3, BoundToDerived
  <2>5. Resolve(Queries[v], p, first, FirstColumns) = <<o, n, i>>
    <3>1. /\ Queries[v][o].from[n].table = NoName /\ IsInjective(Queries[v][o].from[n].names)
          /\ i \in DOMAIN Queries[v][o].from[n].names /\ Queries[v][o].from[n].names[i] = first.name
      BY <1>4, <2>1, <2>2
    <3> HIDE DEF first
    <3> QED
      BY <1>1, <1>2, <3>1, BoundToDerived
  <2>6. AsCreated(v)[p][k] = <<o, n, i>>
    BY <2>5 DEF AsCreated, Bound
  <2> QED
    BY <1>5, <2>4, <2>6
<1> QED
  BY <1>6, <1>7

\* The output of a stored query is called as it was.
LEMMA OutputKept ==
    ASSUME PlainQueries, TypesInv, QueryInv, NEW v \in Views
    PROVE  Output(stored[v]) = Output(Queries[v])
<1>1. /\ IsQuery(stored[v]) /\ IsQuery(Queries[v]) /\ SameShape(stored[v], Queries[v])
  BY ViewsAssumption DEF TypesInv, TypeOK, ShapeKept
<1>2. stored[v][<<>>].union = Queries[v][<<>>].union /\ <<>> \in DOMAIN Queries[v]
  BY <1>1 DEF SameShape, IsQuery
<1>3. CASE ~Queries[v][<<>>].union
  BY <1>3 DEF QueryInv
<1>4. CASE Queries[v][<<>>].union
  <2> DEFINE out == Queries[v][<<1>>].out
  <2>1. <<1>> \in DOMAIN Queries[v] /\ stored[v][<<1>>].out = out
    BY <1>1, <1>4 DEF IsQuery, QueryInv
  <2>2. \A n \in DOMAIN out : out[n] # NoName
    BY <1>4 DEF PlainQueries, NamedOutput
  <2> HIDE DEF out
  <2>3. Output(stored[v]) = [n \in DOMAIN out |-> IF out[n] # NoName THEN out[n] ELSE stored[v][<<1>>].refs[n].name]
    BY <1>2, <1>4, <2>1 DEF Output
  <2>4. Output(Queries[v]) = [n \in DOMAIN out |-> IF out[n] # NoName THEN out[n] ELSE Queries[v][<<1>>].refs[n].name]
    BY <1>4 DEF Output, out
  <2>5. Output(stored[v]) = [n \in DOMAIN out |-> out[n]] /\ Output(Queries[v]) = [n \in DOMAIN out |-> out[n]]
    BY <2>2, <2>3, <2>4
  <2> QED
    BY <2>5
<1> QED
  BY <1>3, <1>4

\* What an entry of the metadata names.
LEMMA AuxBoundOK ==
    ASSUME NEW entry, NEW tables, IsLayout(tables[entry.table]),
           NEW c \in DOMAIN tables[entry.table], tables[entry.table][c] = entry.name
    PROVE  AuxBound(entry, tables) = <<c>>
<1> DEFINE f == tables[entry.table]
           D == {d \in DOMAIN f : f[d] = entry.name}
<1>1. D = {c}
  BY DEF IsLayout, IsInjective
<1>2. AuxBound(entry, tables) = One({<<d>> : d \in D})
  BY DEF AuxBound
<1> HIDE DEF D
<1>3. {<<d>> : d \in D} = {<<c>>}
  BY <1>1
<1> QED
  BY <1>2, <1>3, OneOK

LEMMA MeaningOK ==
    ASSUME PlainQueries, TypesInv, StatementInv, QueryInv
    PROVE  MeaningKept
<1> SUFFICES ASSUME NEW v \in Views, \A t \in Sources[v] : Settled(t)
             PROVE  /\ Meaning(v) = AsCreated(v)
                    /\ Output(stored[v]) = Output(Queries[v])
                    /\ AuxKept(v)
  BY DEF MeaningKept
<1>1. ASSUME NEW p \in DOMAIN Queries[v], NEW k \in DOMAIN Queries[v][p].refs
      PROVE  Meaning(v)[p][k] = AsCreated(v)[p][k]
  <2>1. PICK o \in DOMAIN Queries[v] : \E n \in DOMAIN Queries[v][o].from : Reads(v, p, k, o, n)
    BY DEF PlainQueries, PlainReferences
  <2>2. PICK n \in DOMAIN Queries[v][o].from : Reads(v, p, k, o, n)
    BY <2>1
  <2> QED
    BY <2>2, ReadNow DEF Renaming
<1>2. /\ DOMAIN stored[v] = DOMAIN Queries[v]
      /\ \A p \in DOMAIN Queries[v] : DOMAIN stored[v][p].refs = DOMAIN Queries[v][p].refs
  BY DEF TypesInv, ShapeKept, SameShape
<1>3. Meaning(v) = AsCreated(v)
  <2> DEFINE f == Meaning(v)
             g == AsCreated(v)
  <2>1. /\ f = [p \in DOMAIN Queries[v] |-> [k \in DOMAIN Queries[v][p].refs |->
                   Resolve(stored[v], p, stored[v][p].refs[k], columns)]]
        /\ g = [p \in DOMAIN Queries[v] |-> [k \in DOMAIN Queries[v][p].refs |->
                   Resolve(Queries[v], p, Queries[v][p].refs[k], FirstColumns)]]
    BY <1>2 DEF Meaning, AsCreated, Bound
  <2>2. \A p \in DOMAIN Queries[v] : \A k \in DOMAIN Queries[v][p].refs : f[p][k] = g[p][k]
    BY <1>1
  <2> HIDE DEF f, g
  <2>3. \A p \in DOMAIN Queries[v] : \A k \in DOMAIN Queries[v][p].refs :
            Resolve(stored[v], p, stored[v][p].refs[k], columns)
              = Resolve(Queries[v], p, Queries[v][p].refs[k], FirstColumns)
    BY <2>1, <2>2
  <2>4. f = g
    BY <2>1, <2>3
  <2> QED
    BY <2>4 DEF f, g
<1>4. AuxKept(v)
  <2> SUFFICES ASSUME NEW n \in DOMAIN aux[v], aux[v][n].role # "stable"
               PROVE  AuxBound(aux[v][n], columns) = AuxBound(Metadata[v][n], FirstColumns)
    BY DEF AuxKept
  <2> DEFINE e == Metadata[v][n]
             t == e.table
             c == Original(t, e.name)
  <2>1. n \in DOMAIN Metadata[v] /\ aux[v][n].role = e.role /\ aux[v][n].table = t
    <3>1. /\ aux[v] \in Seq(Entries) /\ Metadata[v] \in Seq(Entries) /\ Len(aux[v]) = Len(Metadata[v])
          /\ aux[v][n].role = e.role /\ aux[v][n].table = t
      BY ViewsAssumption DEF TypesInv, TypeOK, ShapeKept
    <3> QED
      BY <3>1, SeqElements
  <2>2. /\ t \in Tables /\ t \in Sources[v]
        /\ c \in DOMAIN FirstColumns[t] /\ FirstColumns[t][c] = e.name
    <3>1. PICK p, k, o, m :
             /\ p \in DOMAIN Queries[v] /\ k \in DOMAIN Queries[v][p].refs
             /\ o \in DOMAIN Queries[v] /\ m \in DOMAIN Queries[v][o].from
             /\ Reads(v, p, k, o, m) /\ Queries[v][o].from[m].table = t
             /\ Queries[v][p].refs[k].name = e.name /\ t # NoName
      BY <2>1, EntryOK
    <3> QED
      BY <3>1, ReadsOK
  <2>3. Follows(v, t, c, aux[v][n].name) /\ ~Renaming(t)
    BY <2>1, <2>2 DEF QueryInv, EntryFollows, Renaming
  <2>4. c \in DOMAIN columns[t] /\ columns[t][c] = aux[v][n].name
    BY <2>3, FollowsName
  <2>5. IsLayout(columns[t]) /\ IsLayout(FirstColumns[t])
    BY <2>2, ColumnsAssumption DEF TypesInv, TypeOK, AreLayouts
  <2> HIDE DEF c
  <2>6. AuxBound(aux[v][n], columns) = <<c>>
    BY <2>1, <2>4, <2>5, AuxBoundOK
  <2>7. AuxBound(e, FirstColumns) = <<c>>
    BY <2>2, <2>5, AuxBoundOK
  <2> QED
    BY <2>6, <2>7
<1> QED
  BY <1>3, <1>4, OutputKept

\* While a rename is unfinished, a reference by the new name reads nothing,
\* unless another relation offers that name.
LEMMA NeverAnotherOK ==
    ASSUME PlainQueries, TypesInv, StatementInv, QueryInv
    PROVE  NeverAnotherColumn
<1> SUFFICES ASSUME NEW v \in Views, \A t \in Sources[v] : ~Clashes(v, t),
                    NEW p \in DOMAIN stored[v], NEW k \in DOMAIN stored[v][p].refs
             PROVE  Meaning(v)[p][k] \in {Unbound, AsCreated(v)[p][k]}
  BY DEF NeverAnotherColumn
<1>1. SameShape(stored[v], Queries[v])
  BY DEF TypesInv, ShapeKept
<1>2. p \in DOMAIN Queries[v] /\ k \in DOMAIN Queries[v][p].refs
  BY <1>1 DEF SameShape
<1>3. PICK o \in DOMAIN Queries[v] : \E n \in DOMAIN Queries[v][o].from : Reads(v, p, k, o, n)
  BY <1>2 DEF PlainQueries, PlainReferences
<1>4. PICK n \in DOMAIN Queries[v][o].from : Reads(v, p, k, o, n)
  BY <1>3
<1> DEFINE t == Queries[v][o].from[n].table
<1>5. CASE Meaning(v)[p][k] = AsCreated(v)[p][k]
  BY <1>5
<1>6. CASE /\ t \in Sources[v] /\ Renaming(t)
           /\ stored[v][p].refs[k].name = Unfinished(t).statement.new
  <2> DEFINE q == stored[v]
             new == Unfinished(t).statement.new
  <2>1. t \in Tables /\ ~Settled(t) /\ ~Clashes(v, t)
    BY <1>6, ViewsAssumption DEF Renaming
  <2>2. new \notin Named(t, columns)
    BY <1>6, <2>1, UnfinishedOK DEF Renaming, Fits
  <2>3. \A u \in Tables : new \notin Range(columns[u])
    BY <2>1, <2>2 DEF Clashes, Named
  <2>4. new \notin DerivedNames(Queries[v])
    BY <2>1 DEF Clashes
  <2>5. DOMAIN q = DOMAIN Queries[v] /\ \A i \in DOMAIN q : q[i].from = Queries[v][i].from
    BY <1>1 DEF SameShape
  <2>6. ASSUME NEW i \in DOMAIN q, NEW m \in DOMAIN q[i].from PROVE new \notin Range(q[i].from[m].names)
    <3> DEFINE S(b) == UNION {Range(Queries[v][b].from[j].names) : j \in DOMAIN Queries[v][b].from}
    <3>1. DerivedNames(Queries[v]) = UNION {S(b) : b \in DOMAIN Queries[v]}
      BY DEF DerivedNames
    <3>2. Range(Queries[v][i].from[m].names) \subseteq S(i)
      BY <2>5
    <3> HIDE DEF S
    <3> QED
      BY <2>4, <2>5, <3>1, <3>2
  <2>7. IsQuery(q)
    BY DEF TypesInv, TypeOK
  <2>8. ASSUME NEW i \in DOMAIN q, NEW m \in DOMAIN q[i].from
        PROVE  q[i].from[m].table \in Tables \union {NoName}
    <3>1. q[i].from[m] \in Relations
      BY <2>7, RelationNames
    <3> QED
      BY <3>1 DEF Relations
  <2>9. Resolve(q, p, q[p].refs[k], columns) = Unbound
    <3>1. PICK ref : ref = q[p].refs[k] /\ ref.name = new
      BY <1>6
    <3>2. \A i \in DOMAIN q : \A m \in DOMAIN q[i].from :
             /\ q[i].from[m].table # NoName => ref.name \notin Range(columns[q[i].from[m].table])
             /\ q[i].from[m].table = NoName => ref.name \notin Range(q[i].from[m].names)
      BY <2>3, <2>6, <2>8, <3>1
    <3> HIDE DEF q, new
    <3>3. Resolve(q, p, ref, columns) = Unbound
      <4>1. p \in DOMAIN q
        BY DEF q
      <4> QED
        BY <3>2, <4>1, BoundToNothing
    <3> QED
      BY <3>1, <3>3
  <2> QED
    BY <2>9 DEF Meaning, Bound
<1> QED
  BY <1>2, <1>4, <1>5, <1>6, ReadNow

\* A drop is refused for a column that a view reads.
LEMMA RefusalOK ==
    ASSUME PlainQueries, TypesInv, StatementInv, QueryInv,
           NEW t \in Tables, NEW name \in Names, RefuseDrop(t, name)
    PROVE  \E v \in DependentViews(t) :
              \/ ReadBy(v, ColumnOf(columns[t], name))
              \/ \E n \in DOMAIN Metadata[v] : Metadata[v][n].table = t /\ Metadata[v][n].name = name
<1>0. /\ ~Renaming(t) /\ IsLayout(columns[t]) /\ t # NoName
      /\ SomeViewReferences(t, name)
  <2>1. alter = Idle /\ torn[t] = Idle /\ SomeViewReferences(t, name)
    BY DEF RefuseDrop
  <2>2. IsLayout(columns[t]) /\ t # NoName
    BY NamesAssumption DEF TypesInv, TypeOK, AreLayouts
  <2> QED
    BY <2>1, <2>2 DEF Renaming, Settled
\* A reference that calls a column of the table by that name reads it.
<1>1. ASSUME NEW v \in Views, NEW p \in DOMAIN Queries[v], NEW k \in DOMAIN Queries[v][p].refs,
             NEW o \in DOMAIN Queries[v], NEW m \in DOMAIN Queries[v][o].from,
             Reads(v, p, k, o, m), Queries[v][o].from[m].table = t, stored[v][p].refs[k].name = name
      PROVE  ReadBy(v, ColumnOf(columns[t], name))
  <2> DEFINE c == Original(t, Queries[v][p].refs[k].name)
  <2>1. Follows(v, t, c, name)
    <3>1. ReferenceFollows(v, p, k, o, m)
      BY <1>1 DEF QueryInv
    <3> QED
      BY <1>0, <1>1, <3>1 DEF ReferenceFollows
  <2>2. c \in DOMAIN columns[t] /\ name = columns[t][c]
    BY <1>0, <2>1, FollowsName
  <2>3. ColumnOf(columns[t], name) = c
    <3> HIDE DEF c
    <3> QED
      BY <1>0, <2>2, ColumnOfOK
  <2>4. Meaning(v)[p][k] = AsCreated(v)[p][k]
    BY <1>0, <1>1, ReadNow
  <2>5. AsCreated(v)[p][k] = <<c>>
    BY <1>0, <1>1, ReadAtFirst
  <2>6. p \in DOMAIN stored[v] /\ k \in DOMAIN stored[v][p].refs
    BY StoredOK
  <2> QED
    BY <2>3, <2>4, <2>5, <2>6 DEF ReadBy
<1>2. PICK v \in DependentViews(t) : References(v, t, name) \/ AuxReferences(v, t, name)
  BY <1>0 DEF SomeViewReferences
<1>3. v \in Views
  BY <1>2 DEF DependentViews
<1>4. CASE References(v, t, name)
  <2>1. PICK p \in DOMAIN stored[v] : \E k \in DOMAIN stored[v][p].refs :
           /\ stored[v][p].refs[k].name = name
           /\ ColumnRefTargetsTable(stored[v], p, stored[v][p].refs[k].of, t)
    BY <1>4 DEF References
  <2>2. PICK k \in DOMAIN stored[v][p].refs :
           /\ stored[v][p].refs[k].name = name
           /\ ColumnRefTargetsTable(stored[v], p, stored[v][p].refs[k].of, t)
    BY <2>1
  <2>3. p \in DOMAIN Queries[v] /\ k \in DOMAIN Queries[v][p].refs
    BY <1>3 DEF TypesInv, ShapeKept, SameShape
  <2>4. PICK o \in DOMAIN Queries[v] : \E m \in DOMAIN Queries[v][o].from : Reads(v, p, k, o, m)
    BY <1>3, <2>3 DEF PlainQueries, PlainReferences
  <2>5. PICK m \in DOMAIN Queries[v][o].from : Reads(v, p, k, o, m)
    BY <2>4
  <2>6. Queries[v][o].from[m].table = t
    BY <1>3, <2>2, <2>3, <2>5, StoredTargets
  <2>7. ReadBy(v, ColumnOf(columns[t], name))
    BY <1>1, <1>3, <2>2, <2>3, <2>5, <2>6
  <2> QED
    BY <1>2, <2>7
<1>5. CASE AuxReferences(v, t, name)
  <2>1. PICK n \in DOMAIN aux[v] : aux[v][n].role # "group" /\ aux[v][n].table = t /\ aux[v][n].name = name
    BY <1>5 DEF AuxReferences
  <2> DEFINE e == Metadata[v][n]
  <2>2. n \in DOMAIN Metadata[v] /\ aux[v][n].role = e.role /\ e.table = t
    <3>1. /\ aux[v] \in Seq(Entries) /\ Metadata[v] \in Seq(Entries) /\ Len(aux[v]) = Len(Metadata[v])
          /\ aux[v][n].role = e.role /\ aux[v][n].table = e.table
      BY <1>3, ViewsAssumption DEF TypesInv, TypeOK, ShapeKept
    <3> QED
      BY <2>1, <3>1, SeqElements
  <2>3. EntryFollows(v, n)
    BY <1>3, <2>2 DEF QueryInv
  <2>4. CASE e.role = "stable"
    <3>1. e.name = name
      BY <2>1, <2>3, <2>4 DEF EntryFollows
    <3> QED
      BY <1>2, <2>2, <3>1
  <2>5. CASE e.role # "stable"
    <3>1. PICK p, k, o, m :
             /\ p \in DOMAIN Queries[v] /\ k \in DOMAIN Queries[v][p].refs
             /\ o \in DOMAIN Queries[v] /\ m \in DOMAIN Queries[v][o].from
             /\ Reads(v, p, k, o, m) /\ Queries[v][o].from[m].table = t
             /\ Queries[v][p].refs[k].name = e.name
      BY <1>3, <2>2, <2>5, EntryOK
    <3>2. ReferenceFollows(v, p, k, o, m)
      BY <1>3, <3>1 DEF QueryInv
    <3>3. stored[v][p].refs[k].name = columns[t][Original(t, e.name)]
      BY <1>0, <3>1, <3>2, FollowsName DEF ReferenceFollows
    <3>4. name = columns[t][Original(t, e.name)]
      BY <1>0, <2>1, <2>2, <2>3, <2>5, FollowsName DEF EntryFollows
    <3>5. ReadBy(v, ColumnOf(columns[t], name))
      BY <1>1, <1>3, <3>1, <3>3, <3>4
    <3> QED
      BY <1>2, <3>5
  <2> QED
    BY <2>4, <2>5
<1> QED
  BY <1>2, <1>4, <1>5

LEMMA RefusalStep ==
    ASSUME PlainQueries, TypesInv, StatementInv, QueryInv, [Next]_vars,
           refused' # refused, refused' # Idle
    PROVE  \E v \in DependentViews(refused'.table) :
              \/ ReadBy(v, ColumnOf(columns[refused'.table], refused'.name))
              \/ \E n \in DOMAIN Metadata[v] :
                    Metadata[v][n].table = refused'.table /\ Metadata[v][n].name = refused'.name
<1>1. ASSUME NEW t \in Tables, NEW name \in Names, NEW new \in Names,
             AddColumn(t, name) \/ DropColumn(t, name) \/ RenameColumn(t, name, new)
      PROVE  FALSE
  BY <1>1, IssuedOK
<1>2. ~RewriteView /\ ~SyncDeltaTable /\ ~MissDeltaTable /\ ~AlterTable /\ ~Fail /\ ~UNCHANGED vars
  BY DEF RewriteView, SyncDeltaTable, MissDeltaTable, AlterTable, Fail, vars
<1>3. PICK t \in Tables, name \in Names : RefuseDrop(t, name)
  BY <1>1, <1>2 DEF Next
<1>4. refused' = [table |-> t, name |-> name]
  BY <1>3, RefusedOK
<1>5. refused'.table = t /\ refused'.name = name
  BY <1>4
<1> QED
  BY <1>3, <1>5, RefusalOK

\* However often a source is altered, and wherever a statement failed before
\* it was issued again: once no statement is waiting, the stored query of a
\* view reads, reference by reference, the columns it was created over, calls
\* its output as it did, and the view's metadata name those columns.
THEOREM QueriesKeepMeaning ==
    ASSUME PlainQueries
    PROVE  Spec => []MeaningKept
<1>1. TypesInv /\ StatementInv /\ QueryInv => MeaningKept
  BY MeaningOK
<1> QED
  BY QueryInvariant, <1>1, PTL

\* Between the rewriting of a view and the end of the statement, or after the
\* statement failed there, a reference of the view reads its own column or
\* none: another one only if a second table or a derived table has the new
\* name.
THEOREM NothingElseIsRead ==
    ASSUME PlainQueries
    PROVE  Spec => []NeverAnotherColumn
<1>1. TypesInv /\ StatementInv /\ QueryInv => NeverAnotherColumn
  BY NeverAnotherOK
<1> QED
  BY QueryInvariant, <1>1, PTL

\* DROP COLUMN is refused only for a column that the stored query of a
\* dependent view reads, or that is called as one was that its aux state keeps.
THEOREM DropsRefusedWithReason ==
    ASSUME PlainQueries
    PROVE  Spec => RefusalIsFounded
<1>1. ASSUME TypesInv /\ StatementInv /\ QueryInv, [Next]_vars
      PROVE  [refused' # refused /\ refused' # Idle =>
                \E v \in DependentViews(refused'.table) :
                   \/ ReadBy(v, ColumnOf(columns[refused'.table], refused'.name))
                   \/ \E n \in DOMAIN Metadata[v] :
                         Metadata[v][n].table = refused'.table /\ Metadata[v][n].name = refused'.name]_vars
  BY <1>1, RefusalStep
<1> QED
  BY QueryInvariant, <1>1, PTL DEF Spec, RefusalIsFounded
=============================================================================
