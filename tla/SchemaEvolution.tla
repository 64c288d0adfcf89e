-------------------------- MODULE SchemaEvolution --------------------------
(***************************************************************************)
(* ALTER TABLE on the sources of materialized views.  The optimizer rule    *)
(* rewrites the stored queries and the metadata of the views, one           *)
(* transaction per view, then the delta table, which may fail unnoticed;    *)
(* the statement itself alters the table last, and may fail or never come   *)
(* to it.                                                                  *)
(*                                                                         *)
(* A column keeps its identity through renames.  A query is a function from *)
(* the places of its blocks to the blocks: the outermost block is at <<>>,  *)
(* those directly inside the block at p are at p \o <<n>>.  A block is      *)
(*   [from, refs, out, derived, union]                                      *)
(* SELECT refs AS out (and refs that follow in other clauses) FROM from; a  *)
(* set operation has only blocks inside it.  A relation in FROM is          *)
(* [table, alias, names]: a table, or a derived table (NoName) whose        *)
(* columns are called names and whose block is derived.                     *)
(***************************************************************************)
EXTENDS Naturals, SequencesExt

CONSTANTS
    Tables, Views, Names,
    Words,          \* the identifiers of queries and statements
    Sources,        \* the tables of each view, as openivm_delta_tables has them
    Queries,        \* the stored query of each view when it was created
    Metadata,       \* the columns that its other metadata name
    FirstColumns,   \* the columns of each table then: their names, by identity
    Known,          \* those columns are among 1 .. Known
    NoName,         \* a reference without qualifier, a relation without alias
    Idle,
    MaxAlters       \* how many statements are issued

Relations == [table : Tables \union {NoName}, alias : Words \union {NoName}, names : Seq(Words)]
Blocks == [from : Seq(Relations), refs : Seq([of : Words \union {NoName}, name : Words]),
           out : Seq(Words \union {NoName}), derived : BOOLEAN, union : BOOLEAN]
IsQuery(q) ==
    /\ DOMAIN q \subseteq Seq(Nat) /\ q \in [DOMAIN q -> Blocks]
    /\ <<>> \in DOMAIN q /\ (q[<<>>].union => <<1>> \in DOMAIN q)
    /\ \A p \in DOMAIN q : Len(q[p].out) <= Len(q[p].refs)
Entries == [role : {"source", "stable", "group"}, table : Tables, name : Words]
Statements == [op : {"add", "drop", "rename"}, table : Tables, name : Names, new : Names]
Alters == [statement : Statements, views : Seq(Views), synced : BOOLEAN, missed : BOOLEAN, column : Nat]
Refusals == [table : Tables, name : Names]

\* The columns of a table have a name each.
IsLayout(f) == DOMAIN f \subseteq Nat /\ f \in [DOMAIN f -> Names] /\ IsInjective(f)
AreLayouts(f) == DOMAIN f = Tables /\ \A t \in Tables : IsLayout(f[t])

ASSUME NamesAssumption ==
    /\ Tables \union Names \subseteq Words /\ NoName \notin Words
    /\ Idle \notin Alters \union Refusals
ASSUME ViewsAssumption ==
    /\ IsFiniteSet(Views)
    /\ \A v \in Views : Sources[v] \subseteq Tables /\ Metadata[v] \in Seq(Entries)
    /\ DOMAIN Queries = Views /\ \A v \in Views : IsQuery(Queries[v])
    /\ DOMAIN Metadata = Views
ASSUME ColumnsAssumption ==
    /\ Known \in Nat /\ MaxAlters \in Nat
    /\ AreLayouts(FirstColumns) /\ \A t \in Tables : DOMAIN FirstColumns[t] \subseteq 1 .. Known

VARIABLES
    columns,    \* the name of each column of each table
    delta,      \* the same of the delta tables
    stored,     \* openivm_views.sql_string
    aux,        \* the names in the aux-state, lineage and group-column metadata
    alter,      \* the statement at work, and what it has still to do
    torn,       \* the statement on a table that failed half way, to be issued again
    strayed,    \* history: the tables altered although their delta table could not be
    refused,    \* the column whose drop was refused just now
    issued
vars == <<columns, delta, stored, aux, alter, torn, strayed, refused, issued>>

-----------------------------------------------------------------------------
(* Binding, as DuckDB does it.                                              *)

IsTable(r) == r.table # NoName
VisibleName(r) == IF r.alias # NoName THEN r.alias ELSE r.table
Unbound == <<>>
One(S) == IF \E x \in S : S = {x} THEN CHOOSE x \in S : TRUE ELSE Unbound

\* The blocks around a place, itself included, and those of them whose
\* relations a reference there can name: a derived table does not see the
\* relations beside it.
Around(q, p) == {o \in DOMAIN q : IsPrefix(o, p)}
Visible(q, p) ==
    {o \in Around(q, p) : \A b \in Around(q, p) : Len(b) = Len(o) + 1 => ~q[b].derived}

\* The columns that the relations of a block offer.  Column c of a table is
\* <<c>>, that of a derived table its place.
Offered(q, o, tables) ==
    UNION {LET r == q[o].from[n]
           IN  IF IsTable(r)
               THEN {[of |-> VisibleName(r), name |-> tables[r.table][c], id |-> <<c>>] :
                         c \in DOMAIN tables[r.table]}
               ELSE {[of |-> VisibleName(r), name |-> r.names[k], id |-> <<o, n, k>>] :
                         k \in DOMAIN r.names} :
           n \in DOMAIN q[o].from}

\* A reference names a column of the innermost block that has one.
Found(q, o, ref, tables) ==
    {c \in Offered(q, o, tables) : c.name = ref.name /\ ref.of \in {NoName, c.of}}
Resolve(q, p, ref, tables) ==
    LET having == {o \in Visible(q, p) : Found(q, o, ref, tables) # {}}
    IN  One({c.id : c \in UNION {Found(q, o, ref, tables) :
                                     o \in {i \in having : \A o \in having : IsPrefix(o, i)}}})
Bound(q, tables) ==
    [p \in DOMAIN q |-> [k \in DOMAIN q[p].refs |-> Resolve(q, p, q[p].refs[k], tables)]]

Output(q) ==
    LET first == IF q[<<>>].union THEN q[<<1>>] ELSE q[<<>>]
    IN  [n \in DOMAIN first.out |-> IF first.out[n] # NoName THEN first.out[n] ELSE first.refs[n].name]
AuxBound(entry, tables) ==
    One({<<c>> : c \in {d \in DOMAIN tables[entry.table] : tables[entry.table][d] = entry.name}})

-----------------------------------------------------------------------------
(* Rewriting.                                                              *)

\* The names by which the altered table is seen in a block: those of the
\* blocks around it, unless a relation of a block in between takes the name.
LocalAliases(b) ==
    (UNION {{b.from[n].table, b.from[n].alias} : n \in DOMAIN b.from}) \ {NoName}
AnyTable(b, t) == LocalAliases(b)
LocalTargets(b, t) ==
    (UNION {{b.from[n].table, b.from[n].alias} :
                n \in {k \in DOMAIN b.from : b.from[k].table = t}}) \ {NoName}
InheritAll(q, p, t) == UNION {LocalTargets(q[o], t) : o \in Around(q, p)}
ApplyLocalAliases(q, p, t) ==
    UNION {{x \in LocalTargets(q[o], t) :
                \A i \in Around(q, p) : Len(i) > Len(o) => x \notin LocalAliases(q[i])} :
           o \in Around(q, p)}
ColumnRefTargetsTable(q, p, of, t) ==
    IF of = NoName THEN LocalTargets(q[p], t) # {} ELSE of \in ApplyLocalAliases(q, p, t)

Rename(name, old, new) == IF name = old THEN new ELSE name
RewriteReference(q, p, ref, t, old, new) ==
    IF ColumnRefTargetsTable(q, p, ref.of, t) THEN [ref EXCEPT !.name = Rename(@, old, new)] ELSE ref
RewriteQueryNodeScoped(q, t, old, new) ==
    [p \in DOMAIN q |->
        [q[p] EXCEPT !.refs =
            [k \in DOMAIN q[p].refs |-> RewriteReference(q, p, q[p].refs[k], t, old, new)]]]
References(v, t, name) ==
    \E p \in DOMAIN stored[v] : \E k \in DOMAIN stored[v][p].refs :
        /\ stored[v][p].refs[k].name = name
        /\ ColumnRefTargetsTable(stored[v], p, stored[v][p].refs[k].of, t)

\* A SELECT at the top keeps the column names of the view's stored table.
ForgetAliases(q, out) == q
PreserveOutput(q, out) == IF q[<<>>].union THEN q ELSE [q EXCEPT ![<<>>].out = out]
RewriteStored(v, t, old, new) ==
    IF References(v, t, old)
    THEN PreserveOutput(RewriteQueryNodeScoped(stored[v], t, old, new), Output(Queries[v]))
    ELSE stored[v]

\* Metadata name a column of a source ("source"), a column of an aux table
\* called as a column of the source once was ("stable"), or the source of a
\* group column, whose table is not recorded ("group").
RewriteAux(v, t, old, new) ==
    [n \in DOMAIN aux[v] |->
        IF aux[v][n].role = "group" \/ (aux[v][n].role = "source" /\ aux[v][n].table = t)
        THEN [aux[v][n] EXCEPT !.name = Rename(@, old, new)] ELSE aux[v][n]]
AuxReferences(v, t, name) ==
    \E n \in DOMAIN aux[v] :
        aux[v][n].role # "group" /\ aux[v][n].table = t /\ aux[v][n].name = name
EveryView(t) == Views
DependentViews(t) == {v \in Views : t \in Sources[v]}
SomeViewReferences(t, name) ==
    \E v \in DependentViews(t) : References(v, t, name) \/ AuxReferences(v, t, name)

-----------------------------------------------------------------------------
(* ALTER TABLE.                                                            *)

Named(t, tables) == Range(tables[t])
ColumnOf(f, name) == CHOOSE c \in DOMAIN f : f[c] = name
Fresh == Known + 1 + issued
Without(f, c) == [x \in DOMAIN f \ {c} |-> f[x]]
With(f, c, name) == [x \in DOMAIN f \union {c} |-> IF x = c THEN name ELSE f[x]]

\* A statement that failed half way is issued again before any other.
Issue(op, t, name, new, views) ==
    LET statement == [op |-> op, table |-> t, name |-> name, new |-> new]
    IN  /\ alter = Idle /\ issued < MaxAlters
        /\ torn[t] # Idle => torn[t].statement = statement
        /\ issued' = issued + 1
        /\ alter' = [statement |-> statement, views |-> views, synced |-> FALSE, missed |-> FALSE,
                     column |-> IF torn[t] = Idle THEN Fresh ELSE torn[t].column]
        /\ refused' = Idle
        /\ UNCHANGED <<columns, delta, stored, aux, torn, strayed>>
AddColumn(t, name) ==
    /\ name \notin Named(t, columns)
    /\ Issue("add", t, name, name, <<>>)
RenameColumn(t, name, new) ==
    /\ name \in Named(t, columns) /\ new \notin Named(t, columns)
    /\ Issue("rename", t, name, new, SetToSeq(DependentViews(t)))
DropColumn(t, name) ==
    /\ name \in Named(t, columns) /\ ~SomeViewReferences(t, name)
    /\ Issue("drop", t, name, name, <<>>)
RefuseDrop(t, name) ==
    /\ alter = Idle /\ torn[t] = Idle /\ refused # [table |-> t, name |-> name]
    /\ name \in Named(t, columns) /\ SomeViewReferences(t, name)
    /\ refused' = [table |-> t, name |-> name]
    /\ UNCHANGED <<columns, delta, stored, aux, alter, torn, strayed, issued>>

\* One transaction, under the view's mutex.
RewriteView ==
    /\ alter # Idle /\ alter.views # <<>>
    /\ LET v == Head(alter.views)
           s == alter.statement
       IN  /\ stored' = [stored EXCEPT ![v] = RewriteStored(v, s.table, s.name, s.new)]
           /\ aux' = [aux EXCEPT ![v] = RewriteAux(v, s.table, s.name, s.new)]
    /\ alter' = [alter EXCEPT !.views = Tail(@)]
    /\ UNCHANGED <<columns, delta, torn, strayed, refused, issued>>

\* ADD COLUMN IF NOT EXISTS, DROP COLUMN IF EXISTS, and RENAME COLUMN whose
\* errors are not looked at.
AlteredColumns(f, s, c) ==
    CASE s.op = "add" /\ s.name \notin Range(f) -> With(f, c, s.name)
      [] s.op = "drop" /\ s.name \in Range(f) -> Without(f, ColumnOf(f, s.name))
      [] s.op = "rename" /\ s.name \in Range(f) /\ s.new \notin Range(f) ->
             [f EXCEPT ![ColumnOf(f, s.name)] = s.new]
      [] OTHER -> f
Altered(tables, s, c) == [tables EXCEPT ![s.table] = AlteredColumns(@, s, c)]
NoRename(tables, s, c) == IF s.op = "rename" THEN tables ELSE Altered(tables, s, c)
SyncDelta(tables, s, c) == Altered(tables, s, c)
SyncDeltaTable ==
    /\ alter # Idle /\ alter.views = <<>> /\ ~alter.synced
    /\ delta' = SyncDelta(delta, alter.statement, alter.column)
    /\ alter' = [alter EXCEPT !.synced = TRUE]
    /\ UNCHANGED <<columns, stored, aux, torn, strayed, refused, issued>>
\* The delta table's ALTER fails, for a conflict or because the unqualified
\* name is none of the connection's schema; its result is not looked at.
MissDeltaTable ==
    /\ alter # Idle /\ alter.views = <<>> /\ ~alter.synced
    /\ alter' = [alter EXCEPT !.synced = TRUE, !.missed = TRUE]
    /\ UNCHANGED <<columns, delta, stored, aux, torn, strayed, refused, issued>>
AlterTable ==
    /\ alter # Idle /\ alter.synced
    /\ columns' = Altered(columns, alter.statement, alter.column)
    /\ torn' = [torn EXCEPT ![alter.statement.table] = Idle]
    /\ strayed' = IF alter.missed THEN strayed \union {alter.statement.table} ELSE strayed
    /\ alter' = Idle
    /\ UNCHANGED <<delta, stored, aux, refused, issued>>
\* The statement fails, or the process dies.
Afresh(a) == [a EXCEPT !.views = <<>>, !.synced = FALSE, !.missed = FALSE]
Fail ==
    /\ alter # Idle
    /\ torn' = [torn EXCEPT ![alter.statement.table] = Afresh(alter)]
    /\ alter' = Idle
    /\ UNCHANGED <<columns, delta, stored, aux, strayed, refused, issued>>

Init ==
    /\ columns = FirstColumns /\ delta = FirstColumns
    /\ stored = Queries /\ aux = Metadata
    /\ alter = Idle /\ torn = [t \in Tables |-> Idle] /\ strayed = {}
    /\ refused = Idle /\ issued = 0
Next ==
    \/ \E t \in Tables, name \in Names :
          \/ AddColumn(t, name) \/ DropColumn(t, name) \/ RefuseDrop(t, name)
          \/ \E new \in Names : RenameColumn(t, name, new)
    \/ RewriteView \/ SyncDeltaTable \/ MissDeltaTable \/ AlterTable \/ Fail
Spec == Init /\ [][Next]_vars

-----------------------------------------------------------------------------
(* Queries whose references the rewriting tells apart.                     *)

\* The reference at p names relation n of block o, by a name that nothing
\* else has there and no block in between takes; without a qualifier it is
\* to the only relation of its own block.
RefersTo(q, p, ref, o, n) ==
    IF ref.of = NoName
    THEN o = p /\ DOMAIN q[p].from = {n}
    ELSE /\ o \in Visible(q, p) /\ n \in DOMAIN q[o].from
         /\ ref.of = VisibleName(q[o].from[n])
         /\ \A m \in DOMAIN q[o].from \ {n} : ref.of \notin {q[o].from[m].table, q[o].from[m].alias}
         /\ \A i \in Around(q, p) : Len(i) > Len(o) => ref.of \notin LocalAliases(q[i])
Reads(v, p, k, o, n) ==
    LET q == Queries[v]
        ref == q[p].refs[k]
        r == q[o].from[n]
    IN  /\ RefersTo(q, p, ref, o, n)
        /\ IF IsTable(r) THEN r.table \in Sources[v] /\ ref.name \in Named(r.table, FirstColumns)
           ELSE ref.name \in Range(r.names) /\ IsInjective(r.names)
PlainReferences ==
    \A v \in Views : \A p \in DOMAIN Queries[v] : \A k \in DOMAIN Queries[v][p].refs :
        \E o \in DOMAIN Queries[v] : \E n \in DOMAIN Queries[v][o].from : Reads(v, p, k, o, n)
\* A set operation names its output itself.
NamedOutput ==
    \A v \in Views :
        Queries[v][<<>>].union => \A n \in DOMAIN Queries[v][<<1>>].out : Queries[v][<<1>>].out[n] # NoName
\* Metadata name columns that the query reads; group columns are those of a
\* view of one table.
PlainMetadata ==
    \A v \in Views : \A e \in Range(Metadata[v]) :
        /\ e.role = "group" => Sources[v] = {e.table}
        /\ e.role # "stable" =>
              \E p \in DOMAIN Queries[v] : \E k \in DOMAIN Queries[v][p].refs :
              \E o \in DOMAIN Queries[v] : \E n \in DOMAIN Queries[v][o].from :
                 /\ Reads(v, p, k, o, n) /\ Queries[v][o].from[n].table = e.table
                 /\ Queries[v][p].refs[k].name = e.name
PlainQueries == PlainReferences /\ NamedOutput /\ PlainMetadata

-----------------------------------------------------------------------------
(* Properties.                                                             *)

Settled(t) == torn[t] = Idle /\ (alter = Idle \/ alter.statement.table # t)
Meaning(v) == Bound(stored[v], columns)
AsCreated(v) == Bound(Queries[v], FirstColumns)
AuxKept(v) ==
    \A n \in DOMAIN aux[v] :
        aux[v][n].role # "stable" =>
            AuxBound(aux[v][n], columns) = AuxBound(Metadata[v][n], FirstColumns)

\* Columns, queries and metadata are what ALTER makes of them: names stay
\* unique within a table, only views of the altered table are rewritten, and
\* no statement but the table's own is torn.
TypeOK ==
    /\ AreLayouts(columns) /\ AreLayouts(delta)
    /\ DOMAIN stored = Views /\ \A v \in Views : IsQuery(stored[v])
    /\ DOMAIN aux = Views /\ \A v \in Views : aux[v] \in Seq(Entries) /\ Len(aux[v]) = Len(Metadata[v])
    /\ alter \in Alters \union {Idle}
    /\ alter # Idle => \A n \in DOMAIN alter.views : alter.statement.table \in Sources[alter.views[n]]
    /\ torn \in [Tables -> Alters \union {Idle}]
    /\ \A t \in Tables : torn[t] # Idle => torn[t].statement.table = t
    /\ strayed \subseteq Tables
    /\ refused \in Refusals \union {Idle} /\ issued \in 0 .. MaxAlters

\* Whatever was added, dropped or renamed, and however often a statement
\* failed half way before it was issued again: a view's stored query reads the
\* columns it was created over and calls its output as it did, and its
\* metadata names those columns.
MeaningKept ==
    \A v \in Views :
        (\A t \in Sources[v] : Settled(t)) =>
            /\ Meaning(v) = AsCreated(v)
            /\ Output(stored[v]) = Output(Queries[v])
            /\ AuxKept(v)

\* In the middle of an ALTER, or after it failed there, a stored query may not
\* bind, and then refreshes fail; it does not read another column instead,
\* unless the new name is one that another table or a derived table has.
Unfinished(t) == IF torn[t] # Idle THEN torn[t] ELSE alter
DerivedNames(q) ==
    UNION {UNION {Range(q[p].from[n].names) : n \in DOMAIN q[p].from} : p \in DOMAIN q}
Clashes(v, t) ==
    /\ ~Settled(t)
    /\ \/ Unfinished(t).statement.new \in DerivedNames(Queries[v])
       \/ \E u \in Tables \ {t} : Unfinished(t).statement.new \in Named(u, columns)
NeverAnotherColumn ==
    \A v \in Views :
        (\A t \in Sources[v] : ~Clashes(v, t)) =>
            \A p \in DOMAIN stored[v] : \A k \in DOMAIN stored[v][p].refs :
                Meaning(v)[p][k] \in {Unbound, AsCreated(v)[p][k]}

\* What is captured under a column's name is that column, however often a
\* statement failed before or after the delta table and was issued again, unless
\* DuckDB once altered the table after its delta table's ALTER had failed.
DeltaMirrors == \A t \in Tables \ strayed : Settled(t) => delta[t] = columns[t]
\* Without the exception, as docs/internals/schema-evolution.md has it, this is
\* false: nothing repeats or reports the ALTER of a delta table that failed.
DeltaSynced == \A t \in Tables : Settled(t) => delta[t] = columns[t]

\* A drop is refused only for a column that a view reads, or that is called
\* as one was that the view's aux state reads.
ReadBy(v, c) ==
    \E p \in DOMAIN stored[v] : \E k \in DOMAIN stored[v][p].refs : Meaning(v)[p][k] = <<c>>
RefusalIsFounded ==
    [][refused' # refused /\ refused' # Idle =>
          \E v \in DependentViews(refused'.table) :
              \/ ReadBy(v, ColumnOf(columns[refused'.table], refused'.name))
              \/ \E n \in DOMAIN Metadata[v] :
                    Metadata[v][n].table = refused'.table /\ Metadata[v][n].name = refused'.name]_vars
=============================================================================
