----------------------------- MODULE ChainProofs -----------------------------
(***************************************************************************)
(* Proofs about chains of views in RefreshProtocol: a view that reads      *)
(* another view's data table and delta table.                              *)
(*                                                                         *)
(* However many workers refresh the views of a chain at the same time, a   *)
(* change never reaches a view more often than it reached the view before  *)
(* it: the invariant says of every batch that has run what its commit will *)
(* add for its readers and take from its sources.                          *)
(***************************************************************************)
EXTENDS CursorProofs

\* The rows among rows that record change c.
Of(rows, c) == {r \in rows : r.chg = c}

\* Every row that a batch will add to its view's delta table, the batch counts.
Adds(w) ==
    \A c \in Changes :
        mv[on[w]][c] + Cardinality(Of(eff[w].out, c)) <= eff[w].mv[c]

\* What a batch leaves for its view's next refresh to scan in s.
Ahead(w, s) == {r \in delta[s] \ eff[w].purge[s] : r.ts >= eff[w].cur[s]}

\* What a batch counts, and what it leaves to be scanned, its source gave.
Takes(w) ==
    \A s \in Sources[on[w]] \intersect Incremental : \A c \in Changes :
        TableOf[c] \in Origin[s] =>
            eff[w].mv[c] + Cardinality(Of(Ahead(w, s), c)) <= mv[s][c]

Chained ==
    /\ ChainNeverTwice
    /\ \A w \in Workers : pc[w] = "ran" /\ on[w] \in Incremental => Adds(w) /\ Takes(w)

-----------------------------------------------------------------------------
(* Chains that one connection refreshes, of views that only apply deltas, as *)
(* a cascade does.                                                           *)

InCascade ==
    /\ \A w1, w2 \in Workers : w1 = w2
    /\ FullType = {} /\ FullMode = {}

\* The readers of a view are not ahead of the transaction that refreshes it.
InStep ==
    /\ \A v \in Views : \A n \in Nodes : cursor[v][n] <= clock
    /\ \A w \in Workers : pc[w] \in {"begun", "ran"} =>
          \A u \in Readers(on[w]) : cursor[u][on[w]] <= start[w]

\* Unless transactions are rolled back, a captured change is committed or its
\* transaction is open.
Recorded ==
    AllowRollback = FALSE =>
        \A c \in Captured : c \in base \/ \E x \in Sessions : c \in tx[x]

\* What a refresh did not find active when it was compiled has no rows for it.
Found ==
    \A w \in Workers : pc[w] \in {"compiled", "begun"} =>
        \A s \in Sources[on[w]] \ active[w] : Fresh(on[w], s) = {}

\* What a batch will commit: its view counts exactly what its sources gave,
\* its readers will find exactly what it adds, and lose nothing to its purges.
Delivers(w) ==
    /\ \A c \in Changes : eff[w].mv[c] <= 1
    /\ \A s \in Sources[on[w]] \intersect Views :
          /\ \A r \in delta[s] \ eff[w].purge[s] : r.ts < eff[w].cur[s]
          /\ \A c \in Changes : TableOf[c] \in Origin[s] => eff[w].mv[c] = mv[s][c]
    /\ \A u \in Readers(on[w]) :
          /\ \A r \in eff[w].out : r.ts >= cursor[u][on[w]]
          /\ \A c \in Changes :
                mv[on[w]][c] + Cardinality(Of(eff[w].out, c)) = eff[w].mv[c]
    /\ \A r \in eff[w].out : r.ts = start[w]
    /\ \A n \in Nodes : eff[w].cur[n] <= clock
    /\ \A n \in Nodes \ (Sources[on[w]] \union {on[w]}) : eff[w].purge[n] = {}
    /\ \A n \in Nodes : \A r \in eff[w].purge[n] : \A u \in Readers(n) \ {on[w]} :
          r.ts < cursor[u][n]

Cascading ==
    /\ InStep /\ Recorded /\ Found
    /\ \A v \in Views : \A c \in Changes : mv[v][c] <= 1
    /\ ChainFlow
    /\ \A w \in Workers : pc[w] = "ran" => Delivers(w)
-----------------------------------------------------------------------------
(* Lemmas *)

\* A view does not read itself.
LEMMA NotItself ==
    ASSUME NEW v \in Views, NEW s \in Sources[v]
    PROVE  s # v
<1>1. PICK place \in [Nodes -> 0 .. Cardinality(Nodes)] :
         \A u \in Views : \A n \in Sources[u] : place[n] < place[u]
  BY CreationAssumption
<1>2. v \in Nodes /\ place[v] \in Int
  BY <1>1 DEF Nodes
<1> QED
  BY <1>1, <1>2

\* What covers a set counts as much.
LEMMA Covered ==
    ASSUME NEW A, NEW B, NEW C, A \subseteq B \union C, IsFiniteSet(B), IsFiniteSet(C)
    PROVE  /\ Cardinality(A) \in Nat /\ Cardinality(B) \in Nat /\ Cardinality(C) \in Nat
           /\ Cardinality(A) <= Cardinality(B) + Cardinality(C)
<1>1. IsFiniteSet(B \union C)
      /\ Cardinality(B \union C) = Cardinality(B) + Cardinality(C) - Cardinality(B \intersect C)
  BY FS_Union
<1>2. IsFiniteSet(A) /\ Cardinality(A) <= Cardinality(B \union C)
  BY <1>1, FS_Subset
<1>3. IsFiniteSet(B \intersect C)
  BY FS_Intersection
<1>4. /\ Cardinality(A) \in Nat /\ Cardinality(B) \in Nat /\ Cardinality(C) \in Nat
      /\ Cardinality(B \intersect C) \in Nat /\ Cardinality(B \union C) \in Nat
  BY <1>1, <1>2, <1>3, FS_CardinalityType
<1> QED
  BY <1>1, <1>2, <1>4

\* Finitely many rows of a delta table, or of what a batch adds to one, record
\* one change.
LEMMA ChangeRowsFinite ==
    ASSUME IInv, NEW c \in Changes, NEW rows,
           \/ \E n \in Nodes : rows \subseteq delta[n]
           \/ \E w \in Workers : pc[w] = "ran" /\ rows \subseteq eff[w].out
           \/ \E w \in Workers : pc[w] = "begun" /\ rows \subseteq Emitted(w)
    PROVE  IsFiniteSet(Of(rows, c)) /\ Cardinality(Of(rows, c)) \in Nat
<1>1. clock \in Nat
  BY DEF IInv, TypeOK
<1>2. rows \in SUBSET Row /\ \A r \in rows : r.ts < clock /\ r.was < clock
  <2>1. CASE \E n \in Nodes : rows \subseteq delta[n]
    BY <2>1 DEF IInv, TypeOK, Timing
  <2>2. CASE \E w \in Workers : pc[w] = "ran" /\ rows \subseteq eff[w].out
    <3>1. PICK w \in Workers : pc[w] = "ran" /\ rows \subseteq eff[w].out
      BY <2>2
    <3>2. eff[w].out \in SUBSET Row /\ eff[w].done \in Nat /\ WithinClock(w)
      BY <3>1 DEF IInv, TypeOK, Effect, Batch
    <3>3. \A r \in rows : r.ts \in Nat /\ r.ts <= eff[w].done /\ r.was < clock
      BY <3>1, <3>2 DEF WithinClock, Row
    <3> QED
      BY <1>1, <3>1, <3>2, <3>3 DEF WithinClock
  <2>3. CASE \E w \in Workers : pc[w] = "begun" /\ rows \subseteq Emitted(w)
    <3>1. PICK w \in Workers : pc[w] = "begun" /\ rows \subseteq Emitted(w)
      BY <2>3
    <3>2. start[w] < clock
      BY <3>1 DEF IInv, Timing
    <3> QED
      BY <3>1, <3>2, EmittedRows
  <2> QED
    BY <2>1, <2>2, <2>3
<1>3. IsFiniteSet(Of(rows, c))
  <2>1. Of(rows, c) \in SUBSET Row
        /\ \A r \in Of(rows, c) : r.chg = c /\ r.ts < clock /\ r.was < clock
    BY <1>2 DEF Of
  <2> QED
    BY <1>1, <2>1, RowsFinite
<1> QED
  BY <1>3, FS_CardinalityType

\* What an incremental refresh emits about a change it scanned in the delta
\* table of one of its sources: at most a row for each row of the change there.
LEMMA EmittedFromOne ==
    ASSUME IInv, NEW w \in Workers, pc[w] = "begun",
           NEW s \in Sources[on[w]], NEW c \in Changes, TableOf[c] \in Origin[s]
    PROVE  Cardinality(Of(Emitted(w), c)) <= Cardinality(Of(Fresh(on[w], s), c))
<1> USE NodesAssumption
<1> DEFINE v       == on[w]
           scanned == IF v \in Pruned THEN active[w] ELSE Sources[v]
           row(r)  == [chg |-> r.chg, ts |-> start[w], was |-> r.ts]
           from    == Of(Fresh(v, s), c)
           out     == Of(Emitted(w), c)
           hit     == {r \in from : row(r) \in out}
           f       == [r \in hit |-> row(r)]
<1>1. v \in Views /\ s \in Nodes /\ scanned \subseteq Sources[v]
  BY DEF IInv, Locking, Scanning
<1>2. \A e \in out : \E r \in hit : e = row(r)
  <2> SUFFICES ASSUME NEW e \in out PROVE \E r \in hit : e = row(r)
    OBVIOUS
  <2>1. PICK n \in scanned : \E r \in Fresh(v, n) : e = row(r)
    <3>1. Emitted(w) = {row(r) : r \in UNION {Fresh(v, n) : n \in scanned}}
      BY DEF Emitted
    <3>2. e \in Emitted(w)
      BY DEF Of
    <3> HIDE DEF scanned, row
    <3> QED
      BY <3>1, <3>2
  <2>2. PICK r \in Fresh(v, n) : e = row(r)
    BY <2>1
  <2>3. r.chg = c /\ r \in delta[n]
    BY <2>2 DEF Of, Fresh
  <2>4. n \in Nodes /\ n \in Sources[v] /\ TableOf[c] \in Origin[n]
    BY <1>1, <2>3 DEF IInv, Rows
  <2>5. n = s
    BY <1>1, <2>4, OriginAssumption
  <2> QED
    BY <2>2, <2>3, <2>5 DEF Of
<1>3. IsFiniteSet(from) /\ IsFiniteSet(hit) /\ Cardinality(hit) <= Cardinality(from)
  <2>1. IsFiniteSet(from)
    BY <1>1, ChangeRowsFinite DEF Fresh
  <2> HIDE DEF from
  <2> QED
    BY <2>1, FS_Subset
<1>4. f \in Surjection(hit, out)
  BY <1>2 DEF Surjection
<1> HIDE DEF f, hit, from, out
<1>5. Cardinality(out) <= Cardinality(hit) /\ IsFiniteSet(out)
  BY <1>3, <1>4, FS_Surjection
<1>6. Cardinality(out) \in Nat /\ Cardinality(hit) \in Nat /\ Cardinality(from) \in Nat
  BY <1>3, <1>5, FS_CardinalityType
<1>7. Cardinality(out) <= Cardinality(from)
  BY <1>3, <1>5, <1>6
<1> QED
  BY <1>7 DEF out, from

\* An incremental refresh adds what it emits to the counts of its view.
LEMMA CountsEmitted ==
    ASSUME IInv, NEW w \in Workers, pc[w] = "begun", NEW c \in Changes
    PROVE  IncrementalEffect(w).mv[c] = mv[on[w]][c] + Cardinality(Of(Emitted(w), c))
<1>1. IncrementalEffect(w).mv[c] = mv[on[w]][c] + Cardinality(
         {r \in Unapplied(on[w], delta[on[w]] \union Emitted(w)) : r.chg = c})
  BY DEF IncrementalEffect
<1> QED
  BY <1>1, UnappliedAreEmitted DEF Of

\* And leaves nothing before the cursors it computes.
LEMMA LeavesBehind ==
    ASSUME IInv, NEW w \in Workers, pc[w] = "begun", NEW s \in Sources[on[w]]
    PROVE  LET E == IncrementalEffect(w)
           IN  /\ E.purge[s] = Consumed(s, cursor)
               /\ E.cur[s] \in Nat /\ E.cur[s] <= clock
               /\ \A r \in delta[s] \ E.purge[s] : r.ts < E.cur[s] /\ r.ts \in Nat
<1> USE NodesAssumption
<1> DEFINE left == delta[s] \ Consumed(s, cursor)
<1>1. on[w] \in Views /\ s \in Nodes /\ start[w] \in Nat /\ start[w] < clock /\ clock \in Nat
  BY DEF IInv, Locking, TypeOK, Timing
<1>2. /\ IncrementalEffect(w).purge[s] = Consumed(s, cursor)
      /\ IncrementalEffect(w).cur[s] = NextCursor(left, start[w])
  BY <1>1 DEF IncrementalEffect
<1>3. left \in SUBSET Row /\ \A r \in left : r.ts < clock /\ r.ts \in Nat
  BY <1>1 DEF IInv, TypeOK, Timing, Row
<1> HIDE DEF left
<1>4. /\ NextCursor(left, start[w]) \in Nat /\ NextCursor(left, start[w]) <= clock
      /\ \A r \in left : r.ts < NextCursor(left, start[w])
  BY <1>1, <1>3, NextCursorBounds
<1> QED
  BY <1>2, <1>3, <1>4 DEF left
-----------------------------------------------------------------------------
(* Never twice, however the refreshes of a chain overlap *)

\* No view has counted anything, and no batch has run.
LEMMA ChainedInit == Init => Chained
<1> SUFFICES ASSUME Init PROVE Chained
  OBVIOUS
<1>1. ASSUME NEW v \in Incremental, NEW s \in Sources[v] \intersect Incremental, NEW c \in Changes
      PROVE  mv[v][c] + Cardinality({r \in Fresh(v, s) : r.chg = c}) <= mv[s][c]
  <2>1. v \in Views /\ s \in Views /\ s \in Nodes
    BY DEF Incremental, Nodes
  <2>2. mv[v][c] = 0 /\ mv[s][c] = 0
    BY <2>1 DEF Init
  <2>3. {r \in Fresh(v, s) : r.chg = c} = {}
    BY <2>1 DEF Init, Fresh
  <2>4. Cardinality({r \in Fresh(v, s) : r.chg = c}) = 0
    BY <2>3, FS_EmptySet, Zenon
  <2> QED
    BY <2>2, <2>4
<1>2. \A w \in Workers : pc[w] # "ran"
  BY DEF Init
<1> QED
  BY <1>1, <1>2 DEF Chained, ChainNeverTwice

\* A step that leaves the views and their delta tables alone, and after which
\* no refresh has run its batch that had not before.
LEMMA ChainedQuiet ==
    ASSUME Chained, UNCHANGED <<mv, cursor>>,
           \A s \in Views : delta'[s] = delta[s],
           \A u \in Workers : pc'[u] = "ran" =>
              pc[u] = "ran" /\ on'[u] = on[u] /\ eff'[u] = eff[u]
    PROVE  Chained'
<1>1. ChainNeverTwice'
  BY DEF Chained, ChainNeverTwice, Fresh, Incremental
<1>2. ASSUME NEW w \in Workers, pc'[w] = "ran", on'[w] \in Incremental
      PROVE  Adds(w)' /\ Takes(w)'
  <2>1. on'[w] = on[w] /\ eff'[w] = eff[w] /\ Adds(w) /\ Takes(w)
    BY <1>2 DEF Chained
  <2>2. Adds(w)'
    BY <2>1 DEF Adds, Of
  <2>3. \A s \in Incremental : Ahead(w, s)' = Ahead(w, s)
    BY <2>1 DEF Ahead, Incremental
  <2> QED
    BY <2>1, <2>2, <2>3 DEF Takes, Of
<1> QED
  BY <1>1, <1>2 DEF Chained

\* What a batch adds, of the data it sees, its reader does not have yet.
LEMMA ChainedRunBatch ==
    ASSUME IInv, Chained, NEW w \in Workers, RunBatch(w)
    PROVE  Chained'
<1> USE NodesAssumption DEF RunBatch, dataVars, storeVars, lockVars
<1> DEFINE v == on[w]
           E == IncrementalEffect(w)
<1>0. /\ pc[w] = "begun" /\ v \in Views
      /\ eff' = [eff EXCEPT ![w] = IF full[w] THEN FullEffect(w) ELSE E]
  BY DEF IInv, Locking
<1>1. /\ eff'[w] = IF full[w] THEN FullEffect(w) ELSE E
      /\ \A u \in Workers : u # w => pc'[u] = pc[u] /\ eff'[u] = eff[u]
  <2> HIDE DEF E
  <2> QED
    BY <1>0 DEF IInv, TypeOK
<1>2. ChainNeverTwice'
  BY DEF Chained, ChainNeverTwice, Fresh
<1>3. ASSUME NEW u \in Workers, u # w, pc'[u] = "ran", on[u] \in Incremental
      PROVE  Adds(u)' /\ Takes(u)'
  BY <1>1, <1>3 DEF Chained, Adds, Takes, Ahead, Of
<1>4. ASSUME v \in Incremental
      PROVE  Adds(w)' /\ Takes(w)'
  <2>1. eff'[w] = E
    BY <1>1, <1>4 DEF IInv, Locking
  <2>2. \A c \in Changes : E.mv[c] = mv[v][c] + Cardinality(Of(Emitted(w), c))
    BY <1>0, CountsEmitted
  <2>3. E.out \subseteq Emitted(w)
    BY <1>0, IncrementalEffectOK
  <2>4. \A s \in Sources[v] : \A r \in delta[s] \ E.purge[s] : r.ts < E.cur[s] /\ r.ts \in Nat
    BY <1>0, LeavesBehind
  <2>5. \A s \in Sources[v] : E.cur[s] \in Nat
    BY <1>0, LeavesBehind
  <2> HIDE DEF E
  <2>6. ASSUME NEW c \in Changes
        PROVE  mv[v][c] + Cardinality(Of(E.out, c)) <= E.mv[c]
    <3>1. Of(E.out, c) \subseteq Of(Emitted(w), c) \union {}
      BY <2>3 DEF Of
    <3>2. IsFiniteSet(Of(Emitted(w), c)) /\ IsFiniteSet({}) /\ Cardinality({}) = 0
      BY <1>0, ChangeRowsFinite, FS_EmptySet
    <3>3. /\ Cardinality(Of(E.out, c)) \in Nat /\ Cardinality(Of(Emitted(w), c)) \in Nat
          /\ Cardinality(Of(E.out, c)) <= Cardinality(Of(Emitted(w), c)) + Cardinality({})
      BY <3>1, <3>2, Covered
    <3>4. mv[v][c] \in Nat
      BY <1>0 DEF IInv, TypeOK
    <3> QED
      BY <2>2, <3>2, <3>3, <3>4
  <2>7. ASSUME NEW s \in Sources[v] \intersect Incremental, NEW c \in Changes,
               TableOf[c] \in Origin[s]
        PROVE  E.mv[c] + Cardinality(Of({r \in delta[s] \ E.purge[s] : r.ts >= E.cur[s]}, c))
                  <= mv[s][c]
    <3>1. Of({r \in delta[s] \ E.purge[s] : r.ts >= E.cur[s]}, c) = {}
      BY <2>4, <2>5 DEF Of
    <3>2. mv[v][c] + Cardinality(Of(Fresh(v, s), c)) <= mv[s][c]
      BY <1>4, <2>7 DEF Chained, ChainNeverTwice, Of
    <3>3. Cardinality(Of(Emitted(w), c)) <= Cardinality(Of(Fresh(v, s), c))
      BY <1>0, <2>7, EmittedFromOne
    <3>4. Cardinality(Of(Emitted(w), c)) \in Nat /\ Cardinality(Of(Fresh(v, s), c)) \in Nat
      BY <1>0, <2>7, ChangeRowsFinite DEF Fresh, Nodes, Incremental
    <3>5. mv[v][c] \in Nat /\ mv[s][c] \in Nat
      BY <1>0 DEF IInv, TypeOK, Incremental
    <3>6. E.mv[c] = mv[v][c] + Cardinality(Of(Emitted(w), c))
      BY <2>2
    <3>7. E.mv[c] <= mv[s][c] /\ E.mv[c] \in Nat
      BY <3>2, <3>3, <3>4, <3>5, <3>6
    <3>8. Cardinality(Of({r \in delta[s] \ E.purge[s] : r.ts >= E.cur[s]}, c)) = 0
      BY <3>1, FS_EmptySet, Zenon
    <3> QED
      BY <3>7, <3>8
  <2>8. Adds(w)'
    BY <2>1, <2>6 DEF Adds, Of
  <2>9. Takes(w)'
    BY <2>1, <2>7 DEF Takes, Ahead, Of
  <2> QED
    BY <2>8, <2>9
<1> QED
  BY <1>1, <1>2, <1>3, <1>4 DEF Chained

\* What the commit of a batch adds to a delta table, it adds to the counts.
LEMMA CommitGrows ==
    ASSUME IInv, Chained, NEW w \in Workers, CommitRefresh(w),
           NEW s \in Incremental, NEW c \in Changes
    PROVE  LET new == Of(delta'[s] \ delta[s], c)
           IN  /\ mv[s][c] + Cardinality(new) <= mv'[s][c]
               /\ IsFiniteSet(new) /\ Cardinality(new) \in Nat
               /\ mv[s][c] \in Nat /\ mv'[s][c] \in Nat
<1> USE NodesAssumption
<1> DEFINE v == on[w]
           new == Of(delta'[s] \ delta[s], c)
<1>1. /\ pc[w] = "ran" /\ v \in Views /\ s \in Views /\ s \in Nodes
      /\ mv' = [mv EXCEPT ![v] = eff[w].mv]
      /\ delta'[s] = (delta[s] \ eff[w].purge[s]) \union (IF s = v THEN eff[w].out ELSE {})
      /\ mv \in [Views -> [Changes -> Nat]] /\ eff[w].mv \in [Changes -> Nat]
  BY DEF CommitRefresh, IInv, Locking, TypeOK, Effect, Incremental, Nodes
<1>2. mv[s][c] \in Nat /\ mv'[s][c] \in Nat
  BY <1>1
<1>3. CASE s = v
  <2>1. new \subseteq Of(eff[w].out, c) \union {}
    BY <1>1, <1>3 DEF Of
  <2>2. IsFiniteSet(Of(eff[w].out, c)) /\ IsFiniteSet({}) /\ Cardinality({}) = 0
    BY <1>1, ChangeRowsFinite, FS_EmptySet
  <2>3. mv[s][c] + Cardinality(Of(eff[w].out, c)) <= mv'[s][c]
    BY <1>1, <1>3 DEF Chained, Adds
  <2> HIDE DEF new
  <2>4. /\ Cardinality(new) \in Nat /\ Cardinality(Of(eff[w].out, c)) \in Nat
        /\ Cardinality(new) <= Cardinality(Of(eff[w].out, c)) + Cardinality({})
    BY <2>1, <2>2, Covered
  <2>5. IsFiniteSet(new)
    BY <2>1, <2>2, FS_Subset
  <2>6. mv[s][c] + Cardinality(new) <= mv'[s][c]
    BY <1>2, <2>2, <2>3, <2>4
  <2> QED
    BY <1>2, <2>4, <2>5, <2>6 DEF new
<1>4. CASE s # v
  <2>1. new = {} /\ mv'[s][c] = mv[s][c]
    BY <1>1, <1>4 DEF Of
  <2> HIDE DEF new
  <2>2. IsFiniteSet(new) /\ Cardinality(new) = 0
    BY <2>1, FS_EmptySet
  <2>3. mv[s][c] + Cardinality(new) <= mv'[s][c] /\ Cardinality(new) \in Nat
    BY <1>2, <2>1, <2>2
  <2> QED
    BY <1>2, <2>2, <2>3 DEF new
<1> QED
  BY <1>3, <1>4

\* What a batch has computed becomes the view's data and its readers' delta.
LEMMA ChainedCommit ==
    ASSUME IInv, Chained, NEW w \in Workers, CommitRefresh(w)
    PROVE  Chained'
<1> USE NodesAssumption, BoundsAssumption
<1> DEFINE v == on[w]
           new(s, c) == Of(delta'[s] \ delta[s], c)
<1>0. /\ pc[w] = "ran" /\ v \in Views
      /\ mv' = [mv EXCEPT ![v] = eff[w].mv] /\ cursor' = [cursor EXCEPT ![v] = eff[w].cur]
      /\ mv \in [Views -> [Changes -> Nat]] /\ cursor \in [Views -> [Nodes -> Nat]]
      /\ Release(w) /\ \A s \in Nodes \ {v} : delta'[s] = delta[s] \ eff[w].purge[s]
  BY DEF CommitRefresh, IInv, Locking, TypeOK
<1>a. \A s \in Incremental : s \in Views /\ s \in Nodes
  BY DEF Incremental, Nodes
<1>b. /\ \A u \in Workers : u # w =>
            pc'[u] = pc[u] /\ on'[u] = on[u] /\ eff'[u] = eff[u]
      /\ pc'[w] = "idle"
  BY <1>0 DEF Release, IInv, TypeOK
<1>c. \A u \in Workers : u # w /\ pc[u] = "ran" => on[u] \in Views /\ on[u] # v
  BY <1>0 DEF IInv, Locking, Holding
<1>d. \A s \in Incremental, c \in Changes :
         /\ mv[s][c] + Cardinality(new(s, c)) <= mv'[s][c]
         /\ IsFiniteSet(new(s, c)) /\ Cardinality(new(s, c)) \in Nat
         /\ mv[s][c] \in Nat /\ mv'[s][c] \in Nat
  BY CommitGrows
\* What is counted or left to be scanned grows by no more than its source does.
<1>e. ASSUME NEW s \in Incremental, NEW c \in Changes, NEW k \in Nat,
             NEW old, IsFiniteSet(old), k + Cardinality(old) <= mv[s][c],
             NEW now, now \subseteq old \union new(s, c)
      PROVE  k + Cardinality(now) <= mv'[s][c]
  <2> DEFINE n == new(s, c)
  <2>1. /\ mv[s][c] + Cardinality(n) <= mv'[s][c]
        /\ IsFiniteSet(n) /\ mv[s][c] \in Nat /\ mv'[s][c] \in Nat
    BY <1>d
  <2>2. now \subseteq old \union n
    BY <1>e
  <2> HIDE DEF n
  <2>3. /\ Cardinality(now) \in Nat /\ Cardinality(old) \in Nat /\ Cardinality(n) \in Nat
        /\ Cardinality(now) <= Cardinality(old) + Cardinality(n)
    BY <1>e, <2>1, <2>2, Covered
  <2> QED
    BY <1>e, <2>1, <2>3
<1> HIDE DEF new
<1>1. ChainNeverTwice'
  <2> SUFFICES ASSUME NEW u \in Incremental, NEW s \in Sources[u] \intersect Incremental,
                      NEW c \in Changes, TableOf[c] \in Origin[s]
               PROVE  mv'[u][c] + Cardinality(Of(Fresh(u, s)', c)) <= mv'[s][c]
    BY DEF ChainNeverTwice, Of, Incremental
  <2>0. s # u
    BY <1>a, NotItself
  <2>1. CASE u # v
    <3>1. mv'[u] = mv[u] /\ cursor'[u] = cursor[u] /\ mv[u][c] \in Nat
      BY <1>0, <1>a, <2>1
    <3>2. Of(Fresh(u, s)', c) \subseteq Of(Fresh(u, s), c) \union new(s, c)
      BY <3>1 DEF Of, Fresh, new
    <3>3. IsFiniteSet(Of(Fresh(u, s), c))
      BY <1>a, ChangeRowsFinite DEF Fresh
    <3>4. mv[u][c] + Cardinality(Of(Fresh(u, s), c)) <= mv[s][c]
      BY DEF Chained, ChainNeverTwice, Of
    <3> QED
      BY <1>e, <3>1, <3>2, <3>3, <3>4
  <2>2. CASE u = v
    <3>1. mv'[u] = eff[w].mv /\ cursor'[u] = eff[w].cur /\ eff[w].mv[c] \in Nat
      BY <1>0, <2>2 DEF IInv, TypeOK, Effect
    <3>2. Of(Fresh(u, s)', c) \subseteq Of(Ahead(w, s), c) \union new(s, c)
      BY <1>0, <1>a, <2>0, <2>2, <3>1 DEF Of, Fresh, Ahead
    <3>3. IsFiniteSet(Of(Ahead(w, s), c))
      BY <1>a, ChangeRowsFinite DEF Ahead
    <3>4. eff[w].mv[c] + Cardinality(Of(Ahead(w, s), c)) <= mv[s][c]
      BY <1>0, <2>2 DEF Chained, Takes
    <3> QED
      BY <1>e, <3>1, <3>2, <3>3, <3>4
  <2> QED
    BY <2>1, <2>2
<1>2. ASSUME NEW u \in Workers, pc'[u] = "ran", on'[u] \in Incremental
      PROVE  Adds(u)' /\ Takes(u)'
  <2>1. /\ u # w /\ pc[u] = "ran" /\ on'[u] = on[u] /\ eff'[u] = eff[u]
        /\ on[u] \in Views /\ on[u] # v /\ Adds(u) /\ Takes(u)
    BY <1>2, <1>b, <1>c DEF Chained
  <2>2. mv'[on[u]] = mv[on[u]]
    BY <1>0, <2>1
  <2>3. Adds(u)'
    BY <2>1, <2>2 DEF Adds, Of
  <2>4. ASSUME NEW s \in Sources[on[u]] \intersect Incremental, NEW c \in Changes,
               TableOf[c] \in Origin[s]
        PROVE  eff[u].mv[c] + Cardinality(Of(Ahead(u, s)', c)) <= mv'[s][c]
    <3>1. Of(Ahead(u, s)', c) \subseteq Of(Ahead(u, s), c) \union new(s, c)
      BY <2>1 DEF Of, Ahead, new
    <3>2. IsFiniteSet(Of(Ahead(u, s), c))
      BY <1>a, ChangeRowsFinite DEF Ahead
    <3>3. eff[u].mv[c] + Cardinality(Of(Ahead(u, s), c)) <= mv[s][c] /\ eff[u].mv[c] \in Nat
      BY <2>1, <2>4 DEF Takes, IInv, TypeOK, Effect
    <3> QED
      BY <1>e, <3>1, <3>2, <3>3
  <2> QED
    BY <2>1, <2>3, <2>4 DEF Takes, Of
<1> QED
  BY <1>1, <1>2 DEF Chained

\* Every step keeps the invariant.
LEMMA ChainedNext == IInv /\ Chained /\ [Next]_vars => Chained'
<1> SUFFICES ASSUME IInv, Chained, [Next]_vars PROVE Chained'
  OBVIOUS
<1> USE NodesAssumption DEF storeVars
<1>0. /\ pc \in [Workers -> Steps] /\ on \in [Workers -> Views \union {None}]
      /\ eff \in [Workers -> Effect] /\ delta \in [Nodes -> SUBSET Row]
  BY DEF IInv, TypeOK
<1>1. ASSUME NEW x \in Sessions, Dml(x) PROVE Chained'
  <2>1. UNCHANGED <<mv, cursor, pc, on, eff>>
    BY <1>1 DEF Dml, StartCapture, FinishCapture, CommitDml, RollbackDml, jobVars
  <2>2. \A s \in Views : delta'[s] = delta[s]
    <3>1. CASE FinishCapture(x)
      <4>1. PICK t \in Tables : \E rows : delta' = [delta EXCEPT ![t] = rows]
        BY <3>1 DEF FinishCapture, IInv, TypeOK
      <4> QED
        BY <1>0, <4>1 DEF Nodes
    <3>2. CASE ~FinishCapture(x)
      BY <1>1, <3>2 DEF Dml, StartCapture, CommitDml, RollbackDml
    <3> QED
      BY <3>1, <3>2
  <2> QED
    BY <2>1, <2>2, ChainedQuiet
<1>2. ASSUME NEW w \in Workers, NEW v \in Views, RequestRefresh(w, v) PROVE Chained'
  BY <1>0, <1>2, ChainedQuiet DEF RequestRefresh
<1>3. ASSUME NEW w \in Workers, Refresh(w) PROVE Chained'
  <2>1. CASE LockView(w) \/ LockDelta(w)
    BY <1>0, <2>1, ChainedQuiet DEF LockView, LockDelta, jobVars
  <2>2. CASE Compile(w) \/ BeginTransaction(w)
    BY <1>0, <2>2, ChainedQuiet DEF Compile, BeginTransaction
  <2>3. CASE SkipRefresh(w) \/ ConflictRefresh(w) \/ FailRefresh(w)
    <3>1. Release(w) /\ UNCHANGED <<delta, cursor, mv>>
      BY <2>3 DEF SkipRefresh, ConflictRefresh, FailRefresh
    <3>2. \A u \in Workers : pc'[u] = "ran" =>
             pc[u] = "ran" /\ on'[u] = on[u] /\ eff'[u] = eff[u]
      BY <1>0, <3>1 DEF Release
    <3> QED
      BY <3>1, <3>2, ChainedQuiet
  <2> QED
    BY <1>3, <2>1, <2>2, <2>3, ChainedRunBatch, ChainedCommit DEF Refresh
<1>4. CASE UNCHANGED vars
  BY <1>4, ChainedQuiet DEF vars, jobVars
<1> QED
  BY <1>1, <1>2, <1>3, <1>4 DEF Next

\* No change reaches a view more often than the view it reads from, though
\* refreshes of both overlap, purge the delta table between them under no
\* common mutex, fail, or meet conflicts: for chains and trees of any shape.
THEOREM ChainNeverTwiceHolds == Spec => []ChainNeverTwice
<1>1. Init => IInv /\ Chained
  BY InitOK, ChainedInit
<1>2. IInv /\ Chained /\ [Next]_vars => (IInv /\ Chained)'
  BY NextOK, ChainedNext
<1>3. IInv /\ Chained => ChainNeverTwice
  BY DEF Chained
<1> QED
  BY <1>1, <1>2, <1>3, PTL DEF Spec
-----------------------------------------------------------------------------
(* Nothing lost, when one connection refreshes a chain *)

\* In a cascade every refresh applies deltas, and one runs at a time.
LEMMA CascadeViews ==
    ASSUME IInv, InCascade
    PROVE  /\ Incremental = Views
           /\ \A w \in Workers : full[w] = FALSE
  BY DEF InCascade, Incremental, IInv, TypeOK, Locking, Holding

\* At first every view is its query over empty sources.
LEMMA CascadingInit == Init => Cascading
<1> SUFFICES ASSUME Init PROVE Cascading
  OBVIOUS
<1>1. InStep /\ Recorded /\ Found
  BY DEF Init, InStep, Recorded, Found, Captured
<1>2. ChainFlow
  <2> SUFFICES ASSUME NEW v \in Incremental, NEW s \in Sources[v] \intersect Incremental,
                      NEW c \in Changes
               PROVE  Flow(v, s, c)
    BY DEF ChainFlow
  <2>1. v \in Views /\ s \in Views /\ s \in Nodes
    BY DEF Incremental, Nodes
  <2>2. mv[v][c] = 0 /\ Given(s, c) = 0
    BY <2>1 DEF Init, Given
  <2>3. {r \in Fresh(v, s) : r.chg = c} = {}
    BY <2>1 DEF Init, Fresh
  <2>4. Cardinality({r \in Fresh(v, s) : r.chg = c}) = 0
    BY <2>3, FS_EmptySet, Zenon
  <2> QED
    BY <2>2, <2>4 DEF Flow
<1>3. /\ \A v \in Views : \A c \in Changes : mv[v][c] <= 1
      /\ \A w \in Workers : pc[w] # "ran"
  BY DEF Init
<1> QED
  BY <1>1, <1>2, <1>3 DEF Cascading

\* A step of a refresh that writes nothing, and after which no refresh is
\* compiled that had not been before.
LEMMA CascadingQuiet ==
    ASSUME Cascading, UNCHANGED <<clock, dataVars, storeVars>>,
           \A u \in Workers : pc'[u] \in Holding =>
              /\ pc'[u] = pc[u] /\ on'[u] = on[u] /\ active'[u] = active[u]
              /\ start'[u] = start[u] /\ eff'[u] = eff[u]
    PROVE  Cascading'
<1> USE DEF dataVars, storeVars, Holding
<1>1. InStep'
  BY DEF Cascading, InStep, Readers
<1>2. Recorded' /\ ChainFlow'
  BY DEF Cascading, Recorded, Captured, ChainFlow, Flow, Fresh, Given
<1>3. Found'
  BY DEF Cascading, Found, Fresh
<1>4. ASSUME NEW w \in Workers, pc'[w] = "ran"
      PROVE  Delivers(w)'
  <2>1. /\ Delivers(w)
        /\ on'[w] = on[w] /\ start'[w] = start[w] /\ eff'[w] = eff[w]
    BY <1>4 DEF Cascading
  <2> QED
    BY <2>1 DEF Delivers, Readers, Of
<1> QED
  BY <1>1, <1>2, <1>3, <1>4 DEF Cascading

\* A compiled batch reads from where the refresh before it stopped.
LEMMA CascadingCompile ==
    ASSUME IInv, Cascading, NEW w \in Workers, Compile(w)
    PROVE  Cascading'
<1> USE DEF Compile, dataVars, storeVars, lockVars
<1>0. /\ pc' = [pc EXCEPT ![w] = "compiled"] /\ pc \in [Workers -> Steps]
      /\ active' = [active EXCEPT ![w] = ActiveSources(on[w])]
      /\ active \in [Workers -> SUBSET Nodes]
  BY DEF IInv, TypeOK
<1>1. InStep'
  BY <1>0 DEF Cascading, InStep, Readers
<1>2. Recorded' /\ ChainFlow'
  BY DEF Cascading, Recorded, Captured, ChainFlow, Flow, Fresh, Given
<1>3. Found'
  BY <1>0 DEF Cascading, Found, Fresh, ActiveSources
<1>4. ASSUME NEW u \in Workers, pc'[u] = "ran"
      PROVE  Delivers(u)'
  <2>1. Delivers(u)
    BY <1>0, <1>4 DEF Cascading
  <2> QED
    BY <2>1 DEF Delivers, Readers, Of
<1> QED
  BY <1>1, <1>2, <1>3, <1>4 DEF Cascading

\* now() of the transaction is not before any cursor.
LEMMA CascadingBegin ==
    ASSUME IInv, InCascade, Cascading, NEW w \in Workers, BeginTransaction(w)
    PROVE  Cascading'
<1> USE DEF BeginTransaction, dataVars, storeVars, lockVars
<1>0. /\ pc' = [pc EXCEPT ![w] = "begun"] /\ pc \in [Workers -> Steps]
      /\ start' = [start EXCEPT ![w] = clock] /\ start \in [Workers -> Nat]
      /\ clock' = clock + 1 /\ clock \in Nat
      /\ cursor \in [Views -> [Nodes -> Nat]] /\ on[w] \in Views /\ on[w] \in Nodes
  BY DEF IInv, TypeOK, Locking, Nodes
<1>0a. \A u \in Workers : u = w
  BY DEF InCascade
<1>1. InStep'
  <2>1. \A v \in Views : \A n \in Nodes : cursor[v][n] <= clock'
    BY <1>0 DEF Cascading, InStep
  <2>2. \A u \in Readers(on[w]) : cursor[u][on[w]] <= start'[w]
    BY <1>0 DEF Cascading, InStep, Readers
  <2> QED
    BY <1>0a, <2>1, <2>2 DEF InStep, Readers
<1>2. Recorded' /\ ChainFlow'
  BY DEF Cascading, Recorded, Captured, ChainFlow, Flow, Fresh, Given
<1>3. Found'
  BY <1>0 DEF Cascading, Found, Fresh
<1>4. \A u \in Workers : pc'[u] # "ran"
  BY <1>0, <1>0a
<1> QED
  BY <1>1, <1>2, <1>3, <1>4 DEF Cascading

\* A write to a base table adds the row to its delta table, and no view moves.
LEMMA CascadingDml ==
    ASSUME IInv, InCascade, Cascading, NEW x \in Sessions, Dml(x)
    PROVE  Cascading'
<1> USE NodesAssumption, BoundsAssumption
<1>0. UNCHANGED <<cursor, mv, pc, on, active, start, eff>>
  BY DEF Dml, StartCapture, FinishCapture, CommitDml, RollbackDml, jobVars, storeVars
<1>1. clock \in Nat /\ (clock' = clock \/ clock' = clock + 1)
  BY DEF Dml, StartCapture, FinishCapture, CommitDml, RollbackDml, IInv, TypeOK
<1>2. InStep'
  <2>1. \A v \in Views : \A n \in Nodes : cursor[v][n] \in Nat
    BY DEF IInv, TypeOK
  <2> QED
    BY <1>0, <1>1, <2>1 DEF Cascading, InStep, Readers
\* Only the delta table of a base table changes, and no refresh reads that.
<1>3. /\ \A s \in Views : delta'[s] = delta[s]
      /\ \A w \in Workers : pc[w] \in Holding => \A s \in Sources[on[w]] : delta'[s] = delta[s]
  <2>1. CASE FinishCapture(x)
    <3> DEFINE t == TableOf[writing[x]]
    <3>1. /\ t \in Tables /\ t \in Nodes /\ deltaLock[t] = x
          /\ \A n \in Nodes : n # t => delta'[n] = delta[n]
      BY <2>1 DEF FinishCapture, IInv, TypeOK, Locking, Nodes
    <3>2. \A w \in Workers : pc[w] \in Holding =>
             \A s \in Sources[on[w]] : s \in Nodes /\ s # t
      BY <3>1 DEF IInv, Locking, Holding
    <3> QED
      BY <3>1, <3>2 DEF Nodes
  <2>2. CASE ~FinishCapture(x)
    BY <2>2 DEF Dml, StartCapture, CommitDml, RollbackDml, storeVars
  <2> QED
    BY <2>1, <2>2
<1>4. ChainFlow'
  BY <1>0, <1>3 DEF Cascading, ChainFlow, Flow, Fresh, Given, Incremental
<1>5. Found'
  BY <1>0, <1>3 DEF Cascading, Found, Fresh, Holding
<1>6. ASSUME NEW w \in Workers, pc'[w] = "ran"
      PROVE  Delivers(w)'
  <2>1. Delivers(w) /\ eff[w] \in Effect
    BY <1>0, <1>6 DEF Cascading, IInv, TypeOK
  <2>2. \A n \in Nodes : eff[w].cur[n] <= clock'
    <3>1. \A n \in Nodes : eff[w].cur[n] \in Nat /\ eff[w].cur[n] <= clock
      BY <2>1 DEF Delivers, Effect
    <3> QED
      BY <1>1, <3>1
  <2> QED
    BY <1>0, <1>3, <2>1, <2>2 DEF Delivers, Readers, Of
<1>7. Recorded'
  <2>1. CASE \E c \in Changes : StartCapture(x, c)
    <3>1. PICK c \in Changes : StartCapture(x, c)
      BY <2>1
    <3>2. /\ writing' = [writing EXCEPT ![x] = c] /\ writing[x] = None /\ stamp[c] = 0
          /\ stamp' = [stamp EXCEPT ![c] = clock] /\ UNCHANGED <<base, tx>>
          /\ writing \in [Sessions -> Changes \union {None}] /\ stamp \in [Changes -> Nat]
      BY <3>1 DEF StartCapture, IInv, TypeOK
    <3>3. \A d \in Captured' : d \in Captured
      BY <3>2 DEF Captured
    <3> QED
      BY <3>2, <3>3 DEF Cascading, Recorded
  <2>2. CASE FinishCapture(x)
    <3>1. /\ writing' = [writing EXCEPT ![x] = None] /\ UNCHANGED <<base, stamp>>
          /\ tx' = [tx EXCEPT ![x] = @ \union {writing[x]}]
          /\ writing \in [Sessions -> Changes \union {None}] /\ tx \in [Sessions -> SUBSET Changes]
      BY <2>2 DEF FinishCapture, IInv, TypeOK
    <3>2. \A d \in Captured' : d \in Captured \/ d = writing[x]
      BY <3>1 DEF Captured
    <3> QED
      BY <3>1, <3>2 DEF Cascading, Recorded
  <2>3. CASE CommitDml(x)
    <3>1. /\ UNCHANGED <<writing, stamp>> /\ base' = base \union tx[x]
          /\ tx' = [tx EXCEPT ![x] = {}] /\ tx \in [Sessions -> SUBSET Changes]
      BY <2>3 DEF CommitDml, IInv, TypeOK
    <3> QED
      BY <3>1 DEF Cascading, Recorded, Captured
  <2>4. CASE RollbackDml(x)
    BY <2>4 DEF RollbackDml, Recorded
  <2> QED
    BY <2>1, <2>2, <2>3, <2>4 DEF Dml
<1> QED
  BY <1>0, <1>2, <1>4, <1>5, <1>6, <1>7 DEF Cascading
\* A change that a refresh scans in one of its sources has at most one row
\* there, and the refresh emits exactly one for it.
LEMMA EmitsWhatItScans ==
    ASSUME IInv, InCascade, Cascading, NEW w \in Workers, pc[w] = "begun",
           NEW s \in Sources[on[w]] \intersect Views,
           NEW c \in Changes, TableOf[c] \in Origin[s]
    PROVE  Cardinality(Of(Emitted(w), c)) = Cardinality(Of(Fresh(on[w], s), c))
<1> USE NodesAssumption
<1> DEFINE v       == on[w]
           scanned == IF v \in Pruned THEN active[w] ELSE Sources[v]
           row(r)  == [chg |-> r.chg, ts |-> start[w], was |-> r.ts]
           from    == Of(Fresh(v, s), c)
           out     == Of(Emitted(w), c)
<1>1. v \in Incremental /\ v \in Views /\ s \in Incremental /\ s \in Nodes
  BY CascadeViews DEF IInv, Locking, Nodes
<1>2. /\ IsFiniteSet(from) /\ Cardinality(from) \in Nat
      /\ IsFiniteSet(out) /\ Cardinality(out) \in Nat
  BY <1>1, ChangeRowsFinite DEF Fresh
<1>3. Cardinality(from) <= 1
  <2>1. mv[v][c] + Cardinality(from) = mv[s][c]
    BY <1>1 DEF Cascading, ChainFlow, Flow, Given, Of
  <2>2. mv[v][c] \in Nat /\ mv[s][c] \in Nat /\ mv[s][c] <= 1
    BY <1>1 DEF Cascading, IInv, TypeOK
  <2> HIDE DEF from
  <2> QED
    BY <1>2, <2>1, <2>2
<1>4. Cardinality(out) <= Cardinality(from)
  BY EmittedFromOne
<1>5. CASE from = {}
  <2> HIDE DEF from, out
  <2>1. Cardinality(from) = 0
    BY <1>5, FS_EmptySet
  <2> QED
    BY <1>2, <1>4, <2>1 DEF from, out
<1>6. CASE from # {}
  <2>1. PICK r \in Fresh(v, s) : r.chg = c
    BY <1>6 DEF Of
  <2>2. s \in scanned
    BY <2>1 DEF Cascading, Found
  <2>3. row(r) \in out
    <3>1. Emitted(w) = {row(q) : q \in UNION {Fresh(v, n) : n \in scanned}}
      BY DEF Emitted
    <3>2. r \in UNION {Fresh(v, n) : n \in scanned}
      BY <2>1, <2>2
    <3>3. row(r) \in Emitted(w)
      BY <3>1, <3>2
    <3> QED
      BY <2>1, <3>3 DEF Of
  <2> HIDE DEF from, out, row
  <2>4. Cardinality(out) # 0
    BY <1>2, <2>3, FS_EmptySet
  <2> QED
    BY <1>2, <1>3, <1>4, <2>4 DEF from, out
<1> QED
  BY <1>5, <1>6

\* What a batch adds is the change of the view's query.
LEMMA CascadingRunBatch ==
    ASSUME IInv, InCascade, Cascading, NEW w \in Workers, RunBatch(w)
    PROVE  Cascading'
<1> USE NodesAssumption DEF RunBatch, dataVars, storeVars, lockVars
<1> DEFINE v == on[w]
           E == IncrementalEffect(w)
<1>0. /\ pc[w] = "begun" /\ v \in Views /\ v \in Nodes /\ pc' = [pc EXCEPT ![w] = "ran"]
      /\ pc \in [Workers -> Steps] /\ \A u \in Workers : u = w
  BY DEF IInv, TypeOK, Locking, Nodes, InCascade
<1>1. eff'[w] = E
  <2>1. full[w] = FALSE /\ eff \in [Workers -> Effect]
    BY CascadeViews DEF IInv, TypeOK
  <2> HIDE DEF E
  <2> QED
    BY <2>1 DEF E
<1>2. InStep'
  BY <1>0 DEF Cascading, InStep, Readers
<1>3. Recorded' /\ ChainFlow'
  BY DEF Cascading, Recorded, Captured, ChainFlow, Flow, Fresh, Given
<1>4. Found'
  BY <1>0 DEF Cascading, Found, Fresh
<1>a. \A c \in Changes : E.mv[c] = mv[v][c] + Cardinality(Of(Emitted(w), c))
  BY <1>0, CountsEmitted
<1>b. \A s \in Sources[v] :
         /\ E.purge[s] = Consumed(s, cursor)
         /\ E.cur[s] \in Nat /\ E.cur[s] <= clock
         /\ \A r \in delta[s] \ E.purge[s] : r.ts < E.cur[s]
  BY <1>0, LeavesBehind
<1>c. E.out = {r \in Emitted(w) : \E u \in Readers(v) : r.ts >= cursor[u][v]}
  BY DEF IncrementalEffect
<1>d. /\ \A n \in Nodes \ Sources[v] : E.cur[n] = cursor[v][n]
      /\ \A n \in Nodes \ (Sources[v] \union {v}) : E.purge[n] = {}
      /\ E.purge[v] = Consumed(v, cursor)
  BY <1>0 DEF IncrementalEffect
<1>e. \A t \in Tables \intersect Sources[v] : \A c \in Changes :
         TableOf[c] = t => E.mv[c] <= 1
  <2>1. v \in Incremental
    BY <1>0, CascadeViews
  <2> SUFFICES ASSUME NEW c \in Changes, TableOf[c] \in Sources[v]
               PROVE  E.mv[c] <= 1
    OBVIOUS
  <2>2. E.mv[c] = IF c \in Captured THEN 1 ELSE 0
    BY <1>0, <2>1, IncrementalEffectOK
  <2> HIDE DEF E
  <2> QED
    BY <2>2
<1> HIDE DEF E
\* The view counts what its sources gave, each change once.
<1>5. ASSUME NEW s \in Sources[v] \intersect Views, NEW c \in Changes, TableOf[c] \in Origin[s]
      PROVE  E.mv[c] = mv[s][c]
  <2>1. Cardinality(Of(Emitted(w), c)) = Cardinality(Of(Fresh(v, s), c))
    BY <1>0, <1>5, EmitsWhatItScans
  <2>2. mv[v][c] + Cardinality(Of(Fresh(v, s), c)) = mv[s][c]
    BY <1>0, <1>5, CascadeViews DEF Cascading, ChainFlow, Flow, Given, Of
  <2> QED
    BY <1>a, <2>1, <2>2
<1>6. ASSUME NEW c \in Changes
      PROVE  E.mv[c] <= 1
  <2>1. CASE \E s \in Sources[v] \intersect Views : TableOf[c] \in Origin[s]
    BY <1>5, <2>1 DEF Cascading
  <2>2. CASE \E s \in Sources[v] \intersect Tables : TableOf[c] \in Origin[s]
    BY <1>e, <2>2, OriginAssumption
  <2>3. CASE ~\E s \in Sources[v] : TableOf[c] \in Origin[s]
    <3>1. TableOf[c] \notin Origin[v]
      BY <1>0, <2>3, OriginAssumption
    <3>2. Of(Emitted(w), c) = {}
      BY <1>0, <3>1, EmittedRows DEF Of
    <3>3. Cardinality(Of(Emitted(w), c)) = 0
      BY <3>2, FS_EmptySet
    <3>4. mv[v][c] \in Nat /\ mv[v][c] <= 1
      BY <1>0 DEF Cascading, IInv, TypeOK
    <3> QED
      BY <1>a, <3>3, <3>4
  <2>4. Sources[v] \subseteq Tables \union Views
    BY <1>0 DEF Nodes
  <2> QED
    BY <2>1, <2>2, <2>3, <2>4
\* Its readers will find all that it emits.
<1>7. ASSUME NEW u \in Readers(v)
      PROVE  /\ \A r \in E.out : r.ts >= cursor[u][v]
             /\ E.out = Emitted(w)
  <2>1. cursor[u][v] <= start[w] /\ cursor[u][v] \in Nat /\ start[w] \in Nat
    BY <1>0 DEF Cascading, InStep, IInv, TypeOK, Readers
  <2>2. \A r \in Emitted(w) : r.ts = start[w]
    BY <1>0, EmittedRows
  <2> QED
    BY <1>c, <2>1, <2>2
<1>8. \A r \in E.out : r.ts = start[w]
  BY <1>0, <1>c, EmittedRows
<1>9. \A n \in Nodes : E.cur[n] <= clock
  BY <1>0, <1>b, <1>d DEF Cascading, InStep
<1>10. \A n \in Nodes : \A r \in E.purge[n] : \A u \in Readers(n) : r.ts < cursor[u][n]
  BY <1>b, <1>d DEF Consumed
<1>11. Delivers(w)'
  <2>1. Sources[v] \subseteq Nodes
    BY <1>0
  <2> QED
    BY <1>1, <1>5, <1>6, <1>7, <1>8, <1>9, <1>10, <1>a, <1>b, <1>d DEF Delivers, Readers, Of
<1> QED
  BY <1>0, <1>2, <1>3, <1>4, <1>11 DEF Cascading

\* The view is its query again, and its readers are behind by what it added.
LEMMA CascadingCommit ==
    ASSUME IInv, InCascade, Cascading, NEW w \in Workers, CommitRefresh(w)
    PROVE  Cascading'
<1> USE NodesAssumption
<1> DEFINE v == on[w]
<1>0. /\ pc[w] = "ran" /\ v \in Views /\ v \in Nodes /\ Delivers(w) /\ eff[w] \in Effect
      /\ mv' = [mv EXCEPT ![v] = eff[w].mv] /\ cursor' = [cursor EXCEPT ![v] = eff[w].cur]
      /\ mv \in [Views -> [Changes -> Nat]] /\ cursor \in [Views -> [Nodes -> Nat]]
      /\ UNCHANGED <<clock, base, tx, stamp, writing>>
  BY DEF CommitRefresh, IInv, Locking, TypeOK, Cascading, Nodes, dataVars
<1>a. \A u \in Workers : u = w /\ pc'[u] = "idle"
  BY DEF CommitRefresh, Release, IInv, TypeOK, InCascade
<1>b. /\ \A n \in Nodes \ {v} : delta'[n] = delta[n] \ eff[w].purge[n]
      /\ delta'[v] = (delta[v] \ eff[w].purge[v]) \union eff[w].out
  BY <1>0 DEF CommitRefresh
<1>c. /\ \A u \in Views : u # v => mv'[u] = mv[u] /\ cursor'[u] = cursor[u]
      /\ mv'[v] = eff[w].mv /\ cursor'[v] = eff[w].cur
  BY <1>0
<1>1. InStep'
  BY <1>0, <1>a, <1>c DEF Cascading, InStep, Delivers
<1>2. Recorded'
  BY <1>0 DEF Cascading, Recorded, Captured
<1>3. Found'
  BY <1>a DEF Found
<1>4. \A u \in Views : \A c \in Changes : mv'[u][c] <= 1
  BY <1>0, <1>c DEF Cascading, Delivers
<1>5. ChainFlow'
  <2> SUFFICES ASSUME NEW u \in Views, NEW s \in Sources[u] \intersect Views,
                      NEW c \in Changes, TableOf[c] \in Origin[s]
               PROVE  mv'[u][c] + Cardinality(Of(Fresh(u, s)', c)) = mv'[s][c]
    BY CascadeViews DEF ChainFlow, Flow, Given, Of
  <2>0. /\ s # u /\ s \in Nodes /\ u \in Readers(s) /\ cursor[u][s] \in Nat
        /\ u \in Incremental /\ s \in Incremental
        /\ \A r \in delta[s] : r.ts \in Nat
    <3>1. u \in Incremental /\ s \in Incremental
      BY CascadeViews
    <3>2. s # u
      BY NotItself
    <3>3. s \in Nodes /\ u \in Readers(s)
      BY DEF Readers, Nodes
    <3>4. cursor[u][s] \in Nat /\ \A r \in delta[s] : r.ts \in Nat
      BY <1>0, <3>3 DEF IInv, TypeOK, Row
    <3> QED
      BY <3>1, <3>2, <3>3, <3>4
  <2>1. mv[u][c] + Cardinality(Of(Fresh(u, s), c)) = mv[s][c]
    BY <2>0 DEF Cascading, ChainFlow, Flow, Given, Of
  <2>2. CASE u = v
    <3>1. mv'[u][c] = mv[s][c] /\ mv'[s] = mv[s] /\ mv[s][c] \in Nat
      BY <1>0, <1>c, <2>0, <2>2 DEF Delivers
    <3>2. eff[w].cur[s] \in Nat /\ \A r \in delta'[s] : r.ts \in Nat /\ r.ts < eff[w].cur[s]
      BY <1>0, <1>b, <2>0, <2>2 DEF Delivers, Effect
    <3>3. Of(Fresh(u, s)', c) = {}
      BY <1>c, <2>2, <3>2 DEF Of, Fresh
    <3>4. Cardinality(Of(Fresh(u, s)', c)) = 0
      BY <3>3, FS_EmptySet
    <3> QED
      BY <3>1, <3>4
  <2>3. CASE s = v
    <3>1. mv'[u] = mv[u] /\ cursor'[u] = cursor[u] /\ mv'[s] = eff[w].mv
      BY <1>c, <2>0, <2>3
    <3>2. Of(Fresh(u, s)', c) = Of(Fresh(u, s), c) \union Of(eff[w].out, c)
      <4>1. \A r \in eff[w].purge[v] : r.ts < cursor[u][v]
        BY <1>0, <2>0, <2>3 DEF Delivers
      <4>2. \A r \in eff[w].out : r.ts >= cursor[u][v]
        BY <1>0, <2>0, <2>3 DEF Delivers
      <4>3. \A r \in delta[v] : r.ts >= cursor[u][v] => r \notin eff[w].purge[v]
        BY <2>0, <2>3, <4>1
      <4> QED
        BY <1>b, <2>3, <3>1, <4>2, <4>3 DEF Of, Fresh
    <3>3. Of(Fresh(u, s), c) \intersect Of(eff[w].out, c) = {}
      <4>1. \A r \in eff[w].out : r.ts = start[w]
        BY <1>0 DEF Delivers
      <4>2. \A r \in delta[v] : r.ts <= refreshed[v]
        BY <1>0 DEF IInv, Timing
      <4>3. refreshed[v] < start[w] /\ refreshed[v] \in Nat /\ start[w] \in Nat
        BY <1>0 DEF IInv, Timing, TypeOK
      <4> QED
        BY <2>0, <2>3, <4>1, <4>2, <4>3 DEF Of, Fresh
    <3>4. mv[v][c] + Cardinality(Of(eff[w].out, c)) = eff[w].mv[c]
      BY <1>0, <2>0, <2>3 DEF Delivers
    <3>5. /\ IsFiniteSet(Of(Fresh(u, s), c)) /\ IsFiniteSet(Of(eff[w].out, c))
          /\ Cardinality(Of(Fresh(u, s), c)) \in Nat /\ Cardinality(Of(eff[w].out, c)) \in Nat
      BY <1>0, <2>0, ChangeRowsFinite DEF Fresh
    <3> DEFINE a == Of(Fresh(u, s), c)
               b == Of(eff[w].out, c)
    <3>6. Cardinality(a \union b) = Cardinality(a) + Cardinality(b)
      <4> HIDE DEF a, b
      <4>1. a \intersect b = {}
        BY <3>3 DEF a, b
      <4>2. Cardinality(a \intersect b) = 0
        BY <4>1, FS_EmptySet
      <4>3. Cardinality(a \union b) = Cardinality(a) + Cardinality(b) - Cardinality(a \intersect b)
        BY <3>5, FS_Union DEF a, b
      <4> QED
        BY <3>5, <4>2, <4>3 DEF a, b
    <3>7. mv[u][c] \in Nat /\ mv[v][c] \in Nat
      BY <1>0
    <3> HIDE DEF a, b
    <3> QED
      BY <2>1, <2>3, <3>1, <3>2, <3>4, <3>5, <3>6, <3>7 DEF a, b
  <2>4. CASE u # v /\ s # v
    <3>1. mv'[u] = mv[u] /\ cursor'[u] = cursor[u] /\ mv'[s] = mv[s]
      BY <1>c, <2>4
    <3>2. \A r \in eff[w].purge[s] : r.ts < cursor[u][s]
      BY <1>0, <2>0, <2>4 DEF Delivers
    <3>3. delta'[s] = delta[s] \ eff[w].purge[s]
      BY <1>b, <2>0, <2>4
    <3>4. \A r \in delta[s] : r.ts >= cursor[u][s] => r \notin eff[w].purge[s]
      BY <2>0, <3>2
    <3>5. Of(Fresh(u, s)', c) = Of(Fresh(u, s), c)
      BY <3>1, <3>3, <3>4 DEF Of, Fresh
    <3> QED
      BY <2>1, <3>1, <3>5
  <2> QED
    BY <2>2, <2>3, <2>4
<1> QED
  BY <1>1, <1>2, <1>3, <1>4, <1>5, <1>a DEF Cascading

\* Every step keeps the invariant.
LEMMA CascadingNext == IInv /\ InCascade /\ Cascading /\ [Next]_vars => Cascading'
<1> SUFFICES ASSUME IInv, InCascade, Cascading, [Next]_vars PROVE Cascading'
  OBVIOUS
<1>0. pc \in [Workers -> Steps] /\ on \in [Workers -> Views \union {None}]
  BY DEF IInv, TypeOK
<1>1. ASSUME NEW x \in Sessions, Dml(x) PROVE Cascading'
  BY <1>1, CascadingDml
<1>2. ASSUME NEW w \in Workers, NEW v \in Views, RequestRefresh(w, v) PROVE Cascading'
  BY <1>0, <1>2, CascadingQuiet DEF RequestRefresh, Holding
<1>3. ASSUME NEW w \in Workers, Refresh(w) PROVE Cascading'
  <2>1. CASE LockView(w) \/ LockDelta(w)
    BY <1>0, <2>1, CascadingQuiet DEF LockView, LockDelta, Holding, jobVars
  <2>2. CASE SkipRefresh(w) \/ ConflictRefresh(w) \/ FailRefresh(w)
    <3>1. Release(w) /\ UNCHANGED <<clock, dataVars, storeVars>>
      BY <2>2 DEF SkipRefresh, ConflictRefresh, FailRefresh
    <3>2. \A u \in Workers : u = w /\ pc'[u] = "idle"
      BY <1>0, <3>1 DEF Release, InCascade
    <3> QED
      BY <3>1, <3>2, CascadingQuiet DEF Holding
  <2> QED
    BY <1>3, <2>1, <2>2, CascadingCompile, CascadingBegin, CascadingRunBatch,
       CascadingCommit DEF Refresh
<1>4. CASE UNCHANGED vars
  BY <1>4, CascadingQuiet DEF vars, jobVars
<1> QED
  BY <1>1, <1>2, <1>3, <1>4 DEF Next

\* One worker that only applies deltas keeps, in every state, what the delta
\* flow of the whole graph of views rests on.
THEOREM CascadeInductive ==
    ASSUME InCascade PROVE Spec => [](IInv /\ CInv /\ Cascading)
<1>1. Init => Cascading
  BY CascadingInit
<1>2. IInv /\ Cascading /\ [Next]_vars => Cascading'
  BY CascadingNext
<1> QED
  BY <1>1, <1>2, CursorsInductive, PTL DEF Spec

\* Along a chain that one connection refreshes, in any order, what a view has
\* counted its reader has counted or will find in the view's delta table: no
\* purge, failure or conflict loses it, and no second scan repeats it.
THEOREM ChainFlowHolds == ASSUME InCascade PROVE Spec => []ChainFlow
<1>1. Cascading => ChainFlow
  BY DEF Cascading
<1> QED
  BY <1>1, CascadeInductive, PTL

\* A set of natural numbers has a least element.
LEMMA MinExists ==
    ASSUME NEW S \in SUBSET Nat, S # {}
    PROVE  \E m \in S : \A s \in S : m <= s
<1> DEFINE R == {ss \in Nat \X Nat : ss[1] < ss[2]}
<1>1. IsWellFoundedOn(R, Nat)
  BY NatLessThanWellFounded DEF OpToRel
<1>2. \A y, x \in Nat : y < x => <<y, x>> \in R
  OBVIOUS
<1>3. PICK m \in S : \A y \in S : ~ (<<y, m>> \in R)
  <2> HIDE DEF R
  <2> QED  BY <1>1, WFMin
<1> HIDE DEF R
<1>4. \A y \in S : ~ (y < m)
  BY <1>2, <1>3
<1> QED
  BY <1>4

\* When a view has caught up, and every view it depends on, it counts exactly
\* the committed changes: were there views upstream for which this fails, one
\* of them would have been created first, and its sources are exact.
LEMMA CaughtUpLemma ==
    ASSUME IInv, CInv, InCascade, Cascading, AllowRollback = FALSE
    PROVE  CaughtUpIsExact
<1> USE NodesAssumption
<1> SUFFICES ASSUME NEW v \in Views, CaughtUp(v), NEW c \in Changes, TableOf[c] \in Origin[v]
             PROVE  mv[v][c] = IF c \in base THEN 1 ELSE 0
  BY CascadeViews DEF CaughtUpIsExact
<1> DEFINE Exact(u) == mv[u][c] = IF c \in base THEN 1 ELSE 0
           Bad == {u \in Upstream(v) : TableOf[c] \in Origin[u] /\ ~Exact(u)}
<1>1. Captured = base
  <2>1. \A x \in Sessions : tx[x] = {}
    BY DEF CaughtUp
  <2> QED
    BY <2>1 DEF Cascading, Recorded, CInv, Capturing
<1>2. PICK place \in [Nodes -> 0 .. Cardinality(Nodes)] :
         \A u \in Views : \A s \in Sources[u] : place[s] < place[u]
  BY CreationAssumption
<1>3. \A n \in Nodes : place[n] \in Nat
  BY <1>2
<1>4. ASSUME NEW u \in Bad, \A k \in Bad : place[u] <= place[k]
      PROVE  FALSE
  <2>1. u \in Views /\ u \in Nodes /\ Origin[u] \subseteq Origin[v] /\ ActiveSources(u) = {}
    BY DEF Upstream, CaughtUp, Nodes
  <2>2. PICK s \in Sources[u] : TableOf[c] \in Origin[s]
    BY <2>1, OriginAssumption
  <2>3. s \in Nodes /\ Fresh(u, s) = {}
    BY <2>1 DEF ActiveSources
  <2>4. CASE s \in Tables
    <3>1. TableOf[c] = s
      BY <2>2, <2>4, OriginAssumption
    <3>2. mv[u][c] = IF c \in Captured /\ ~Waits(u, c) THEN 1 ELSE 0
      BY <2>1, <3>1, CascadeViews DEF IInv, Accounting
    <3>3. ~Waits(u, c)
      <4>1. stamp[c] \in Nat /\ cursor[u][s] \in Nat /\ RowOf(c).ts = stamp[c]
        BY <2>1, <2>3, RowOfFields DEF IInv, TypeOK
      <4> QED
        BY <2>3, <3>1, <4>1 DEF Waits, Fresh
    <3> QED
      BY <1>1, <3>2, <3>3
  <2>5. CASE s \in Views
    <3>1. mv[u][c] + Cardinality({r \in Fresh(u, s) : r.chg = c}) = mv[s][c]
      BY <2>1, <2>2, <2>5, CascadeViews DEF Cascading, ChainFlow, Flow, Given
    <3>2. Cardinality({r \in Fresh(u, s) : r.chg = c}) = 0
      <4>1. {r \in Fresh(u, s) : r.chg = c} = {}
        BY <2>3
      <4> QED
        BY <4>1, FS_EmptySet, Zenon
    <3>3. mv[u][c] = mv[s][c]
      <4>1. mv[u][c] \in Nat
        BY <2>1 DEF IInv, TypeOK
      <4> QED
        BY <3>1, <3>2, <4>1
    <3>4. s \in Upstream(v)
      BY <2>1, <2>2, <2>5, OriginAssumption DEF Upstream
    <3>5. s \in Bad
      BY <2>2, <3>3, <3>4
    <3>6. place[s] < place[u]
      BY <1>2, <2>1, <2>2
    <3> QED
      BY <1>3, <1>4, <2>1, <2>3, <3>5, <3>6
  <2> QED
    BY <2>3, <2>4, <2>5 DEF Nodes
<1>5. Bad = {}
  <2> SUFFICES ASSUME Bad # {} PROVE FALSE
    OBVIOUS
  <2> DEFINE P == {place[u] : u \in Bad}
  <2>1. P \in SUBSET Nat /\ P # {}
    BY <1>3 DEF Upstream, Nodes
  <2>2. \E m \in P : \A p \in P : m <= p
    <3> HIDE DEF P
    <3> QED  BY <2>1, MinExists
  <2>3. \E u \in Bad : \A k \in Bad : place[u] <= place[k]
    BY <2>2
  <2> HIDE DEF Bad
  <2> QED
    BY <1>4, <2>3
<1>6. v \in Upstream(v)
  BY DEF Upstream
<1> QED
  BY <1>5, <1>6

\* When no transaction is open and neither a view nor any view it depends on
\* has rows left to scan, the view is what its query returns: for a chain of
\* any length that one connection refreshes, in any order, with failures.  A
\* change whose transaction is rolled back stays in the delta table, so here
\* none is.
THEOREM CaughtUpIsExactHolds ==
    ASSUME InCascade, AllowRollback = FALSE PROVE Spec => []CaughtUpIsExact
<1>1. IInv /\ CInv /\ Cascading => CaughtUpIsExact
  BY CaughtUpLemma
<1> QED
  BY <1>1, CascadeInductive, PTL
=============================================================================
