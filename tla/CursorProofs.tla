---------------------------- MODULE CursorProofs ----------------------------
(***************************************************************************)
(* Proofs about the cursors of RefreshProtocol, those of views that are    *)
(* recomputed included: a delta row is purged only behind every reader's   *)
(* cursor, an incremental view's cursor never moves back, and a view over  *)
(* base tables never counts a change twice, though recomputes and          *)
(* incremental refreshes alternate.                                        *)
(*                                                                         *)
(* A cursor is computed from whatever rows are left in a delta table, and  *)
(* may be moved back by an incremental refresh that follows a recompute.   *)
(* It never passes a purged row again, because purges take the oldest rows *)
(* of a table: what has been purged is older than what is left.            *)
(***************************************************************************)
EXTENDS RefreshProofs

\* What has been committed, or will be, has been captured; and a capture under
\* way has the newest stamp of its table.
Capturing ==
    /\ base \subseteq Captured
    /\ \A x \in Sessions : tx[x] \subseteq Captured
    /\ \A x \in Sessions : writing[x] # None =>
          \A d \in Captured : TableOf[d] = TableOf[writing[x]] => stamp[d] < stamp[writing[x]]

\* A refresh's now() is not before the cursors that it is about to move.
Begun ==
    \A w \in Workers : pc[w] \in {"begun", "ran"} =>
        \A t \in Tables \intersect Sources[on[w]] : cursor[on[w]][t] <= start[w]

\* A captured change whose row has been purged is behind every reader, and
\* older than every row that is left.
Past ==
    \A c \in Captured : RowOf(c) \notin delta[TableOf[c]] =>
        /\ \A u \in Readers(TableOf[c]) : stamp[c] < cursor[u][TableOf[c]]
        /\ \A r \in delta[TableOf[c]] : stamp[c] < r.ts

\* The cursor of an incremental view is at most one microsecond past the newest
\* row of its table, if there is one.
Near(rows, at) == rows # {} => \E r \in rows : at <= r.ts + 1

Reached ==
    \A v \in Incremental : \A t \in Tables \intersect Sources[v] :
        Near(delta[t], cursor[v][t])

\* What a view over base tables counts, it counts once, of captured changes of
\* its tables that are behind its cursor.
OverTables(v) == Sources[v] \subseteq Tables

CountsOwn(v, counts) ==
    \A c \in Changes : /\ counts[c] <= 1
                       /\ counts[c] # 0 => c \in Captured /\ TableOf[c] \in Sources[v]

Once ==
    \A v \in Views : OverTables(v) =>
        /\ CountsOwn(v, mv[v])
        /\ \A c \in Changes : mv[v][c] # 0 => ~Waits(v, c)

\* What a refresh that has run its batch will commit about its base tables:
\* cursors past all that has been captured, a purge of the oldest rows, and for
\* an incremental view no cursor that moves back, nor one too far.
PassesAll(w, t) == \A c \in Captured : TableOf[c] = t => stamp[c] < eff[w].cur[t]

PurgesOldest(w, t) ==
    \A p \in eff[w].purge[t] : \A q \in delta[t] \ eff[w].purge[t] : p.ts < q.ts

Advances(w, t) ==
    on[w] \in Incremental =>
        /\ cursor[on[w]][t] <= eff[w].cur[t]
        /\ Near(delta[t] \ eff[w].purge[t], eff[w].cur[t])

Computed ==
    \A w \in Workers : pc[w] = "ran" =>
        /\ \A t \in Tables \intersect Sources[on[w]] :
              PassesAll(w, t) /\ PurgesOldest(w, t) /\ Advances(w, t)
        /\ OverTables(on[w]) => CountsOwn(on[w], eff[w].mv)

CInv == Capturing /\ Begun /\ Past /\ Reached /\ Once /\ Computed

-----------------------------------------------------------------------------
(* Lemmas *)

\* A row and its change have the same stamp; a captured change has one row.
LEMMA RowOfFields ==
    ASSUME NEW c \in Changes
    PROVE  RowOf(c).chg = c /\ RowOf(c).ts = stamp[c]
  BY DEF RowOf

\* A purge by the cursors of all readers takes the oldest rows of a table: a
\* row that is left is not behind some cursor, and every purged row is.
LEMMA ConsumedAreOldest ==
    ASSUME NEW n \in Nodes, delta[n] \in SUBSET Row,
           NEW cur, \A u \in Readers(n) : cur[u][n] \in Nat,
           NEW p \in Consumed(n, cur), NEW q \in delta[n] \ Consumed(n, cur)
    PROVE  p.ts < q.ts
<1>1. PICK u \in Readers(n) : ~(q.ts < cur[u][n])
  BY DEF Consumed
<1>2. p.ts < cur[u][n]
  BY <1>1 DEF Consumed
<1>3. p.ts \in Nat /\ q.ts \in Nat /\ cur[u][n] \in Nat
  BY <1>1 DEF Consumed, Row
<1> QED
  BY <1>1, <1>2, <1>3

\* The cursor computed from a delta table is one microsecond past a row of it,
\* or now() if there is none.
LEMMA NextCursorNear ==
    ASSUME NEW rows \in SUBSET Row, NEW now \in Nat, NEW N \in Nat,
           \A r \in rows : r.ts < N
    PROVE  /\ rows = {} => NextCursor(rows, now) = now
           /\ rows # {} => \E r \in rows : NextCursor(rows, now) = r.ts + 1
<1>1. CASE rows = {}
  BY <1>1 DEF NextCursor
<1>2. CASE rows # {}
  <2> DEFINE S == {r.ts : r \in rows}
             top == CHOOSE m \in S : \A r \in rows : r.ts <= m
  <2>1. S \in SUBSET Nat /\ S # {} /\ \A s \in S : s < N
    BY <1>2 DEF Row
  <2>2. \E m \in S : \A s \in S : s <= m
    <3> HIDE DEF S
    <3> QED  BY <2>1, MaxExists
  <2>3. \E m \in S : \A r \in rows : r.ts <= m
    BY <2>2
  <2>4. top \in S
    BY <2>3
  <2>5. NextCursor(rows, now) = 1 + top
    BY <1>2 DEF NextCursor
  <2>6. PICK r \in rows : top = r.ts
    BY <2>4
  <2>7. r.ts \in Nat
    BY DEF Row
  <2> HIDE DEF top, S
  <2>8. 1 + top = r.ts + 1
    BY <2>6, <2>7
  <2> QED
    BY <1>2, <2>5, <2>8
<1> QED
  BY <1>1, <1>2

-----------------------------------------------------------------------------
(* Steps that leave the tables and the cursors alone *)

\* Nothing is captured, read or computed yet.
LEMMA CInit == Init => CInv
<1> SUFFICES ASSUME Init PROVE CInv
  OBVIOUS
<1> USE NodesAssumption, BoundsAssumption
<1>1. Captured = {}
  BY DEF Init, Captured
<1>2. Capturing /\ Begun /\ Past
  BY <1>1 DEF Init, Capturing, Begun, Past
<1>3. Reached
  BY DEF Init, Reached, Near, Nodes
<1>4. Once /\ Computed
  BY DEF Init, Once, Computed, CountsOwn
<1> QED
  BY <1>2, <1>3, <1>4 DEF CInv

\* A step of a refresh that writes nothing, and after which no refresh stands
\* at its batch that did not before.
LEMMA QuietOK ==
    ASSUME CInv, UNCHANGED <<dataVars, storeVars>>,
           \A u \in Workers : pc'[u] \in {"begun", "ran"} =>
              /\ pc'[u] = pc[u] /\ on'[u] = on[u]
              /\ start'[u] = start[u] /\ eff'[u] = eff[u]
    PROVE  CInv'
<1> USE DEF dataVars, storeVars
<1>1. Captured' = Captured /\ \A c : RowOf(c)' = RowOf(c)
  BY DEF Captured, RowOf
<1>2. Capturing' /\ Begun' /\ Past'
  BY <1>1 DEF CInv, Capturing, Begun, Past, Readers
<1>3. Reached' /\ Once'
  BY <1>1 DEF CInv, Reached, Near, Once, CountsOwn, Waits, Incremental, OverTables
<1>4. Computed'
  BY <1>1 DEF CInv, Computed, PassesAll, PurgesOldest, Advances, Near, CountsOwn, OverTables
<1> QED
  BY <1>2, <1>3, <1>4 DEF CInv

\* The steps that touch neither delta rows, nor cursors, nor what a batch computed.
LEMMA CQuietSteps ==
    ASSUME IInv, CInv, NEW w \in Workers,
           \/ \E v \in Views : RequestRefresh(w, v)
           \/ LockView(w) \/ LockDelta(w) \/ Compile(w)
           \/ SkipRefresh(w) \/ ConflictRefresh(w) \/ FailRefresh(w)
    PROVE  CInv'
<1>1. pc \in [Workers -> Steps] /\ on \in [Workers -> Views \union {None}]
  BY DEF IInv, TypeOK
<1>2. CASE \E v \in Views : RequestRefresh(w, v)
  BY <1>1, <1>2, QuietOK DEF RequestRefresh
<1>3. CASE LockView(w)
  BY <1>1, <1>3, QuietOK DEF LockView
<1>4. CASE LockDelta(w)
  BY <1>1, <1>4, QuietOK DEF LockDelta, jobVars
<1>5. CASE Compile(w)
  BY <1>1, <1>5, QuietOK DEF Compile
<1>6. CASE SkipRefresh(w) \/ ConflictRefresh(w) \/ FailRefresh(w)
  <2>1. Release(w) /\ UNCHANGED <<dataVars, storeVars>>
    BY <1>6 DEF SkipRefresh, ConflictRefresh, FailRefresh
  <2>2. \A u \in Workers : pc'[u] \in {"begun", "ran"} =>
           /\ pc'[u] = pc[u] /\ on'[u] = on[u]
           /\ start'[u] = start[u] /\ eff'[u] = eff[u]
    BY <2>1 DEF Release, IInv, TypeOK
  <2> QED
    BY <2>1, <2>2, QuietOK
<1> QED
  BY <1>2, <1>3, <1>4, <1>5, <1>6

\* The timestamp that a transaction will give its rows is the clock's.
LEMMA CBeginTransaction ==
    ASSUME IInv, CInv, NEW w \in Workers, BeginTransaction(w)
    PROVE  CInv'
<1> USE DEF BeginTransaction, dataVars, storeVars, lockVars
<1>1. Captured' = Captured /\ \A c : RowOf(c)' = RowOf(c)
  BY DEF Captured, RowOf
<1>2. Capturing' /\ Past'
  BY <1>1 DEF CInv, Capturing, Past, Readers
<1>3. Reached' /\ Once'
  BY <1>1 DEF CInv, Reached, Near, Once, CountsOwn, Waits, Incremental, OverTables
<1>4. Begun'
  <2> SUFFICES ASSUME NEW u \in Workers, pc'[u] \in {"begun", "ran"},
                      NEW t \in Tables \intersect Sources[on[u]]
               PROVE  cursor[on[u]][t] <= start'[u]
    BY DEF Begun
  <2>1. CASE u = w
    <3>1. start'[w] = clock /\ on[w] \in Views
      BY DEF IInv, TypeOK, Locking
    <3> QED
      BY <2>1, <3>1 DEF IInv, Timing
  <2>2. CASE u # w
    BY <2>2 DEF CInv, Begun, IInv, TypeOK
  <2> QED
    BY <2>1, <2>2
<1>5. \A u \in Workers : pc'[u] = "ran" => pc[u] = "ran"
  BY DEF IInv, TypeOK
<1>6. Computed'
  BY <1>1, <1>5
     DEF CInv, Computed, PassesAll, PurgesOldest, Advances, Near, CountsOwn, OverTables
<1> QED
  BY <1>2, <1>3, <1>4, <1>6 DEF CInv
-----------------------------------------------------------------------------
(* The steps of DML *)

\* A row takes its time under the lock of its delta table, when no refresh reads it.
LEMMA CStartCapture ==
    ASSUME IInv, CInv, NEW x \in Sessions, NEW c \in Changes, StartCapture(x, c)
    PROVE  CInv'
<1> USE NodesAssumption, BoundsAssumption DEF StartCapture, storeVars, jobVars
<1> DEFINE t == TableOf[c]
<1>0. /\ t \in Tables /\ deltaLock[t] = None /\ stamp[c] = 0 /\ writing[x] = None
      /\ stamp' = [stamp EXCEPT ![c] = clock] /\ writing' = [writing EXCEPT ![x] = c]
  OBVIOUS
<1>a. TypeOK /\ Locking /\ Timing
  BY DEF IInv
<1>b. c \notin Captured
  BY <1>0 DEF Captured
<1>c. Captured' = Captured
  <2>1. c \notin Captured'
    BY <1>0, <1>a DEF Captured, TypeOK
  <2>2. \A d \in Changes : d # c => (d \in Captured' <=> d \in Captured)
    BY <1>0, <1>a DEF Captured, TypeOK
  <2> QED
    BY <1>b, <2>1, <2>2 DEF Captured
<1>d. \A d \in Captured : stamp'[d] = stamp[d] /\ RowOf(d)' = RowOf(d)
  BY <1>0, <1>a, <1>b DEF RowOf, TypeOK, Captured
<1>1. Capturing'
  <2>1. \A y \in Sessions : writing'[y] # None =>
           \A d \in Captured : TableOf[d] = TableOf[writing'[y]] => stamp'[d] < stamp'[writing'[y]]
    <3> SUFFICES ASSUME NEW y \in Sessions, writing'[y] # None, NEW d \in Captured,
                        TableOf[d] = TableOf[writing'[y]]
                 PROVE  stamp'[d] < stamp'[writing'[y]]
      OBVIOUS
    <3>1. CASE y = x
      <4>1. writing'[y] = c /\ stamp'[c] = clock
        BY <1>0, <1>a, <3>1 DEF TypeOK
      <4>2. stamp[d] < clock
        BY <1>a DEF Timing, Captured
      <4> QED
        BY <1>d, <4>1, <4>2
    <3>2. CASE y # x
      <4>1. writing'[y] = writing[y] /\ writing[y] \in Changes /\ stamp[writing[y]] # 0
        BY <1>0, <1>a, <3>2 DEF TypeOK, Timing
      <4>2. stamp'[writing[y]] = stamp[writing[y]]
        BY <1>0, <1>a, <4>1 DEF TypeOK
      <4> QED
        BY <1>d, <4>1, <4>2 DEF CInv, Capturing
    <3> QED
      BY <3>1, <3>2
  <2> QED
    BY <1>c, <2>1 DEF CInv, Capturing
<1>2. Begun'
  BY DEF CInv, Begun
<1>3. Past'
  BY <1>c, <1>d DEF CInv, Past, Readers
<1>4. Reached'
  BY DEF CInv, Reached, Near
<1>5. Once'
  BY <1>c, <1>d DEF CInv, Once, CountsOwn, Waits, OverTables
<1>6. Computed'
  BY <1>c, <1>d DEF CInv, Computed, PassesAll, PurgesOldest, Advances, Near, CountsOwn, OverTables
<1> QED
  BY <1>1, <1>2, <1>3, <1>4, <1>5, <1>6 DEF CInv

\* The row of the change is the newest of its table, and no reader is past it.
LEMMA CFinishCapture ==
    ASSUME IInv, CInv, NEW x \in Sessions, FinishCapture(x)
    PROVE  CInv'
<1> USE NodesAssumption, BoundsAssumption DEF FinishCapture, jobVars
<1> DEFINE c == writing[x]
           t == TableOf[c]
<1>a. TypeOK /\ Locking /\ Timing /\ Rows
  BY DEF IInv
<1>0. /\ c \in Changes /\ t \in Tables /\ t \in Nodes /\ deltaLock[t] = x /\ stamp[c] # 0
      /\ stamp' = stamp /\ writing' = [writing EXCEPT ![x] = None]
      /\ delta' = [delta EXCEPT ![t] = @ \union {RowOf(c)}]
      /\ \A d : RowOf(d)' = RowOf(d)
  BY <1>a DEF Nodes, TypeOK, Locking, Timing, RowOf
<1>b. \A w \in Workers : pc[w] \in {"begun", "ran"} => t \notin Sources[on[w]]
  BY <1>0, <1>a DEF Locking, Holding
<1>c. \A y \in Sessions : y # x /\ writing[y] # None => TableOf[writing[y]] # t
  BY <1>0, <1>a DEF Locking
<1>d. Captured' = Captured \union {c} /\ c \notin Captured
  BY <1>0, <1>a, <1>c DEF Captured, TypeOK
<1>e. /\ \A n \in Nodes : n # t => delta'[n] = delta[n]
      /\ delta'[t] = delta[t] \union {RowOf(c)}
  BY <1>0, <1>a DEF TypeOK
<1>f. RowOf(c).ts = stamp[c] /\ \A d \in Changes : d # c => RowOf(d) # RowOf(c)
  BY <1>0 DEF RowOf
<1>g. \A d \in Captured : TableOf[d] = t => stamp[d] < stamp[c]
  BY <1>0 DEF CInv, Capturing
<1>h. \A n \in Tables : n \in Nodes
  BY DEF Nodes
<1>1. Capturing'
  <2>1. tx' = [tx EXCEPT ![x] = @ \union {c}] /\ base' = base
    OBVIOUS
  <2>2. \A y \in Sessions : tx'[y] \subseteq Captured'
    BY <1>a, <1>d, <2>1 DEF CInv, Capturing, TypeOK
  <2>3. \A y \in Sessions : writing'[y] # None =>
           y # x /\ writing'[y] = writing[y] /\ TableOf[writing[y]] # t
    BY <1>0, <1>a, <1>c DEF TypeOK
  <2> QED
    BY <1>0, <1>d, <2>1, <2>2, <2>3 DEF CInv, Capturing
<1>2. Begun'
  BY DEF CInv, Begun
<1>3. Past'
  <2> SUFFICES ASSUME NEW d \in Captured', RowOf(d) \notin delta'[TableOf[d]]
               PROVE  /\ \A u \in Readers(TableOf[d]) : stamp[d] < cursor[u][TableOf[d]]
                      /\ \A r \in delta'[TableOf[d]] : stamp[d] < r.ts
    BY <1>0 DEF Past, Readers
  <2>1. d \in Captured /\ TableOf[d] \in Nodes /\ RowOf(d) \notin delta[TableOf[d]]
    BY <1>d, <1>e, <1>h DEF Captured
  <2> QED
    BY <1>e, <1>f, <1>g, <2>1 DEF CInv, Past
<1>4. Reached'
  <2> SUFFICES ASSUME NEW v \in Incremental, NEW n \in Tables \intersect Sources[v]
               PROVE  Near(delta'[n], cursor[v][n])
    BY DEF Reached, Near
  <2>1. CASE n = t
    <3>1. cursor[v][t] <= stamp[c]
      BY <1>0, <1>a, <2>1 DEF Timing, Readers, Incremental
    <3>2. cursor[v][t] \in Nat /\ stamp[c] \in Nat
      BY <1>0, <1>a DEF TypeOK, Incremental
    <3> QED
      BY <1>e, <1>f, <2>1, <3>1, <3>2 DEF Near
  <2>2. CASE n # t
    BY <1>e, <1>h, <2>2 DEF CInv, Reached, Near
  <2> QED
    BY <2>1, <2>2
<1>5. Once'
  <2> SUFFICES ASSUME NEW v \in Views, OverTables(v), NEW d \in Changes, mv[v][d] # 0
               PROVE  /\ d \in Captured' /\ TableOf[d] \in Sources[v]
                      /\ ~Waits(v, d)'
    BY DEF CInv, Once, CountsOwn, OverTables
  <2>1. d \in Captured /\ TableOf[d] \in Sources[v] /\ ~Waits(v, d)
    BY DEF CInv, Once, CountsOwn
  <2>2. d # c /\ TableOf[d] \in Nodes
    BY <1>d, <1>h, <2>1
  <2>3. RowOf(d) \in delta'[TableOf[d]] => RowOf(d) \in delta[TableOf[d]]
    BY <1>e, <1>f, <2>2
  <2> QED
    BY <1>0, <1>d, <2>1, <2>3 DEF Waits
<1>6. Computed'
  <2> SUFFICES ASSUME NEW w \in Workers, pc[w] = "ran"
               PROVE  /\ \A n \in Tables \intersect Sources[on[w]] :
                            (PassesAll(w, n) /\ PurgesOldest(w, n) /\ Advances(w, n))'
                      /\ OverTables(on[w]) => CountsOwn(on[w], eff[w].mv)'
    BY DEF Computed, OverTables
  <2>1. t \notin Sources[on[w]]
    BY <1>b
  <2>2. ASSUME NEW n \in Tables \intersect Sources[on[w]]
        PROVE  (PassesAll(w, n) /\ PurgesOldest(w, n) /\ Advances(w, n))'
    <3>1. n # t /\ delta'[n] = delta[n]
      BY <1>e, <1>h, <2>1
    <3>2. PassesAll(w, n) /\ PurgesOldest(w, n) /\ Advances(w, n)
      BY DEF CInv, Computed
    <3>3. PassesAll(w, n)'
      BY <1>d, <3>1, <3>2 DEF PassesAll
    <3> QED
      BY <3>1, <3>2, <3>3 DEF PurgesOldest, Advances, Near
  <2>3. OverTables(on[w]) => CountsOwn(on[w], eff[w].mv)'
    BY <1>d DEF CInv, Computed, CountsOwn
  <2> QED
    BY <2>2, <2>3
<1> QED
  BY <1>1, <1>2, <1>3, <1>4, <1>5, <1>6 DEF CInv

\* Committed or rolled back, a transaction leaves the rows it has captured.
LEMMA CEndDml ==
    ASSUME IInv, CInv, NEW x \in Sessions, CommitDml(x) \/ RollbackDml(x)
    PROVE  CInv'
<1> USE DEF CommitDml, RollbackDml, storeVars, lockVars, jobVars
<1>1. Captured' = Captured /\ \A c : RowOf(c)' = RowOf(c)
  BY DEF Captured, RowOf
<1>2. Capturing'
  <2>1. tx \in [Sessions -> SUBSET Changes]
    BY DEF IInv, TypeOK
  <2> QED
    BY <1>1, <2>1 DEF CInv, Capturing
<1>3. Begun' /\ Past'
  BY <1>1 DEF CInv, Begun, Past, Readers
<1>4. Reached' /\ Once'
  BY <1>1 DEF CInv, Reached, Near, Once, CountsOwn, Waits, OverTables
<1>5. Computed'
  BY <1>1 DEF CInv, Computed, PassesAll, PurgesOldest, Advances, Near, CountsOwn, OverTables
<1> QED
  BY <1>2, <1>3, <1>4, <1>5 DEF CInv
-----------------------------------------------------------------------------
(* The batch *)

\* The cursor that an incremental refresh computes for a base table, from what
\* its purge leaves there.
LEMMA IncrementalCursor ==
    ASSUME IInv, CInv, NEW w \in Workers, pc[w] = "begun",
           NEW t \in Tables \intersect Sources[on[w]]
    PROVE  LET E == IncrementalEffect(w)
               left == delta[t] \ E.purge[t]
           IN  /\ \A c \in Captured : TableOf[c] = t => stamp[c] < E.cur[t]
               /\ \A p \in E.purge[t] : \A q \in left : p.ts < q.ts
               /\ on[w] \in Incremental => cursor[on[w]][t] <= E.cur[t]
               /\ Near(left, E.cur[t])
<1> USE NodesAssumption
<1> DEFINE v    == on[w]
           left == delta[t] \ Consumed(t, cursor)
           next == NextCursor(left, start[w])
<1>a. TypeOK /\ Locking /\ Timing /\ Rows
  BY DEF IInv
<1>1. /\ v \in Views /\ t \in Nodes /\ start[w] \in Nat /\ clock \in Nat /\ start[w] < clock
      /\ cursor[v][t] \in Nat /\ delta[t] \in SUBSET Row
  BY <1>a DEF Locking, Timing, TypeOK, Nodes
<1>2. /\ IncrementalEffect(w).purge[t] = Consumed(t, cursor)
      /\ IncrementalEffect(w).cur[t] = next
  BY <1>1 DEF IncrementalEffect
<1>3. left \in SUBSET Row /\ \A r \in left : r.ts < clock /\ r.ts \in Nat
  BY <1>1, <1>a DEF Timing, Row
<1>4. next \in Nat /\ \A r \in left : r.ts < next
  <2> HIDE DEF left
  <2> QED
    BY <1>1, <1>3, NextCursorBounds
<1>5. (left = {} => next = start[w]) /\ (left # {} => \E r \in left : next = r.ts + 1)
  <2> HIDE DEF left
  <2> QED
    BY <1>1, <1>3, NextCursorNear
<1>6. \A p \in Consumed(t, cursor) : \A q \in left : p.ts < q.ts
  <2>1. \A u \in Readers(t) : cursor[u][t] \in Nat
    BY <1>1, <1>a DEF TypeOK, Readers
  <2> QED
    BY <1>1, <2>1, ConsumedAreOldest
<1> HIDE DEF left, next
<1>7. ASSUME NEW c \in Captured, TableOf[c] = t
      PROVE  stamp[c] < next
  <2>0. c \in Changes /\ stamp[c] \in Nat /\ RowOf(c).ts = stamp[c]
    BY <1>a DEF Captured, TypeOK, RowOf
  <2>1. CASE RowOf(c) \in left
    BY <1>4, <2>0, <2>1
  <2>2. CASE left = {}
    BY <1>5, <1>7, <1>a, <2>0, <2>2 DEF Timing
  <2>3. CASE RowOf(c) \notin left /\ left # {}
    <3>1. PICK r \in left : TRUE
      BY <2>3
    <3>2. r \in delta[t] /\ r.ts \in Nat /\ r.ts < next
      BY <1>3, <1>4 DEF left
    <3>3. stamp[c] < r.ts
      <4>1. CASE RowOf(c) \in delta[t]
        <5>1. RowOf(c) \in Consumed(t, cursor)
          BY <2>3, <4>1 DEF left
        <5> QED
          BY <1>6, <2>0, <5>1
      <4>2. CASE RowOf(c) \notin delta[t]
        BY <1>7, <3>2, <4>2 DEF CInv, Past
      <4> QED
        BY <4>1, <4>2
    <3> QED
      BY <1>4, <2>0, <3>2, <3>3
  <2> QED
    BY <2>1, <2>2, <2>3
<1>8. ASSUME v \in Incremental
      PROVE  cursor[v][t] <= next
  <2>1. CASE left = {}
    BY <1>5, <2>1 DEF CInv, Begun
  <2>2. CASE left # {}
    <3>1. PICK r \in delta[t] : cursor[v][t] <= r.ts + 1
      BY <1>8, <2>2 DEF CInv, Reached, Near, left
    <3>2. r.ts \in Nat
      BY <1>1 DEF Row
    <3>3. CASE r \in left
      <4>1. r.ts + 1 <= next
        BY <1>4, <3>2, <3>3
      <4> QED
        BY <1>1, <1>4, <3>1, <3>2, <4>1
    <3>4. CASE r \notin left
      <4>1. PICK q \in left : TRUE
        BY <2>2
      <4>2. r.ts < q.ts /\ q.ts < next /\ q.ts \in Nat
        BY <1>3, <1>4, <1>6, <3>4 DEF left
      <4> QED
        BY <1>1, <1>4, <3>1, <3>2, <4>2
    <3> QED
      BY <3>3, <3>4
  <2> QED
    BY <2>1, <2>2
<1>9. Near(left, next)
  BY <1>3, <1>4, <1>5 DEF Near
<1> QED
  BY <1>2, <1>6, <1>7, <1>8, <1>9 DEF left

\* A recompute sets its cursors to now(): everything that has been captured of
\* its sources was captured before.
LEMMA FullCursor ==
    ASSUME IInv, NEW w \in Workers, pc[w] = "begun",
           NEW t \in Tables \intersect Sources[on[w]]
    PROVE  LET E == FullEffect(w)
           IN  /\ \A c \in Captured : TableOf[c] = t => stamp[c] < E.cur[t]
               /\ \A p \in E.purge[t] : \A q \in delta[t] \ E.purge[t] : p.ts < q.ts
<1> USE NodesAssumption
<1> DEFINE v   == on[w]
           cur == [cursor EXCEPT ![v] = [n \in Nodes |-> IF n \in Sources[v]
                                                         THEN start[w] ELSE @[n]]]
<1>a. TypeOK /\ Locking /\ Timing
  BY DEF IInv
<1>1. v \in Views /\ t \in Nodes /\ start[w] \in Nat /\ delta[t] \in SUBSET Row
  BY <1>a DEF Locking, TypeOK, Nodes
<1>2. cur \in [Views -> [Nodes -> Nat]] /\ cur[v][t] = start[w]
  BY <1>1, <1>a DEF TypeOK
<1>3. FullEffect(w).purge[t] = Consumed(t, cur) /\ FullEffect(w).cur[t] = start[w]
  BY <1>1, <1>2 DEF FullEffect
<1> HIDE DEF cur
<1>4. \A p \in Consumed(t, cur) : \A q \in delta[t] \ Consumed(t, cur) : p.ts < q.ts
  <2>1. \A u \in Readers(t) : cur[u][t] \in Nat
    BY <1>1, <1>2 DEF Readers
  <2> QED
    BY <1>1, <2>1, ConsumedAreOldest
<1>5. \A c \in Captured : TableOf[c] = t => stamp[c] < start[w]
  BY <1>a DEF Timing, Captured
<1> QED
  BY <1>3, <1>4, <1>5
\* Over base tables, an incremental refresh adds the changes that wait, which
\* the view has not counted; a recompute counts the committed ones.
LEMMA IncrementalCounts ==
    ASSUME IInv, CInv, NEW w \in Workers, pc[w] = "begun", OverTables(on[w])
    PROVE  CountsOwn(on[w], IncrementalEffect(w).mv)
<1> USE NodesAssumption
<1> DEFINE v == on[w]
<1>a. TypeOK /\ Locking /\ Rows /\ Scanning
  BY DEF IInv
<1>1. v \in Views /\ v \in Nodes
  BY <1>a DEF Locking, Nodes
<1> SUFFICES ASSUME NEW c \in Changes
             PROVE  LET n == IncrementalEffect(w).mv[c]
                    IN  n <= 1 /\ (n # 0 => c \in Captured /\ TableOf[c] \in Sources[v])
  BY DEF CountsOwn
<1> DEFINE rows == {r \in Emitted(w) : r.chg = c}
<1>2. IncrementalEffect(w).mv[c] = mv[v][c] + Cardinality(rows)
  <2>1. IncrementalEffect(w).mv[c] = mv[v][c]
           + Cardinality({r \in Unapplied(v, delta[v] \union Emitted(w)) : r.chg = c})
    BY DEF IncrementalEffect
  <2> QED
    BY <2>1, UnappliedAreEmitted
<1>3. mv[v][c] \in Nat /\ mv[v][c] <= 1
  BY <1>1, <1>a DEF TypeOK, CInv, Once, CountsOwn
<1>4. CASE TableOf[c] \in Sources[v]
  <2>1. rows = IF Waits(v, c) THEN {[chg |-> c, ts |-> start[w], was |-> stamp[c]]} ELSE {}
    BY <1>4, EmittedOnce
  <2>2. Cardinality(rows) = IF Waits(v, c) THEN 1 ELSE 0
    <3> DEFINE e == [chg |-> c, ts |-> start[w], was |-> stamp[c]]
    <3> HIDE DEF e, rows
    <3> QED
      BY <2>1, FS_EmptySet, FS_Singleton DEF e
  <2>3. Waits(v, c) => c \in Captured
    BY <1>a, RowOfFields DEF Waits, Rows
  <2>4. mv[v][c] # 0 => c \in Captured /\ ~Waits(v, c)
    BY <1>1 DEF CInv, Once, CountsOwn
  <2> HIDE DEF rows
  <2> QED
    BY <1>2, <1>3, <1>4, <2>2, <2>3, <2>4
<1>5. CASE TableOf[c] \notin Sources[v]
  <2>1. rows = {}
    <3> SUFFICES ASSUME NEW e \in Emitted(w) PROVE e.chg # c
      OBVIOUS
    <3> DEFINE scanned == IF v \in Pruned THEN active[w] ELSE Sources[v]
    <3>1. scanned \subseteq Sources[v]
      BY <1>a DEF Scanning
    <3>2. Emitted(w) = {[chg |-> r.chg, ts |-> start[w], was |-> r.ts] :
                          r \in UNION {Fresh(v, s) : s \in scanned}}
      BY DEF Emitted
    <3> HIDE DEF scanned
    <3>3. PICK s \in scanned : \E r \in Fresh(v, s) : e.chg = r.chg
      BY <3>2
    <3>4. PICK r \in delta[s] : e.chg = r.chg
      BY <3>3 DEF Fresh
    <3>5. s \in Tables /\ s \in Nodes /\ s \in Sources[v]
      BY <3>1 DEF OverTables, Nodes
    <3>6. TableOf[r.chg] = s
      BY <1>a, <3>5, OriginAssumption DEF Rows
    <3> QED
      BY <1>5, <3>4, <3>5, <3>6
  <2>2. mv[v][c] = 0
    BY <1>1, <1>5 DEF CInv, Once, CountsOwn
  <2> HIDE DEF rows
  <2> QED
    BY <1>2, <2>1, <2>2, FS_EmptySet
<1> QED
  BY <1>4, <1>5

\* A recompute over base tables counts a captured change once, and no other.
LEMMA FullCounts ==
    ASSUME IInv, CInv, NEW w \in Workers, pc[w] = "begun", OverTables(on[w])
    PROVE  CountsOwn(on[w], FullEffect(w).mv)
<1> USE NodesAssumption
<1> DEFINE v == on[w]
<1>1. v \in Views /\ FullEffect(w).mv = Recomputed(v)
  BY DEF IInv, Locking, FullEffect
<1> SUFFICES ASSUME NEW c \in Changes
             PROVE  LET n == Recomputed(v)[c]
                    IN  n <= 1 /\ (n # 0 => c \in Captured /\ TableOf[c] \in Sources[v])
  BY <1>1 DEF CountsOwn
<1>2. CASE \E s \in Sources[v] : TableOf[c] \in Origin[s]
  <2> DEFINE s == CHOOSE n \in Sources[v] : TableOf[c] \in Origin[n]
  <2>1. s \in Sources[v] /\ TableOf[c] \in Origin[s]
    BY <1>2
  <2>2. Recomputed(v)[c] = Shows(s, c)
    BY <1>2 DEF Recomputed
  <2> HIDE DEF s
  <2>3. s \in Tables /\ s \notin Views /\ TableOf[c] = s
    BY <2>1, OriginAssumption DEF OverTables
  <2>4. Recomputed(v)[c] = IF c \in base THEN 1 ELSE 0
    BY <2>2, <2>3 DEF Shows
  <2> QED
    BY <2>1, <2>3, <2>4 DEF CInv, Capturing
<1>3. CASE ~\E s \in Sources[v] : TableOf[c] \in Origin[s]
  BY <1>3 DEF Recomputed
<1> QED
  BY <1>2, <1>3

\* What a batch computes, whichever way the refresh was compiled.
LEMMA BatchComputes ==
    ASSUME IInv, CInv, NEW w \in Workers, pc[w] = "begun", NEW E,
           E = IF full[w] THEN FullEffect(w) ELSE IncrementalEffect(w)
    PROVE  /\ \A t \in Tables \intersect Sources[on[w]] :
                 /\ \A c \in Captured : TableOf[c] = t => stamp[c] < E.cur[t]
                 /\ \A p \in E.purge[t] : \A q \in delta[t] \ E.purge[t] : p.ts < q.ts
                 /\ on[w] \in Incremental => /\ cursor[on[w]][t] <= E.cur[t]
                                             /\ Near(delta[t] \ E.purge[t], E.cur[t])
           /\ OverTables(on[w]) => CountsOwn(on[w], E.mv)
<1>1. CASE full[w]
  <2>1. E = FullEffect(w) /\ on[w] \notin Incremental
    BY <1>1 DEF IInv, Locking
  <2> QED
    BY <2>1, FullCursor, FullCounts
<1>2. CASE ~full[w]
  <2>1. E = IncrementalEffect(w)
    BY <1>2
  <2> QED
    BY <2>1, IncrementalCursor, IncrementalCounts
<1> QED
  BY <1>1, <1>2

\* A batch sees the rows between its cursors and its own time, or all of them.
LEMMA CRunBatch ==
    ASSUME IInv, CInv, NEW w \in Workers, RunBatch(w)
    PROVE  CInv'
<1> USE DEF RunBatch, dataVars, storeVars, lockVars
<1> DEFINE E == IF full[w] THEN FullEffect(w) ELSE IncrementalEffect(w)
<1>0. /\ pc[w] = "begun" /\ pc' = [pc EXCEPT ![w] = "ran"] /\ TypeOK
      /\ eff' = [eff EXCEPT ![w] = E]
  BY DEF IInv
<1>1. Captured' = Captured /\ \A c : RowOf(c)' = RowOf(c)
  BY DEF Captured, RowOf
<1>2. Capturing' /\ Past'
  BY <1>1 DEF CInv, Capturing, Past, Readers
<1>3. Reached' /\ Once'
  BY <1>1 DEF CInv, Reached, Near, Once, CountsOwn, Waits, OverTables
<1>4. Begun'
  BY <1>0 DEF CInv, Begun, TypeOK
<1>5. /\ eff'[w] = E
      /\ \A u \in Workers : u # w => pc'[u] = pc[u] /\ eff'[u] = eff[u]
  <2> HIDE DEF E
  <2> QED
    BY <1>0 DEF TypeOK
<1>6. Computed'
  <2> SUFFICES ASSUME NEW u \in Workers, pc'[u] = "ran"
               PROVE  /\ \A t \in Tables \intersect Sources[on[u]] :
                            (PassesAll(u, t) /\ PurgesOldest(u, t) /\ Advances(u, t))'
                      /\ OverTables(on[u]) => CountsOwn(on[u], eff[u].mv)'
    BY DEF Computed, OverTables
  <2>1. CASE u # w
    BY <1>1, <1>5, <2>1
       DEF CInv, Computed, PassesAll, PurgesOldest, Advances, Near, CountsOwn
  <2>2. CASE u = w
    <3>1. /\ \A t \in Tables \intersect Sources[on[w]] :
                /\ \A c \in Captured : TableOf[c] = t => stamp[c] < E.cur[t]
                /\ \A p \in E.purge[t] : \A q \in delta[t] \ E.purge[t] : p.ts < q.ts
                /\ on[w] \in Incremental => /\ cursor[on[w]][t] <= E.cur[t]
                                            /\ Near(delta[t] \ E.purge[t], E.cur[t])
          /\ OverTables(on[w]) => CountsOwn(on[w], E.mv)
      BY <1>0, BatchComputes
    <3> HIDE DEF E
    <3>2. \A t \in Tables \intersect Sources[on[w]] :
             (PassesAll(w, t) /\ PurgesOldest(w, t) /\ Advances(w, t))'
      BY <1>1, <1>5, <3>1 DEF PassesAll, PurgesOldest, Advances, Near
    <3>3. OverTables(on[w]) => CountsOwn(on[w], eff[w].mv)'
      BY <1>1, <1>5, <3>1 DEF CountsOwn
    <3> QED
      BY <2>2, <3>2, <3>3
  <2> QED
    BY <2>1, <2>2
<1> QED
  BY <1>2, <1>3, <1>4, <1>6 DEF CInv
-----------------------------------------------------------------------------
(* Committing a batch *)

\* The cursors move past what the batch has read, in the transaction that counts it.
LEMMA CCommitRefresh ==
    ASSUME IInv, CInv, NEW w \in Workers, CommitRefresh(w)
    PROVE  CInv'
<1> USE BoundsAssumption, NodesAssumption DEF dataVars
<1> DEFINE v == on[w]
<1>z. TypeOK /\ Locking /\ Batch
  BY DEF IInv
<1>0. /\ v \in Views /\ v \in Nodes /\ v \notin Tables /\ pc[w] = "ran"
      /\ SparesOthers(w) /\ eff[w] \in Effect
      /\ \A t \in Tables \intersect Sources[v] :
            PassesAll(w, t) /\ PurgesOldest(w, t) /\ Advances(w, t)
      /\ OverTables(v) => CountsOwn(v, eff[w].mv)
  BY <1>z DEF CommitRefresh, Locking, Nodes, Batch, TypeOK, CInv, Computed
<1>a. /\ mv' = [mv EXCEPT ![v] = eff[w].mv]
      /\ cursor' = [cursor EXCEPT ![v] = eff[w].cur]
      /\ delta' = [n \in Nodes |-> (delta[n] \ eff[w].purge[n])
                                  \union (IF n = v THEN eff[w].out ELSE {})]
      /\ Release(w)
      /\ UNCHANGED <<clock, base, writing, tx, stamp, aborts>>
  BY DEF CommitRefresh
<1>b. /\ \A u \in Workers : u # w =>
            /\ pc'[u] = pc[u] /\ on'[u] = on[u]
            /\ start'[u] = start[u] /\ eff'[u] = eff[u]
      /\ pc'[w] = "idle"
  BY <1>a, <1>z DEF Release, TypeOK
<1>c. /\ \A u \in Views : u # v => mv'[u] = mv[u] /\ cursor'[u] = cursor[u]
      /\ mv'[v] = eff[w].mv /\ cursor'[v] = eff[w].cur
  BY <1>0, <1>a, <1>z DEF TypeOK
<1>d. \A u \in Workers : u # w /\ pc[u] \in Holding =>
          on[u] \in Views /\ on[u] # v /\ Sources[on[u]] \intersect Sources[v] = {}
  BY <1>0, <1>z DEF Locking, Holding
<1>f. \A t \in Tables : t \in Nodes /\ delta'[t] = delta[t] \ eff[w].purge[t]
  BY <1>0, <1>a DEF Nodes
<1>g. \A t \in Tables \ Sources[v] : delta'[t] = delta[t]
  <2>1. \A t \in Tables \ Sources[v] : eff[w].purge[t] = {}
    BY <1>0 DEF SparesOthers
  <2> QED
    BY <1>f, <2>1
<1>h. /\ Captured' = Captured /\ \A c : RowOf(c)' = RowOf(c)
      /\ stamp' = stamp /\ stamp \in [Changes -> Nat]
      /\ \A c \in Captured : c \in Changes /\ TableOf[c] \in Tables
  BY <1>a, <1>z DEF Captured, RowOf, TypeOK
<1>i. \A t \in Tables : \A r \in delta[t] : r.ts \in Nat
  BY <1>f, <1>z DEF TypeOK, Row
<1>j. \A u \in Views : \A t \in Tables : cursor[u][t] \in Nat
  BY <1>f, <1>z DEF TypeOK
<1>1. Capturing'
  BY <1>a, <1>h DEF CInv, Capturing
<1>2. Begun'
  BY <1>b, <1>c, <1>d DEF CInv, Begun, Holding
<1>3. Past'
  <2> SUFFICES ASSUME NEW c \in Captured, RowOf(c) \notin delta'[TableOf[c]]
               PROVE  /\ \A u \in Readers(TableOf[c]) : stamp[c] < cursor'[u][TableOf[c]]
                      /\ \A r \in delta'[TableOf[c]] : stamp[c] < r.ts
    BY <1>h DEF Past, Readers
  <2> DEFINE t == TableOf[c]
  <2>0. t \in Tables /\ c \in Changes /\ RowOf(c).ts = stamp[c]
    BY <1>h, RowOfFields
  <2>1. CASE t \notin Sources[v]
    <3>1. delta'[t] = delta[t] /\ \A u \in Readers(t) : u \in Views /\ u # v
      BY <1>g, <2>0, <2>1 DEF Readers
    <3> QED
      BY <1>c, <3>1 DEF CInv, Past
  <2>2. CASE t \in Sources[v]
    <3>1. stamp[c] < eff[w].cur[t]
      BY <1>0, <2>0, <2>2 DEF PassesAll
    <3>2. CASE RowOf(c) \notin delta[t]
      <4>1. /\ \A u \in Readers(t) : stamp[c] < cursor[u][t]
            /\ \A r \in delta[t] : stamp[c] < r.ts
        BY <3>2 DEF CInv, Past
      <4> QED
        BY <1>c, <1>f, <2>0, <3>1, <4>1 DEF Readers
    <3>3. CASE RowOf(c) \in delta[t]
      <4>1. RowOf(c) \in eff[w].purge[t]
        BY <1>f, <2>0, <3>3
      <4>2. \A u \in Readers(t) : u # v => stamp[c] < cursor[u][t]
        BY <1>0, <2>0, <2>2, <4>1 DEF SparesOthers
      <4>3. \A r \in delta'[t] : stamp[c] < r.ts
        BY <1>0, <1>f, <2>0, <2>2, <4>1 DEF PurgesOldest
      <4> QED
        BY <1>c, <3>1, <4>2, <4>3 DEF Readers
    <3> QED
      BY <3>2, <3>3
  <2> QED
    BY <2>1, <2>2
<1>4. Reached'
  <2> SUFFICES ASSUME NEW k \in Incremental, NEW t \in Tables \intersect Sources[k]
               PROVE  Near(delta'[t], cursor'[k][t])
    BY DEF Reached, Near
  <2>0. k \in Views /\ t \in Tables /\ Near(delta[t], cursor[k][t])
    BY DEF Incremental, CInv, Reached
  <2>1. CASE k = v
    BY <1>0, <1>c, <1>f, <2>0, <2>1 DEF Advances, Near
  <2>2. CASE k # v /\ t \notin Sources[v]
    BY <1>c, <1>g, <2>0, <2>2
  <2>3. CASE k # v /\ t \in Sources[v]
    <3> SUFFICES ASSUME NEW q \in delta'[t]
                 PROVE  \E r \in delta'[t] : cursor[k][t] <= r.ts + 1
      BY <1>c, <2>0, <2>3 DEF Near
    <3>1. PICK r \in delta[t] : cursor[k][t] <= r.ts + 1
      BY <1>f, <2>0 DEF Near
    <3>2. CASE r \in delta'[t]
      BY <3>1, <3>2
    <3>3. CASE r \notin delta'[t]
      <4>1. r.ts < q.ts
        BY <1>0, <1>f, <2>0, <2>3, <3>3 DEF PurgesOldest
      <4>2. r.ts \in Nat /\ q.ts \in Nat /\ cursor[k][t] \in Nat
        BY <1>f, <1>i, <1>j, <2>0
      <4>3. cursor[k][t] <= q.ts + 1
        BY <3>1, <4>1, <4>2
      <4> QED
        BY <4>3
    <3> QED
      BY <3>2, <3>3
  <2> QED
    BY <2>1, <2>2, <2>3
<1>5. Once'
  <2> SUFFICES ASSUME NEW k \in Views, OverTables(k)
               PROVE  /\ CountsOwn(k, mv'[k])
                      /\ \A c \in Changes : mv'[k][c] # 0 => ~Waits(k, c)'
    BY <1>h DEF Once, OverTables, CountsOwn
  <2>1. CASE k = v
    <3>1. CountsOwn(k, mv'[k])
      BY <1>0, <1>c, <2>1
    <3>2. ASSUME NEW c \in Changes, mv'[k][c] # 0
          PROVE  ~Waits(k, c)'
      <4>1. c \in Captured /\ TableOf[c] \in Sources[k] /\ TableOf[c] \in Tables
        BY <1>h, <3>1, <3>2 DEF CountsOwn
      <4>2. stamp[c] < cursor'[k][TableOf[c]] /\ stamp[c] \in Nat
        BY <1>0, <1>c, <1>h, <2>1, <4>1 DEF PassesAll
      <4>3. cursor'[k][TableOf[c]] \in Nat
        BY <1>0, <1>c, <1>f, <2>1, <4>1 DEF Effect
      <4> QED
        BY <1>h, <4>2, <4>3 DEF Waits
    <3> QED
      BY <2>1, <3>1, <3>2
  <2>2. CASE k # v
    <3>1. mv'[k] = mv[k] /\ cursor'[k] = cursor[k]
      BY <1>c, <2>2
    <3>2. ASSUME NEW c \in Changes, Waits(k, c)'
          PROVE  Waits(k, c)
      BY <1>f, <1>h, <3>1, <3>2 DEF Waits
    <3> QED
      BY <3>1, <3>2 DEF CInv, Once
  <2> QED
    BY <2>1, <2>2
<1>6. Computed'
  <2> SUFFICES ASSUME NEW u \in Workers, pc'[u] = "ran"
               PROVE  /\ \A t \in Tables \intersect Sources[on'[u]] :
                            (PassesAll(u, t) /\ PurgesOldest(u, t) /\ Advances(u, t))'
                      /\ OverTables(on'[u]) => CountsOwn(on[u], eff[u].mv)'
    BY DEF Computed, OverTables
  <2>1. /\ u # w /\ pc[u] = "ran" /\ on'[u] = on[u] /\ eff'[u] = eff[u]
        /\ on[u] \in Views /\ on[u] # v /\ Sources[on[u]] \intersect Sources[v] = {}
    BY <1>b, <1>d DEF Holding
  <2>2. cursor'[on[u]] = cursor[on[u]]
    BY <1>c, <2>1
  <2>3. ASSUME NEW t \in Tables \intersect Sources[on[u]]
        PROVE  (PassesAll(u, t) /\ PurgesOldest(u, t) /\ Advances(u, t))'
    <3>1. delta'[t] = delta[t]
      BY <1>g, <2>1
    <3>2. PassesAll(u, t) /\ PurgesOldest(u, t) /\ Advances(u, t)
      BY <2>1 DEF CInv, Computed
    <3> QED
      BY <1>h, <2>1, <2>2, <3>1, <3>2 DEF PassesAll, PurgesOldest, Advances, Near
  <2>4. OverTables(on[u]) => CountsOwn(on[u], eff[u].mv)'
    BY <1>h, <2>1 DEF CInv, Computed, CountsOwn
  <2> QED
    BY <2>1, <2>3, <2>4
<1> QED
  BY <1>1, <1>2, <1>3, <1>4, <1>5, <1>6 DEF CInv

-----------------------------------------------------------------------------
(* The theorems *)

\* Every step keeps the invariant.
LEMMA CNext == IInv /\ CInv /\ [Next]_vars => CInv'
<1> SUFFICES ASSUME IInv, CInv, [Next]_vars PROVE CInv'
  OBVIOUS
<1>1. ASSUME NEW x \in Sessions, Dml(x) PROVE CInv'
  BY <1>1, CStartCapture, CFinishCapture, CEndDml DEF Dml
<1>2. ASSUME NEW w \in Workers, NEW v \in Views, RequestRefresh(w, v) PROVE CInv'
  BY <1>2, CQuietSteps
<1>3. ASSUME NEW w \in Workers, Refresh(w) PROVE CInv'
  BY <1>3, CQuietSteps, CBeginTransaction, CRunBatch, CCommitRefresh DEF Refresh
<1>4. CASE UNCHANGED vars
  BY <1>4, QuietOK DEF vars, jobVars
<1> QED
  BY <1>1, <1>2, <1>3, <1>4 DEF Next

\* The strengthening, with the one of BaseFlow, holds in every reachable state.
THEOREM CursorsInductive == Spec => [](IInv /\ CInv)
<1>1. Init => IInv /\ CInv
  BY InitOK, CInit
<1>2. IInv /\ CInv /\ [Next]_vars => (IInv /\ CInv)'
  BY NextOK, CNext
<1> QED
  BY <1>1, <1>2, PTL DEF Spec

\* A row of a base table's delta table is purged only when the cursors of all
\* readers are past it, of views that are recomputed and of views that apply
\* deltas: for any number of readers, of refreshes and of writers.
THEOREM UnreadIsKeptHolds == Spec => []UnreadIsKept
<1>1. IInv /\ CInv => UnreadIsKept
  <2> SUFFICES ASSUME IInv, CInv, NEW v \in Views, NEW c \in Captured,
                      TableOf[c] \in Sources[v], stamp[c] >= cursor[v][TableOf[c]]
               PROVE  \E r \in delta[TableOf[c]] : r.chg = c
    BY DEF UnreadIsKept
  <2>1. /\ c \in Changes /\ v \in Readers(TableOf[c]) /\ stamp[c] \in Nat
        /\ TableOf[c] \in Nodes /\ cursor[v][TableOf[c]] \in Nat
    BY NodesAssumption DEF Captured, Readers, Nodes, IInv, TypeOK
  <2>2. RowOf(c) \in delta[TableOf[c]]
    BY <2>1 DEF CInv, Past
  <2> QED
    BY <2>1, <2>2, RowOfFields
<1> QED
  BY <1>1, CursorsInductive, PTL

\* A view over base tables counts no change twice, however recomputes, which
\* read the tables, alternate with incremental refreshes, which read the delta
\* tables, and wherever in between a captured transaction commits.
THEOREM NeverTwiceHolds == Spec => []NeverTwice
<1>1. CInv => NeverTwice
  BY DEF CInv, Once, CountsOwn, OverTables, NeverTwice
<1> QED
  BY <1>1, CursorsInductive, PTL

\* No step moves the cursor of an incremental view on a base table back.
THEOREM CursorsAdvanceHolds == Spec => CursorsAdvance
<1> DEFINE Forward == \A v \in Incremental : \A t \in Tables : cursor'[v][t] >= cursor[v][t]
<1>1. IInv /\ CInv /\ [Next]_vars => Forward
  <2> SUFFICES ASSUME IInv, CInv, [Next]_vars, NEW v \in Incremental, NEW t \in Tables
               PROVE  cursor'[v][t] >= cursor[v][t]
    OBVIOUS
  <2>0. v \in Views /\ t \in Nodes /\ cursor[v][t] \in Nat
        /\ cursor \in [Views -> [Nodes -> Nat]]
    BY DEF Incremental, Nodes, IInv, TypeOK
  <2>1. CASE UNCHANGED cursor
    BY <2>0, <2>1
  <2>2. ASSUME NEW w \in Workers, CommitRefresh(w)
        PROVE  cursor'[v][t] >= cursor[v][t]
    <3>1. pc[w] = "ran" /\ cursor' = [cursor EXCEPT ![on[w]] = eff[w].cur]
      BY <2>2 DEF CommitRefresh
    <3>2. CASE v # on[w]
      BY <2>0, <3>1, <3>2
    <3>3. CASE v = on[w]
      <4>1. cursor'[v][t] = eff[w].cur[t] /\ eff[w].cur[t] \in Nat
        BY <2>0, <3>1, <3>3 DEF IInv, TypeOK, Effect
      <4>2. CASE t \in Sources[v]
        BY <2>0, <3>1, <3>3, <4>1, <4>2 DEF CInv, Computed, Advances
      <4>3. CASE t \notin Sources[v]
        BY <2>0, <3>1, <3>3, <4>1, <4>3 DEF IInv, Batch, SparesOthers
      <4> QED
        BY <4>2, <4>3
    <3> QED
      BY <3>2, <3>3
  <2>3. ASSUME NEW x \in Sessions, Dml(x) PROVE UNCHANGED cursor
    BY <2>3 DEF Dml, StartCapture, FinishCapture, CommitDml, RollbackDml, storeVars
  <2>4. ASSUME NEW w \in Workers, NEW u \in Views, RequestRefresh(w, u)
        PROVE  UNCHANGED cursor
    BY <2>4 DEF RequestRefresh, storeVars
  <2>5. ASSUME NEW w \in Workers, Refresh(w), ~CommitRefresh(w)
        PROVE  UNCHANGED cursor
    BY <2>5 DEF Refresh, LockView, LockDelta, SkipRefresh, Compile, BeginTransaction,
                RunBatch, ConflictRefresh, FailRefresh, storeVars
  <2>6. CASE UNCHANGED vars
    BY <2>1, <2>6 DEF vars, storeVars
  <2> QED
    BY <2>1, <2>2, <2>3, <2>4, <2>5, <2>6 DEF Next
<1> QED
  BY <1>1, CursorsInductive, PTL DEF Spec, CursorsAdvance
=============================================================================
