--------------------------- MODULE RefreshProofs ---------------------------
(***************************************************************************)
(* Proofs about RefreshProtocol, for any tables, views, sessions, workers  *)
(* and changes: the variables keep their types, and BaseFlow, no delta row *)
(* of a base table is lost to or counted twice by an incremental view.     *)
(*                                                                         *)
(* BaseFlow speaks of committed state only.  The strengthening IInv adds   *)
(* what the mutexes guarantee between two steps of a refresh: nobody else  *)
(* writes the delta tables, or moves the cursors, that it has read.        *)
(***************************************************************************)
EXTENDS RefreshProtocol, FiniteSetTheorems, WellFoundedInduction, TLAPS

Holding == {"compiled", "begun", "ran"}

\* The delta row of change c, once it has been given its timestamp.
RowOf(c) == [chg |-> c, ts |-> stamp[c], was |-> stamp[c]]

\* Who may be where: a worker past the view mutex holds it, a worker past the
\* delta mutexes holds all of them, a session holds the one it writes under.
Locking ==
    /\ \A w \in Workers : pc[w] # "idle" => on[w] \in Views
    /\ \A w \in Workers : pc[w] \in Holding \union {"locking"} => viewLock[on[w]] = w
    /\ \A w \in Workers : pc[w] \in Holding =>
          \A s \in Sources[on[w]] : deltaLock[s] = w
    /\ \A x \in Sessions : writing[x] # None => deltaLock[TableOf[writing[x]]] = x
    /\ \A w \in Workers : full[w] => pc[w] \in Holding /\ on[w] \notin Incremental

\* What is behind the clock, and behind a transaction that has begun.
Timing ==
    /\ \A c \in Changes : stamp[c] < clock
    /\ \A n \in Nodes : \A r \in delta[n] : r.ts < clock /\ r.was < clock
    /\ \A v \in Views : refreshed[v] < clock /\ \A r \in delta[v] : r.ts <= refreshed[v]
    /\ \A v \in Views : \A t \in Tables : cursor[v][t] <= clock
    /\ \A w \in Workers : pc[w] \in {"begun", "ran"} =>
          /\ start[w] < clock /\ refreshed[on[w]] < start[w]
          /\ \A c \in Changes : TableOf[c] \in Sources[on[w]] => stamp[c] < start[w]
    /\ \A x \in Sessions : writing[x] # None =>
          /\ stamp[writing[x]] # 0
          /\ \A v \in Readers(TableOf[writing[x]]) :
                cursor[v][TableOf[writing[x]]] <= stamp[writing[x]]

\* What the delta tables contain.
Rows ==
    /\ \A t \in Tables : \A r \in delta[t] : r = RowOf(r.chg) /\ r.chg \in Captured
    /\ \A n \in Nodes : \A r \in delta[n] : TableOf[r.chg] \in Origin[n]

\* What a refresh found when it was compiled still holds.
Scanning ==
    \A w \in Workers : pc[w] \in {"compiled", "begun"} =>
        /\ active[w] \subseteq Sources[on[w]]
        /\ \A t \in Sources[on[w]] \intersect Tables :
              t \notin active[w] => Fresh(on[w], t) = {}

\* What a transaction has written and will commit: nothing from the future;
\* nothing about tables the view does not read; no row purged that another
\* reader has still to scan; and, in an incremental refresh, cursors past every
\* row left and counts that include every captured change.
WithinClock(w) ==
    /\ refreshed[on[w]] <= eff[w].done /\ eff[w].done < clock
    /\ \A r \in eff[w].out :
          r.ts <= eff[w].done /\ r.was < clock /\ TableOf[r.chg] \in Origin[on[w]]
    /\ \A t \in Tables : eff[w].cur[t] <= clock

SparesOthers(w) ==
    /\ \A t \in Tables \ Sources[on[w]] :
          eff[w].purge[t] = {} /\ eff[w].cur[t] = cursor[on[w]][t]
    /\ \A t \in Tables \intersect Sources[on[w]] : \A r \in eff[w].purge[t] :
          \A u \in Readers(t) \ {on[w]} : r.ts < cursor[u][t]

CountsAll(w) ==
    on[w] \in Incremental =>
        /\ \A t \in Tables \intersect Sources[on[w]] :
              \A r \in delta[t] \ eff[w].purge[t] : r.ts < eff[w].cur[t]
        /\ \A c \in Changes : TableOf[c] \in Sources[on[w]] =>
              eff[w].mv[c] = IF c \in Captured THEN 1 ELSE 0

Batch ==
    \A w \in Workers : pc[w] = "ran" =>
        WithinClock(w) /\ SparesOthers(w) /\ CountsAll(w)

\* A captured change waits in front of the cursor, or has been counted once.
Waits(v, c) == RowOf(c) \in delta[TableOf[c]] /\ cursor[v][TableOf[c]] <= stamp[c]

Accounting ==
    \A v \in Incremental : \A c \in Changes : TableOf[c] \in Sources[v] =>
        mv[v][c] = IF c \in Captured /\ ~Waits(v, c) THEN 1 ELSE 0

IInv == TypeOK /\ Locking /\ Timing /\ Rows /\ Scanning /\ Batch /\ Accounting

-----------------------------------------------------------------------------
(* Lemmas about the operators of RefreshProtocol *)

\* A bounded set of numbers has a maximum: MAX(openivm_timestamp) over a
\* non-empty delta table exists.
LEMMA MaxExists ==
    ASSUME NEW S \in SUBSET Nat, NEW N \in Nat, S # {}, \A s \in S : s < N
    PROVE  \E m \in S : \A s \in S : s <= m
<1> DEFINE T == {N - s : s \in S}
<1>1. T \subseteq Nat /\ T # {}
  <2>1. \A s \in S : s \in Nat /\ s < N
    OBVIOUS
  <2>2. \E s \in S : N - s \in T
    OBVIOUS
  <2>3. \A s \in Nat : s < N => N - s \in Nat
    OBVIOUS
  <2> QED
    BY <2>1, <2>2, <2>3
<1> DEFINE R == {ss \in Nat \X Nat : ss[1] < ss[2]}
<1>a. IsWellFoundedOn(R, Nat)
  BY NatLessThanWellFounded DEF OpToRel
<1>b. \A y, x \in Nat : y < x => <<y, x>> \in R
  OBVIOUS
<1>2. PICK x \in T : \A y \in T : ~ (<<y, x>> \in R)
  <2> HIDE DEF T, R
  <2> QED  BY <1>1, <1>a, WFMin
<1>3. \A y \in T : x <= y
  <2> HIDE DEF T, R
  <2>1. x \in Nat /\ \A y \in T : y \in Nat
    BY <1>1, <1>2
  <2>2. \A y \in T : ~ (y < x)
    BY <1>2, <1>b, <2>1
  <2> QED
    BY <2>1, <2>2
<1>4. PICK m \in S : x = N - m
  BY <1>2
<1>5. \A s \in S : N - m <= N - s
  BY <1>3, <1>4
<1> QED
  BY <1>5

\* The cursor computed from a delta table passes every row of it, and stays
\* within the clock when the rows and now() do.
LEMMA NextCursorBounds ==
    ASSUME NEW rows \in SUBSET Row, NEW now \in Nat, NEW N \in Nat, now < N,
           \A r \in rows : r.ts < N
    PROVE  /\ NextCursor(rows, now) \in Nat
           /\ NextCursor(rows, now) <= N
           /\ \A r \in rows : r.ts < NextCursor(rows, now)
<1>1. CASE rows = {}
  BY <1>1 DEF NextCursor
<1>2. CASE rows # {}
  <2> DEFINE S == {r.ts : r \in rows}
             top == CHOOSE m \in S : \A r \in rows : r.ts <= m
  <2>1. S \in SUBSET Nat /\ S # {} /\ \A s \in S : s < N
    BY <1>2 DEF Row
  <2>2. \E m \in S : \A s \in S : s <= m
    <3> HIDE DEF S
    <3> QED  BY <2>1, MaxExists
  <2>3. \E m \in S : \A r \in rows : r.ts <= m
    BY <2>2
  <2>4. top \in S /\ \A r \in rows : r.ts <= top
    BY <2>3
  <2>5. NextCursor(rows, now) = 1 + top
    BY <1>2 DEF NextCursor
  <2>6. top \in Nat /\ top < N
    BY <2>1, <2>4
  <2> HIDE DEF top, S
  <2>7. \A r \in rows : r.ts \in Nat
    BY DEF Row
  <2> QED
    BY <2>4, <2>5, <2>6, <2>7
<1> QED
  BY <1>1, <1>2

\* Finitely many rows of a delta table record one change before the clock.
LEMMA RowsFinite ==
    ASSUME NEW N \in Nat, NEW c \in Changes, NEW rows \in SUBSET Row,
           \A r \in rows : r.chg = c /\ r.ts < N /\ r.was < N
    PROVE  IsFiniteSet(rows)
<1> DEFINE I == 0..N
           f == [r \in rows |-> <<r.ts, r.was>>]
<1>1. IsFiniteSet(I \X I)
  <2>1. IsFiniteSet(I)
    BY FS_Interval
  <2> HIDE DEF I
  <2> QED
    BY <2>1, FS_Product
<1>2. f \in Injection(rows, I \X I)
  <2>1. \A r \in rows : f[r] \in I \X I
    BY DEF Row
  <2>2. \A r, q \in rows : f[r] = f[q] => r = q
    BY DEF Row
  <2> QED
    BY <2>1, <2>2 DEF Injection, IsInjective
<1> HIDE DEF I, f
<1> QED
  BY <1>1, <1>2, FS_Injection, Zenon

-----------------------------------------------------------------------------
(* Types *)

LEMMA InitOK == Init => IInv
<1> SUFFICES ASSUME Init PROVE IInv
  OBVIOUS
<1> USE NodesAssumption, OriginAssumption, BoundsAssumption
<1>1. TypeOK
  BY DEF Init, TypeOK, Row, Effect, NoEffect, Steps, Nodes
<1>2. Locking
  BY DEF Init, Locking, Holding
<1>3. Timing
  BY DEF Init, Timing, Nodes
<1>4. Rows /\ Scanning /\ Batch
  BY DEF Init, Rows, Scanning, Batch, Nodes
<1>5. Accounting
  BY DEF Init, Accounting, Waits, Captured, Incremental
<1> QED
  BY <1>1, <1>2, <1>3, <1>4, <1>5 DEF IInv

-----------------------------------------------------------------------------
(* The steps of a refresh before its batch *)

LEMMA RequestRefreshOK ==
    ASSUME IInv, NEW w \in Workers, NEW v \in Views, RequestRefresh(w, v)
    PROVE  IInv'
<1> USE BoundsAssumption DEF IInv, RequestRefresh, dataVars, storeVars, lockVars
<1>1. TypeOK'
  BY DEF TypeOK, Steps
<1>2. Locking'
  BY DEF TypeOK, Locking, Holding
<1>3. Timing'
  BY DEF TypeOK, Timing, Readers
<1>4. Rows'
  BY DEF Rows, RowOf, Captured
<1>5. Scanning'
  BY DEF TypeOK, Scanning, Fresh
<1>6. Batch'
  BY DEF TypeOK, Batch, WithinClock, SparesOthers, CountsAll, Captured, Readers
<1>7. Accounting'
  BY DEF Accounting, Captured, Waits, RowOf
<1> QED
  BY <1>1, <1>2, <1>3, <1>4, <1>5, <1>6, <1>7

LEMMA LockViewOK ==
    ASSUME IInv, NEW w \in Workers, LockView(w)
    PROVE  IInv'
<1> USE BoundsAssumption DEF IInv, LockView, dataVars, storeVars
<1>0. on[w] \in Views /\ viewLock[on[w]] = None
  BY DEF Locking
<1>1. TypeOK'
  BY <1>0 DEF TypeOK, Steps
<1>2. Locking'
  BY <1>0 DEF TypeOK, Locking, Holding
<1>3. Timing'
  BY DEF TypeOK, Timing, Readers
<1>4. Rows'
  BY DEF Rows, RowOf, Captured
<1>5. Scanning'
  BY DEF TypeOK, Scanning, Fresh
<1>6. Batch'
  BY DEF TypeOK, Batch, WithinClock, SparesOthers, CountsAll, Captured, Readers
<1>7. Accounting'
  BY DEF Accounting, Captured, Waits, RowOf
<1> QED
  BY <1>1, <1>2, <1>3, <1>4, <1>5, <1>6, <1>7

LEMMA LockDeltaOK ==
    ASSUME IInv, NEW w \in Workers, LockDelta(w)
    PROVE  IInv'
<1> USE BoundsAssumption, NodesAssumption
    DEF IInv, LockDelta, dataVars, storeVars, jobVars
<1>0. on[w] \in Views
  BY DEF Locking
<1>1. TypeOK'
  BY <1>0 DEF TypeOK, Steps
<1>2. Locking'
  BY <1>0 DEF TypeOK, Locking, Holding
<1>3. Timing'
  BY DEF TypeOK, Timing, Readers
<1>4. Rows'
  BY DEF Rows, RowOf, Captured
<1>5. Scanning'
  BY DEF TypeOK, Scanning, Fresh
<1>6. Batch'
  BY DEF TypeOK, Batch, WithinClock, SparesOthers, CountsAll, Captured, Readers
<1>7. Accounting'
  BY DEF Accounting, Captured, Waits, RowOf
<1> QED
  BY <1>1, <1>2, <1>3, <1>4, <1>5, <1>6, <1>7

LEMMA CompileOK ==
    ASSUME IInv, NEW w \in Workers, Compile(w)
    PROVE  IInv'
<1> USE BoundsAssumption, NodesAssumption
    DEF IInv, Compile, dataVars, storeVars, lockVars
<1>0. on[w] \in Views /\ \A s \in Sources[on[w]] : deltaLock[s] = w
  BY DEF Locking, HoldsAll, Held
<1>1. TypeOK'
  BY <1>0 DEF TypeOK, Steps, ActiveSources
<1>2. Locking'
  BY <1>0 DEF TypeOK, Locking, Holding, HoldsAll, Incremental
<1>3. Timing'
  BY DEF TypeOK, Timing, Readers
<1>4. Rows'
  BY DEF Rows, RowOf, Captured
<1>5. Scanning'
  BY DEF TypeOK, Scanning, Fresh, ActiveSources
<1>6. Batch'
  BY DEF TypeOK, Batch, WithinClock, SparesOthers, CountsAll, Captured, Readers
<1>7. Accounting'
  BY DEF Accounting, Captured, Waits, RowOf
<1> QED
  BY <1>1, <1>2, <1>3, <1>4, <1>5, <1>6, <1>7

LEMMA BeginTransactionOK ==
    ASSUME IInv, NEW w \in Workers, BeginTransaction(w)
    PROVE  IInv'
<1> USE BoundsAssumption, NodesAssumption
    DEF IInv, BeginTransaction, dataVars, storeVars, lockVars
<1>0. on[w] \in Views
  BY DEF Locking
<1>1. TypeOK'
  BY DEF TypeOK, Steps
<1>2. Locking'
  BY DEF TypeOK, Locking, Holding
<1>2a. clock \in Nat /\ clock' = clock + 1
  BY DEF TypeOK
<1>2b. \A r \in Row : r.ts \in Nat /\ r.was \in Nat
  BY DEF Row
<1>3. Timing'
  <2>1. \A c \in Changes : stamp[c] < clock /\ stamp[c] \in Nat
    BY DEF TypeOK, Timing
  <2>2. \A n \in Nodes : \A r \in delta[n] :
           r.ts < clock /\ r.was < clock /\ r \in Row
    BY DEF TypeOK, Timing
  <2>3. \A v \in Views : refreshed[v] < clock /\ refreshed[v] \in Nat
    BY DEF TypeOK, Timing
  <2>4. \A v \in Views : \A t \in Tables : cursor[v][t] <= clock /\ cursor[v][t] \in Nat
    BY DEF TypeOK, Timing, Nodes
  <2>5. \A u \in Workers : pc'[u] \in {"begun", "ran"} =>
           /\ start'[u] < clock' /\ refreshed[on[u]] < start'[u]
           /\ \A c \in Changes : TableOf[c] \in Sources[on[u]] => stamp[c] < start'[u]
    <3> SUFFICES ASSUME NEW u \in Workers, pc'[u] \in {"begun", "ran"}
                 PROVE  /\ start'[u] < clock' /\ refreshed[on[u]] < start'[u]
                        /\ \A c \in Changes :
                              TableOf[c] \in Sources[on[u]] => stamp[c] < start'[u]
      OBVIOUS
    <3>1. CASE u = w
      BY <1>0, <1>2a, <2>1, <2>3, <3>1 DEF TypeOK
    <3>2. CASE u # w
      <4>1. pc[u] \in {"begun", "ran"} /\ start'[u] = start[u] /\ start[u] \in Nat
        BY <3>2 DEF TypeOK
      <4> QED
        BY <1>2a, <4>1 DEF Timing
    <3> QED
      BY <3>1, <3>2
  <2>6. \A n \in Nat : (n < clock => n < clock') /\ (n <= clock => n <= clock')
    BY <1>2a
  <2> QED
    BY <1>2b, <2>1, <2>2, <2>3, <2>4, <2>5, <2>6 DEF Timing, Readers
<1>4. Rows'
  BY DEF Rows, RowOf, Captured
<1>5. Scanning'
  BY DEF TypeOK, Scanning, Fresh
<1>6. Batch'
  <2> SUFFICES ASSUME NEW u \in Workers, pc'[u] = "ran"
               PROVE  (WithinClock(u) /\ SparesOthers(u) /\ CountsAll(u))'
    BY DEF Batch
  <2>1. pc[u] = "ran" /\ u # w /\ on[u] \in Views
    BY DEF TypeOK, Locking
  <2>2. eff[u] \in Effect
    BY DEF TypeOK
  <2>3. WithinClock(u)'
    <3>1. WithinClock(u)
      BY <2>1 DEF Batch
    <3>2. \A n \in Nat : (n < clock => n < clock') /\ (n <= clock => n <= clock')
      BY <1>2a
    <3>3. eff[u].done \in Nat /\ \A r \in eff[u].out : r.was \in Nat
      BY <2>2, <1>2b DEF Effect
    <3>4. \A t \in Tables : eff[u].cur[t] \in Nat
      BY <2>2 DEF Effect, Nodes
    <3> QED
      BY <3>1, <3>2, <3>3, <3>4 DEF WithinClock
  <2>4. SparesOthers(u)' /\ CountsAll(u)'
    BY <2>1 DEF Batch, SparesOthers, CountsAll, Captured, Readers
  <2> QED
    BY <2>3, <2>4
<1>7. Accounting'
  BY DEF Accounting, Captured, Waits, RowOf
<1> QED
  BY <1>1, <1>2, <1>3, <1>4, <1>5, <1>6, <1>7

-----------------------------------------------------------------------------
(* The steps of DML *)

LEMMA StartCaptureOK ==
    ASSUME IInv, NEW x \in Sessions, NEW c \in Changes, StartCapture(x, c)
    PROVE  IInv'
<1> USE BoundsAssumption, NodesAssumption
    DEF IInv, StartCapture, storeVars, jobVars
<1> DEFINE t == TableOf[c]
<1>0. /\ t \in Tables /\ t \in Nodes /\ deltaLock[t] = None
      /\ stamp[c] = 0 /\ writing[x] = None
  BY DEF Nodes
<1>a. clock \in Nat /\ clock' = clock + 1 /\ clock # 0
  BY DEF TypeOK, Timing
<1>b. stamp' = [stamp EXCEPT ![c] = clock] /\ writing' = [writing EXCEPT ![x] = c]
  OBVIOUS
<1>c. Captured' = Captured /\ c \notin Captured
  <2>1. c \notin Captured
    BY <1>0 DEF Captured
  <2>2. c \notin Captured'
    BY <1>b DEF Captured, TypeOK
  <2>3. \A d \in Changes : d # c => (d \in Captured' <=> d \in Captured)
    BY <1>0, <1>b DEF Captured, TypeOK
  <2> QED
    BY <2>1, <2>2, <2>3 DEF Captured
<1>d. \A d \in Changes : d # c => stamp'[d] = stamp[d] /\ RowOf(d)' = RowOf(d)
  BY <1>b DEF RowOf, TypeOK
<1>e. \A n \in Nat : (n < clock => n < clock') /\ (n <= clock => n <= clock')
  BY <1>a
<1>1. TypeOK'
  BY <1>0, <1>a DEF TypeOK
<1>2. Locking'
  BY <1>0 DEF TypeOK, Locking, Holding
<1>3. Timing'
  <2>1. \A d \in Changes : stamp'[d] < clock'
    BY <1>a, <1>b, <1>e DEF TypeOK, Timing
  <2>2. \A n \in Nodes : \A r \in delta'[n] : r.ts < clock' /\ r.was < clock'
    BY <1>e DEF TypeOK, Timing, Row
  <2>3. \A v \in Views : refreshed'[v] < clock' /\ \A r \in delta'[v] : r.ts <= refreshed'[v]
    BY <1>e DEF TypeOK, Timing
  <2>4. \A v \in Views : \A n \in Tables : cursor'[v][n] <= clock'
    BY <1>e DEF TypeOK, Timing, Nodes
  <2>5. \A w \in Workers : pc'[w] \in {"begun", "ran"} =>
           /\ start'[w] < clock' /\ refreshed'[on'[w]] < start'[w]
           /\ \A d \in Changes : TableOf[d] \in Sources[on'[w]] => stamp'[d] < start'[w]
    <3> SUFFICES ASSUME NEW w \in Workers, pc[w] \in {"begun", "ran"}
                 PROVE  /\ start[w] < clock' /\ refreshed[on[w]] < start[w]
                        /\ \A d \in Changes :
                              TableOf[d] \in Sources[on[w]] => stamp'[d] < start[w]
      OBVIOUS
    <3>1. t \notin Sources[on[w]]
      BY <1>0 DEF Locking, Holding
    <3> QED
      BY <1>d, <1>e, <3>1 DEF Timing, TypeOK
  <2>6. \A y \in Sessions : writing'[y] # None =>
           /\ stamp'[writing'[y]] # 0
           /\ \A v \in Readers(TableOf[writing'[y]]) :
                 cursor'[v][TableOf[writing'[y]]] <= stamp'[writing'[y]]
    <3> SUFFICES ASSUME NEW y \in Sessions, writing'[y] # None
                 PROVE  /\ stamp'[writing'[y]] # 0
                        /\ \A v \in Readers(TableOf[writing'[y]]) :
                             cursor[v][TableOf[writing'[y]]] <= stamp'[writing'[y]]
      OBVIOUS
    <3>1. CASE y = x
      <4>1. writing'[y] = c /\ stamp'[c] = clock
        BY <1>b, <3>1 DEF TypeOK
      <4> QED
        BY <1>0, <1>a, <4>1 DEF Timing, Readers
    <3>2. CASE y # x
      <4>1. writing'[y] = writing[y] /\ writing[y] \in Changes /\ stamp[writing[y]] # 0
        BY <1>b, <3>2 DEF TypeOK, Timing
      <4>2. stamp'[writing[y]] = stamp[writing[y]]
        BY <1>0, <1>d, <4>1
      <4> QED
        BY <4>1, <4>2 DEF Timing
    <3> QED
      BY <3>1, <3>2
  <2>7. \A n : Readers(n)' = Readers(n)
    BY DEF Readers
  <2> QED
    BY <2>1, <2>2, <2>3, <2>4, <2>5, <2>6, <2>7 DEF Timing
<1>4. Rows'
  BY <1>c, <1>d DEF Rows, Captured
<1>5. Scanning'
  BY DEF TypeOK, Scanning, Fresh
<1>6. Batch'
  <2> SUFFICES ASSUME NEW u \in Workers, pc[u] = "ran"
               PROVE  (WithinClock(u) /\ SparesOthers(u) /\ CountsAll(u))'
    BY DEF Batch
  <2>1. WithinClock(u)'
    <3>1. WithinClock(u)
      BY DEF Batch
    <3>2. eff[u].done \in Nat /\ \A r \in eff[u].out : r.was \in Nat
      BY DEF TypeOK, Effect, Row
    <3>3. \A n \in Tables : eff[u].cur[n] \in Nat
      BY DEF TypeOK, Effect, Nodes
    <3> QED
      BY <1>e, <3>1, <3>2, <3>3 DEF WithinClock
  <2>2. SparesOthers(u)' /\ CountsAll(u)'
    BY <1>c DEF Batch, SparesOthers, CountsAll, Readers
  <2> QED
    BY <2>1, <2>2
<1>7. Accounting'
  <2>1. \A v \in Views : \A d \in Captured : Waits(v, d)' = Waits(v, d)
    BY <1>c, <1>d DEF Waits, Captured
  <2> QED
    BY <1>c, <2>1 DEF Accounting, Incremental
<1> QED
  BY <1>1, <1>2, <1>3, <1>4, <1>5, <1>6, <1>7

LEMMA FinishCaptureOK ==
    ASSUME IInv, NEW x \in Sessions, FinishCapture(x)
    PROVE  IInv'
<1> USE BoundsAssumption, NodesAssumption DEF IInv, FinishCapture, jobVars
<1> DEFINE c == writing[x]
           t == TableOf[c]
<1>0. c \in Changes /\ t \in Tables /\ t \in Nodes /\ deltaLock[t] = x /\ stamp[c] # 0
  BY DEF Nodes, TypeOK, Locking, Timing
<1>a. \A w \in Workers : pc[w] \in Holding => t \notin Sources[on[w]]
  BY <1>0 DEF Locking
<1>b. /\ delta' = [delta EXCEPT ![t] = @ \union {RowOf(c)}]
      /\ writing' = [writing EXCEPT ![x] = None]
      /\ \A d : RowOf(d)' = RowOf(d)
  BY DEF RowOf
<1>c. \A y \in Sessions : y # x => writing[y] # c
  BY <1>0 DEF Locking
<1>d. Captured' = Captured \union {c} /\ c \notin Captured
  BY <1>0, <1>b, <1>c DEF Captured, TypeOK
<1>e. \A n \in Nodes : n # t => delta'[n] = delta[n]
  BY <1>b DEF TypeOK
<1>f. delta'[t] = delta[t] \union {RowOf(c)}
  BY <1>0, <1>b DEF TypeOK
<1>g. RowOf(c) \in Row /\ RowOf(c).ts = stamp[c] /\ RowOf(c).was = stamp[c] /\ RowOf(c).chg = c
  BY <1>0 DEF TypeOK, RowOf, Row
<1>1. TypeOK'
  BY <1>0, <1>g, <1>b DEF TypeOK
<1>2. Locking'
  BY <1>0, <1>a DEF TypeOK, Locking, Holding
<1>3. Timing'
  <2>1. \A n \in Nodes : \A r \in delta'[n] : r.ts < clock /\ r.was < clock
    BY <1>0, <1>e, <1>f, <1>g DEF Timing
  <2>2. \A v \in Views : \A r \in delta'[v] : r.ts <= refreshed[v]
    BY <1>0, <1>e DEF Timing, Nodes
  <2>3. \A y \in Sessions : writing'[y] # None => writing'[y] = writing[y]
    BY <1>b DEF TypeOK
  <2> QED
    BY <2>1, <2>2, <2>3 DEF Timing, Readers
<1>4. Rows'
  <2>1. \A n \in Tables : \A r \in delta'[n] : r = RowOf(r.chg) /\ r.chg \in Captured'
    BY <1>d, <1>e, <1>f, <1>g DEF Rows, Nodes
  <2>2. \A n \in Nodes : \A r \in delta'[n] : TableOf[r.chg] \in Origin[n]
    BY <1>0, <1>e, <1>f, <1>g, OriginAssumption DEF Rows
  <2> QED
    BY <1>b, <2>1, <2>2 DEF Rows
<1>5. Scanning'
  BY <1>a, <1>e DEF Scanning, Fresh, Holding, Nodes
<1>6. Batch'
  <2> SUFFICES ASSUME NEW u \in Workers, pc[u] = "ran"
               PROVE  (WithinClock(u) /\ SparesOthers(u) /\ CountsAll(u))'
    BY DEF Batch
  <2>1. t \notin Sources[on[u]]
    BY <1>a DEF Holding
  <2>2. WithinClock(u)' /\ SparesOthers(u)'
    BY DEF Batch, WithinClock, SparesOthers, Readers
  <2>3. CountsAll(u)'
    BY <1>d, <1>e, <2>1 DEF Batch, CountsAll, Nodes
  <2> QED
    BY <2>2, <2>3
<1>7. Accounting'
  <2> SUFFICES ASSUME NEW v \in Incremental, NEW d \in Changes, TableOf[d] \in Sources[v]
               PROVE  mv[v][d] = IF d \in Captured' /\ ~Waits(v, d)' THEN 1 ELSE 0
    BY DEF Accounting
  <2>1. CASE d = c
    <3>1. mv[v][c] = 0
      BY <1>d, <2>1 DEF Accounting
    <3>2. v \in Readers(t)
      BY <2>1 DEF Readers, Incremental
    <3>3. cursor[v][t] <= stamp[c]
      BY <1>0, <3>2 DEF Timing
    <3>4. Waits(v, d)'
      BY <1>b, <1>f, <2>1, <3>3 DEF Waits
    <3> QED
      BY <2>1, <3>1, <3>4
  <2>2. CASE d # c
    <3>1. RowOf(d) # RowOf(c)
      BY <2>2 DEF RowOf
    <3>2. TableOf[d] \in Nodes
      BY DEF Nodes
    <3>3. Waits(v, d)' <=> Waits(v, d)
      BY <1>b, <1>e, <1>f, <3>1, <3>2 DEF Waits
    <3> QED
      BY <1>d, <2>2, <3>3 DEF Accounting
  <2> QED
    BY <2>1, <2>2
<1> QED
  BY <1>1, <1>2, <1>3, <1>4, <1>5, <1>6, <1>7

LEMMA EndDmlOK ==
    ASSUME IInv, NEW x \in Sessions, CommitDml(x) \/ RollbackDml(x)
    PROVE  IInv'
<1> USE DEF IInv, CommitDml, RollbackDml, storeVars, lockVars, jobVars
<1>1. TypeOK'
  BY DEF TypeOK
<1>2. Locking' /\ Timing'
  BY DEF Locking, Timing, Readers
<1>3. Rows' /\ Scanning'
  BY DEF Rows, RowOf, Captured, Scanning, Fresh
<1>4. Batch'
  BY DEF Batch, WithinClock, SparesOthers, CountsAll, Captured, Readers
<1>5. Accounting'
  BY DEF Accounting, Captured, Waits, RowOf
<1> QED
  BY <1>1, <1>2, <1>3, <1>4, <1>5

-----------------------------------------------------------------------------
(* Ways out that leave the store alone *)

LEMMA ReleaseOK ==
    ASSUME IInv, NEW w \in Workers, Release(w),
           UNCHANGED <<clock, dataVars, storeVars>>, aborts' \in Nat
    PROVE  IInv'
<1> USE BoundsAssumption, NodesAssumption DEF IInv, dataVars, storeVars
<1>0. /\ \A u \in Workers : u # w =>
            /\ pc'[u] = pc[u] /\ on'[u] = on[u] /\ full'[u] = full[u]
            /\ active'[u] = active[u] /\ start'[u] = start[u] /\ eff'[u] = eff[u]
      /\ pc'[w] = "idle" /\ full'[w] = FALSE
  BY DEF Release, TypeOK
<1>1. TypeOK'
  <2>1. NoEffect \in Effect
    BY DEF NoEffect, Effect
  <2> QED
    BY <2>1 DEF TypeOK, Release, Steps
<1>2. Locking'
  <2>1. \A v \in Views : \A u \in Workers : u # w /\ viewLock[v] = u => viewLock'[v] = u
    BY DEF Release
  <2>2. \A n \in Nodes : \A u \in Workers \union Sessions :
           u # w /\ deltaLock[n] = u => deltaLock'[n] = u
    BY DEF Release
  <2>3. \A y \in Sessions : writing[y] # None => TableOf[writing[y]] \in Nodes
    BY DEF TypeOK, Nodes
  <2>4. \A u \in Workers : pc[u] # "idle" => Sources[on[u]] \subseteq Nodes
    BY DEF Locking
  <2> QED
    BY <1>0, <2>1, <2>2, <2>3, <2>4 DEF Locking, Holding
<1>3. Timing'
  BY <1>0 DEF Timing, Readers
<1>4. Rows'
  BY DEF Rows, RowOf, Captured
<1>5. Scanning'
  BY <1>0 DEF Scanning, Fresh
<1>6. Batch'
  BY <1>0 DEF Batch, WithinClock, SparesOthers, CountsAll, Captured, Readers
<1>7. Accounting'
  BY DEF Accounting, Captured, Waits, RowOf
<1> QED
  BY <1>1, <1>2, <1>3, <1>4, <1>5, <1>6, <1>7

LEMMA GiveUpOK ==
    ASSUME IInv, NEW w \in Workers,
           SkipRefresh(w) \/ ConflictRefresh(w) \/ FailRefresh(w)
    PROVE  IInv'
<1>1. aborts' \in Nat
  BY DEF IInv, TypeOK, SkipRefresh, ConflictRefresh, FailRefresh
<1>2. Release(w) /\ UNCHANGED <<clock, dataVars, storeVars>>
  BY DEF SkipRefresh, ConflictRefresh, FailRefresh
<1> QED
  BY <1>1, <1>2, ReleaseOK

-----------------------------------------------------------------------------
(* The batch *)

\* What a recompute returns, and what it would commit, is well typed; it
\* purges only what every other reader has scanned.
LEMMA FullEffectOK ==
    ASSUME IInv, NEW w \in Workers, pc[w] = "begun"
    PROVE  /\ FullEffect(w) \in Effect
           /\ FullEffect(w).done = refreshed[on[w]]
           /\ FullEffect(w).out = {}
           /\ \A t \in Tables : FullEffect(w).cur[t] <= clock
           /\ \A t \in Tables \ Sources[on[w]] :
                 /\ FullEffect(w).purge[t] = {}
                 /\ FullEffect(w).cur[t] = cursor[on[w]][t]
           /\ \A t \in Tables \intersect Sources[on[w]] :
                 \A r \in FullEffect(w).purge[t] :
                    \A u \in Readers(t) \ {on[w]} : r.ts < cursor[u][t]
<1> USE BoundsAssumption, NodesAssumption DEF IInv
<1> DEFINE v   == on[w]
           cur == [cursor EXCEPT ![v] = [n \in Nodes |-> IF n \in Sources[v]
                                                         THEN start[w] ELSE @[n]]]
<1>1. v \in Views /\ start[w] \in Nat /\ start[w] < clock /\ clock \in Nat
  BY DEF Locking, Timing, TypeOK
<1>2. /\ cur \in [Views -> [Nodes -> Nat]]
      /\ \A u \in Views \ {v} : cur[u] = cursor[u]
      /\ cur[v] = [n \in Nodes |-> IF n \in Sources[v] THEN start[w] ELSE cursor[v][n]]
  BY <1>1 DEF TypeOK
<1>3. Recomputed(v) \in [Changes -> Nat]
  <2> SUFFICES ASSUME NEW c \in Changes, NEW s \in Sources[v]
               PROVE  Shows(s, c) \in Nat
    BY <1>1 DEF Recomputed
  <2> QED
    BY <1>1 DEF Shows, TypeOK
<1>4. \A n \in Nodes : Consumed(n, cur) \in SUBSET Row
  BY DEF Consumed, TypeOK
<1>5. FullEffect(w) = [purge |-> [n \in Nodes |-> IF n \in Sources[v]
                                                  THEN Consumed(n, cur) ELSE {}],
                       out   |-> {},
                       cur   |-> cur[v],
                       done  |-> refreshed[v],
                       mv    |-> Recomputed(v)]
  BY DEF FullEffect
<1>6. refreshed[v] \in Nat
  BY <1>1 DEF TypeOK
<1> HIDE DEF cur
<1>7. FullEffect(w) \in Effect
  BY <1>1, <1>2, <1>3, <1>4, <1>5, <1>6 DEF Effect
<1>8. \A t \in Tables : t \in Nodes /\ cursor[v][t] <= clock /\ cursor[v][t] \in Nat
  BY <1>1 DEF Nodes, Timing, TypeOK
<1>9. \A t \in Tables : FullEffect(w).cur[t] <= clock
  BY <1>1, <1>2, <1>5, <1>8
<1>10. \A t \in Tables \intersect Sources[v] : \A r \in FullEffect(w).purge[t] :
          \A u \in Readers(t) \ {v} : r.ts < cursor[u][t]
  BY <1>2, <1>5, <1>8 DEF Consumed, Readers
<1>11. \A t \in Tables \ Sources[v] :
          FullEffect(w).purge[t] = {} /\ FullEffect(w).cur[t] = cursor[v][t]
  BY <1>2, <1>5, <1>8
<1>12. FullEffect(w).done = refreshed[v] /\ FullEffect(w).out = {}
  BY <1>5
<1> QED
  BY <1>7, <1>9, <1>10, <1>11, <1>12

\* What an incremental refresh adds to its view's delta table: rows stamped
\* with now(), about the base tables the view depends on.
LEMMA EmittedRows ==
    ASSUME IInv, NEW w \in Workers, pc[w] = "begun"
    PROVE  /\ Emitted(w) \in SUBSET Row
           /\ \A r \in Emitted(w) :
                 r.ts = start[w] /\ r.was < clock /\ TableOf[r.chg] \in Origin[on[w]]
<1> USE NodesAssumption DEF IInv
<1> DEFINE v       == on[w]
           scanned == IF v \in Pruned THEN active[w] ELSE Sources[v]
<1>1. v \in Views /\ start[w] \in Nat /\ scanned \subseteq Sources[v]
  BY DEF Locking, Scanning, TypeOK
<1>2. \A s \in scanned : s \in Nodes /\ s \in Sources[v] /\ Fresh(v, s) \subseteq delta[s]
  BY <1>1 DEF Fresh
<1>3. \A s \in scanned : \A r \in Fresh(v, s) :
         /\ r \in Row /\ r.chg \in Changes /\ r.ts \in Nat /\ r.ts < clock
         /\ TableOf[r.chg] \in Origin[v]
  BY <1>1, <1>2, OriginAssumption DEF TypeOK, Timing, Rows, Row
<1>4. Emitted(w) = {[chg |-> r.chg, ts |-> start[w], was |-> r.ts] :
                      r \in UNION {Fresh(v, s) : s \in scanned}}
  BY DEF Emitted
<1>5. SUFFICES ASSUME NEW e \in Emitted(w)
               PROVE  /\ e \in Row /\ e.ts = start[w] /\ e.was < clock
                      /\ TableOf[e.chg] \in Origin[on[w]]
  OBVIOUS
<1> HIDE DEF scanned
<1>6. PICK s \in scanned : \E r \in Fresh(v, s) :
         e = [chg |-> r.chg, ts |-> start[w], was |-> r.ts]
  BY <1>4
<1>7. PICK r \in Fresh(v, s) : e = [chg |-> r.chg, ts |-> start[w], was |-> r.ts]
  BY <1>6
<1> QED
  BY <1>1, <1>3, <1>7 DEF Row

\* The rows of the view's own delta table that the upsert applies are those
\* the batch has just written there.
LEMMA UnappliedAreEmitted ==
    ASSUME IInv, NEW w \in Workers, pc[w] = "begun"
    PROVE  Unapplied(on[w], delta[on[w]] \union Emitted(w)) = Emitted(w)
<1>1. on[w] \in Views /\ on[w] \in Nodes /\ refreshed[on[w]] < start[w]
  BY DEF IInv, Locking, Timing, Nodes
<1>2. refreshed[on[w]] \in Nat /\ start[w] \in Nat
  BY <1>1 DEF IInv, TypeOK
<1>3. \A r \in delta[on[w]] : r.ts <= refreshed[on[w]] /\ r.ts \in Nat
  BY <1>1 DEF IInv, Timing, TypeOK, Row
<1>4. \A r \in Emitted(w) : r.ts = start[w]
  BY EmittedRows
<1> QED
  BY <1>1, <1>2, <1>3, <1>4 DEF Unapplied

\* It scans the row of a change exactly when that row waits, and finds it in
\* no other source.
LEMMA EmittedOnce ==
    ASSUME IInv, NEW w \in Workers, pc[w] = "begun",
           NEW c \in Changes, TableOf[c] \in Sources[on[w]]
    PROVE  {r \in Emitted(w) : r.chg = c} =
              IF Waits(on[w], c)
              THEN {[chg |-> c, ts |-> start[w], was |-> stamp[c]]} ELSE {}
<1> USE NodesAssumption DEF IInv
<1> DEFINE v       == on[w]
           t       == TableOf[c]
           e       == [chg |-> c, ts |-> start[w], was |-> stamp[c]]
           scanned == IF v \in Pruned THEN active[w] ELSE Sources[v]
<1>1. v \in Views /\ t \in Tables /\ t \in Nodes /\ scanned \subseteq Sources[v]
  BY DEF Locking, Scanning, Nodes
<1>2. Emitted(w) = {[chg |-> r.chg, ts |-> start[w], was |-> r.ts] :
                      r \in UNION {Fresh(v, s) : s \in scanned}}
  BY DEF Emitted
<1>3. stamp[c] \in Nat /\ cursor[v][t] \in Nat
  BY <1>1 DEF TypeOK
<1>4. ASSUME Waits(v, c) PROVE e \in Emitted(w)
  <2>1. RowOf(c) \in Fresh(v, t)
    BY <1>1, <1>3, <1>4 DEF Waits, Fresh, RowOf
  <2>2. t \in scanned
    BY <1>1, <2>1 DEF Scanning
  <2>3. RowOf(c).chg = c /\ RowOf(c).ts = stamp[c]
    BY DEF RowOf
  <2> HIDE DEF scanned
  <2> QED
    BY <1>2, <2>1, <2>2, <2>3
<1>5. ASSUME NEW r \in Emitted(w), r.chg = c PROVE Waits(v, c) /\ r = e
  <2> HIDE DEF scanned
  <2>1. PICK s \in scanned : \E q \in Fresh(v, s) :
           r = [chg |-> q.chg, ts |-> start[w], was |-> q.ts]
    BY <1>2
  <2>2. PICK q \in Fresh(v, s) : r = [chg |-> q.chg, ts |-> start[w], was |-> q.ts]
    BY <2>1
  <2>3. s \in Sources[v] /\ s \in Nodes /\ q \in delta[s] /\ q.chg = c
    BY <1>1, <1>5, <2>2 DEF Fresh
  <2>4. t \in Origin[s] /\ t \in Origin[t]
    BY <1>1, <2>3, OriginAssumption DEF Rows
  <2>5. s = t
    BY <1>1, <2>3, <2>4, OriginAssumption
  <2>6. q = RowOf(c) /\ cursor[v][t] <= q.ts
    BY <1>1, <1>3, <2>2, <2>3, <2>5 DEF Rows, Fresh, RowOf
  <2> QED
    BY <2>2, <2>3, <2>5, <2>6 DEF Waits, RowOf
<1>6. e.chg = c
  OBVIOUS
<1>7. {r \in Emitted(w) : r.chg = c} = IF Waits(v, c) THEN {e} ELSE {}
  <2> HIDE DEF e
  <2>1. CASE Waits(v, c)
    <3>1. {r \in Emitted(w) : r.chg = c} = {e}
      BY <1>4, <1>5, <1>6, <2>1
    <3> QED
      BY <2>1, <3>1
  <2>2. CASE ~Waits(v, c)
    BY <1>5, <2>2
  <2> QED
    BY <2>1, <2>2
<1> QED
  BY <1>7

\* What an incremental refresh would commit: its view counts every captured
\* change, and its cursors pass every row it leaves.
LEMMA IncrementalEffectOK ==
    ASSUME IInv, NEW w \in Workers, pc[w] = "begun"
    PROVE  /\ IncrementalEffect(w) \in Effect
           /\ IncrementalEffect(w).done = start[w]
           /\ IncrementalEffect(w).out \subseteq Emitted(w)
           /\ \A t \in Tables : IncrementalEffect(w).cur[t] <= clock
           /\ \A t \in Tables \ Sources[on[w]] :
                 /\ IncrementalEffect(w).purge[t] = {}
                 /\ IncrementalEffect(w).cur[t] = cursor[on[w]][t]
           /\ \A t \in Tables \intersect Sources[on[w]] :
                 /\ IncrementalEffect(w).purge[t] = Consumed(t, cursor)
                 /\ \A r \in delta[t] \ IncrementalEffect(w).purge[t] :
                       r.ts < IncrementalEffect(w).cur[t]
           /\ on[w] \in Incremental =>
                 \A c \in Changes : TableOf[c] \in Sources[on[w]] =>
                    IncrementalEffect(w).mv[c] = IF c \in Captured THEN 1 ELSE 0
<1> USE NodesAssumption DEF IInv
<1> DEFINE v      == on[w]
           own    == delta[v] \union Emitted(w)
           purged == [n \in Nodes |-> IF n \in Sources[v] \union {v}
                                      THEN Consumed(n, cursor) ELSE {}]
           left(n) == delta[n] \ purged[n]
           cur    == [n \in Nodes |-> IF n \in Sources[v]
                                      THEN NextCursor(left(n), start[w])
                                      ELSE cursor[v][n]]
           out    == {r \in Emitted(w) : \E u \in Readers(v) : r.ts >= cursor[u][v]}
           count  == [c \in Changes |->
                        mv[v][c] + Cardinality({r \in Unapplied(v, own) : r.chg = c})]
           E      == IncrementalEffect(w)
<1>1. /\ v \in Views /\ start[w] \in Nat /\ start[w] < clock /\ clock \in Nat
      /\ refreshed[v] < start[w] /\ refreshed[v] \in Nat
  BY DEF Locking, Timing, TypeOK
<1>2. E = [purge |-> purged, out |-> out, cur |-> cur, done |-> start[w], mv |-> count]
  BY DEF IncrementalEffect
<1>3. \A n \in Nodes : left(n) \in SUBSET Row /\ \A r \in left(n) : r.ts < clock
  BY DEF TypeOK, Timing
<1>4. \A n \in Nodes : /\ NextCursor(left(n), start[w]) \in Nat
                       /\ NextCursor(left(n), start[w]) <= clock
                       /\ \A r \in left(n) : r.ts < NextCursor(left(n), start[w])
  <2> HIDE DEF left
  <2> QED
    BY <1>1, <1>3, NextCursorBounds
<1>5. cur \in [Nodes -> Nat] /\ \A t \in Tables : cur[t] <= clock
  <2>1. \A t \in Tables : t \in Nodes /\ cursor[v][t] <= clock
    BY <1>1 DEF Timing, Nodes
  <2>2. \A n \in Nodes : cursor[v][n] \in Nat
    BY <1>1 DEF TypeOK
  <2> HIDE DEF left
  <2> QED
    BY <1>4, <2>1, <2>2
<1>6. out \in SUBSET Row
  BY EmittedRows
<1>7. purged \in [Nodes -> SUBSET Row]
  BY DEF TypeOK, Consumed
<1>8. Unapplied(v, own) = Emitted(w)
  BY UnappliedAreEmitted
<1>9. count \in [Changes -> Nat]
  <2> SUFFICES ASSUME NEW c \in Changes
               PROVE  mv[v][c] + Cardinality({r \in Emitted(w) : r.chg = c}) \in Nat
    BY <1>8
  <2> DEFINE rows == {r \in Emitted(w) : r.chg = c}
  <2>1. rows \in SUBSET Row /\ \A r \in rows : r.chg = c /\ r.ts < clock /\ r.was < clock
    BY <1>1, EmittedRows
  <2>2. mv[v][c] \in Nat
    BY <1>1 DEF TypeOK
  <2> HIDE DEF rows
  <2>3. Cardinality(rows) \in Nat
    BY <1>1, <2>1, RowsFinite, FS_CardinalityType
  <2> QED
    BY <2>2, <2>3 DEF rows
<1>10. \A t \in Tables : t \in Nodes
  BY DEF Nodes
<1>11. \A t \in Tables \intersect Sources[v] :
          /\ purged[t] = Consumed(t, cursor)
          /\ \A r \in delta[t] \ purged[t] : r.ts < cur[t]
  BY <1>4, <1>10
<1>12. \A t \in Tables \ Sources[v] : purged[t] = {} /\ cur[t] = cursor[v][t]
  BY <1>1, <1>10
<1>13. ASSUME v \in Incremental, NEW c \in Changes, TableOf[c] \in Sources[v]
       PROVE  count[c] = IF c \in Captured THEN 1 ELSE 0
  <2> DEFINE rows == {r \in Emitted(w) : r.chg = c}
  <2>1. count[c] = mv[v][c] + Cardinality(rows)
    BY <1>8
  <2>2. mv[v][c] = IF c \in Captured /\ ~Waits(v, c) THEN 1 ELSE 0
    BY <1>13 DEF Accounting
  <2>3. Cardinality(rows) = IF Waits(v, c) THEN 1 ELSE 0
    <3> DEFINE e == [chg |-> c, ts |-> start[w], was |-> stamp[c]]
    <3>1. rows = IF Waits(v, c) THEN {e} ELSE {}
      BY <1>13, EmittedOnce
    <3> HIDE DEF e, rows
    <3> QED
      BY <3>1, FS_EmptySet, FS_Singleton
  <2>4. Waits(v, c) => c \in Captured
    <3>1. RowOf(c).chg = c /\ TableOf[c] \in Tables
      BY DEF RowOf
    <3> QED
      BY <3>1 DEF Waits, Rows
  <2> QED
    BY <2>1, <2>2, <2>3, <2>4
<1> HIDE DEF purged, cur, out, count, E
<1>14. E \in Effect
  BY <1>1, <1>2, <1>5, <1>6, <1>7, <1>9 DEF Effect
<1>15. E.purge = purged /\ E.cur = cur /\ E.done = start[w] /\ E.out = out /\ E.mv = count
  BY <1>2
<1>16. out \subseteq Emitted(w)
  BY DEF out
<1> QED
  BY <1>5, <1>11, <1>12, <1>13, <1>14, <1>15, <1>16 DEF E

LEMMA RunBatchOK ==
    ASSUME IInv, NEW w \in Workers, RunBatch(w)
    PROVE  IInv'
<1> USE BoundsAssumption, NodesAssumption
    DEF IInv, RunBatch, dataVars, storeVars, lockVars
<1> DEFINE E == IF full[w] THEN FullEffect(w) ELSE IncrementalEffect(w)
<1>0. on[w] \in Views /\ pc[w] = "begun"
  BY DEF Locking
<1>a. /\ E \in Effect
      /\ E.done < clock /\ refreshed[on[w]] <= E.done
      /\ \A r \in E.out : r.ts <= E.done /\ r.was < clock /\ TableOf[r.chg] \in Origin[on[w]]
      /\ \A t \in Tables : E.cur[t] <= clock
      /\ \A t \in Tables \ Sources[on[w]] : E.purge[t] = {} /\ E.cur[t] = cursor[on[w]][t]
      /\ \A t \in Tables \intersect Sources[on[w]] : \A r \in E.purge[t] :
            \A u \in Readers(t) \ {on[w]} : r.ts < cursor[u][t]
  <2>1. /\ refreshed[on[w]] \in Nat /\ start[w] \in Nat /\ clock \in Nat
        /\ refreshed[on[w]] < clock /\ start[w] < clock /\ refreshed[on[w]] < start[w]
    BY <1>0 DEF TypeOK, Timing
  <2>2. CASE full[w]
    BY <1>0, <2>1, <2>2, FullEffectOK
  <2>3. CASE ~full[w]
    <3>1. E = IncrementalEffect(w)
      BY <2>3
    <3>2. \A r \in E.out : r.ts = E.done /\ r.was < clock /\ TableOf[r.chg] \in Origin[on[w]]
      BY <1>0, <3>1, IncrementalEffectOK, EmittedRows
    <3>3. \A t \in Tables \intersect Sources[on[w]] : \A r \in E.purge[t] :
            \A u \in Readers(t) \ {on[w]} : r.ts < cursor[u][t]
      BY <1>0, <3>1, IncrementalEffectOK DEF Consumed
    <3>4. \A r \in E.out : r.ts <= E.done
      <4>1. E.done \in Nat
        BY <1>0, <2>1, <3>1, IncrementalEffectOK
      <4> QED
        BY <3>2, <4>1
    <3> HIDE DEF E
    <3>5. E \in Effect /\ E.done = start[w] /\ \A t \in Tables : E.cur[t] <= clock
      BY <1>0, <3>1, IncrementalEffectOK
    <3>6. \A t \in Tables \ Sources[on[w]] : E.purge[t] = {} /\ E.cur[t] = cursor[on[w]][t]
      BY <1>0, <3>1, IncrementalEffectOK
    <3> QED
      BY <2>1, <3>2, <3>3, <3>4, <3>5, <3>6
  <2> QED
    BY <2>2, <2>3
<1>b. on[w] \in Incremental =>
        /\ \A t \in Tables \intersect Sources[on[w]] :
              \A r \in delta[t] \ E.purge[t] : r.ts < E.cur[t]
        /\ \A c \in Changes : TableOf[c] \in Sources[on[w]] =>
              E.mv[c] = IF c \in Captured THEN 1 ELSE 0
  <2> SUFFICES ASSUME on[w] \in Incremental
               PROVE  /\ \A t \in Tables \intersect Sources[on[w]] :
                            \A r \in delta[t] \ E.purge[t] : r.ts < E.cur[t]
                      /\ \A c \in Changes : TableOf[c] \in Sources[on[w]] =>
                            E.mv[c] = IF c \in Captured THEN 1 ELSE 0
    OBVIOUS
  <2>1. full[w] = FALSE
    BY DEF Locking, TypeOK
  <2>2. E = IncrementalEffect(w)
    BY <2>1
  <2> HIDE DEF E
  <2> QED
    BY <1>0, <2>2, IncrementalEffectOK
<1> HIDE DEF E
<1>c. /\ \A u \in Workers : u # w => pc'[u] = pc[u] /\ eff'[u] = eff[u]
      /\ pc'[w] = "ran" /\ eff'[w] = E
  BY DEF TypeOK, E
<1>1. TypeOK'
  <2>1. eff' \in [Workers -> Effect] /\ pc' \in [Workers -> Steps]
    BY <1>a DEF TypeOK, Steps, E
  <2> QED
    BY <2>1 DEF TypeOK
<1>2. Locking'
  BY <1>c DEF Locking, Holding
<1>3. Timing'
  BY <1>c DEF Timing, Readers
<1>4. Rows'
  BY DEF Rows, RowOf, Captured
<1>5. Scanning'
  BY <1>c DEF Scanning, Fresh
<1>6. Batch'
  <2> SUFFICES ASSUME NEW u \in Workers, pc'[u] = "ran"
               PROVE  (WithinClock(u) /\ SparesOthers(u) /\ CountsAll(u))'
    BY DEF Batch
  <2>1. CASE u = w
    BY <1>a, <1>b, <1>c, <2>1 DEF WithinClock, SparesOthers, CountsAll, Captured, Readers
  <2>2. CASE u # w
    BY <1>c, <2>2 DEF Batch, WithinClock, SparesOthers, CountsAll, Captured, Readers
  <2> QED
    BY <2>1, <2>2
<1>7. Accounting'
  BY DEF Accounting, Captured, Waits, RowOf
<1> QED
  BY <1>1, <1>2, <1>3, <1>4, <1>5, <1>6, <1>7

-----------------------------------------------------------------------------
(* Committing a batch *)

LEMMA CommitRefreshOK ==
    ASSUME IInv, NEW w \in Workers, CommitRefresh(w)
    PROVE  IInv'
<1> USE BoundsAssumption, NodesAssumption DEF IInv, dataVars
<1> DEFINE v == on[w]
<1>0. /\ v \in Views /\ v \in Nodes /\ v \notin Tables /\ pc[w] = "ran"
      /\ WithinClock(w) /\ SparesOthers(w) /\ CountsAll(w) /\ eff[w] \in Effect
  BY DEF CommitRefresh, Locking, Nodes, Batch, TypeOK
<1>a. /\ mv' = [mv EXCEPT ![v] = eff[w].mv]
      /\ cursor' = [cursor EXCEPT ![v] = eff[w].cur]
      /\ refreshed' = [refreshed EXCEPT ![v] = eff[w].done]
      /\ delta' = [n \in Nodes |-> (delta[n] \ eff[w].purge[n])
                                  \union (IF n = v THEN eff[w].out ELSE {})]
      /\ Release(w)
      /\ UNCHANGED <<clock, base, writing, tx, stamp, aborts>>
  BY DEF CommitRefresh
<1>b. /\ \A u \in Workers : u # w =>
            /\ pc'[u] = pc[u] /\ on'[u] = on[u] /\ full'[u] = full[u]
            /\ active'[u] = active[u] /\ start'[u] = start[u] /\ eff'[u] = eff[u]
      /\ pc'[w] = "idle" /\ full'[w] = FALSE
  BY <1>a DEF Release, TypeOK
<1>c. /\ \A u \in Views : u # v =>
            mv'[u] = mv[u] /\ cursor'[u] = cursor[u] /\ refreshed'[u] = refreshed[u]
      /\ mv'[v] = eff[w].mv /\ cursor'[v] = eff[w].cur /\ refreshed'[v] = eff[w].done
  BY <1>0, <1>a DEF TypeOK
\* The other refreshes under way are of other views, and share no table.
<1>d. \A u \in Workers : u # w /\ pc[u] \in Holding =>
          on[u] \in Views /\ on[u] # v /\ Sources[on[u]] \intersect Sources[v] = {}
  BY <1>0 DEF Locking, Holding
<1>e. \A x \in Sessions : writing[x] # None => v \notin Readers(TableOf[writing[x]])
  BY <1>0 DEF Locking, Holding, Readers
<1>f. \A t \in Tables : t \in Nodes /\ delta'[t] = delta[t] \ eff[w].purge[t]
  BY <1>0, <1>a DEF Nodes
<1>g. \A t \in Tables \ Sources[v] : delta'[t] = delta[t]
  BY <1>0, <1>f DEF SparesOthers
<1>h. Captured' = Captured /\ \A c : RowOf(c)' = RowOf(c)
  BY <1>a DEF Captured, RowOf
<1>i. \A n : Readers(n)' = Readers(n)
  BY DEF Readers
<1>j. \A n \in Nodes : \A r \in delta'[n] : r \in delta[n] \/ (n = v /\ r \in eff[w].out)
  BY <1>a
<1>k. /\ eff[w].purge \in [Nodes -> SUBSET Row] /\ eff[w].out \in SUBSET Row
      /\ eff[w].cur \in [Nodes -> Nat] /\ eff[w].done \in Nat
      /\ eff[w].mv \in [Changes -> Nat]
  BY <1>0 DEF Effect
<1>1. TypeOK'
  <2>1. NoEffect \in Effect
    BY DEF NoEffect, Effect
  <2>2. delta' \in [Nodes -> SUBSET Row]
    BY <1>a, <1>k DEF TypeOK
  <2>3. mv' \in [Views -> [Changes -> Nat]] /\ cursor' \in [Views -> [Nodes -> Nat]]
        /\ refreshed' \in [Views -> Nat]
    BY <1>a, <1>k DEF TypeOK
  <2>4. /\ viewLock' \in [Views -> Workers \union {None}]
        /\ deltaLock' \in [Nodes -> Workers \union Sessions \union {None}]
    BY <1>a DEF TypeOK, Release
  <2>5. /\ pc' \in [Workers -> Steps] /\ on' \in [Workers -> Views \union {None}]
        /\ full' \in [Workers -> BOOLEAN] /\ active' \in [Workers -> SUBSET Nodes]
        /\ start' \in [Workers -> Nat] /\ eff' \in [Workers -> Effect]
    BY <1>a, <2>1 DEF TypeOK, Release, Steps
  <2> QED
    BY <1>a, <2>2, <2>3, <2>4, <2>5 DEF TypeOK
<1>2. Locking'
  <2>1. \A n \in Views : \A u \in Workers : u # w /\ viewLock[n] = u => viewLock'[n] = u
    BY <1>a DEF Release
  <2>2. \A n \in Nodes : \A u \in Workers \union Sessions :
           u # w /\ deltaLock[n] = u => deltaLock'[n] = u
    BY <1>a DEF Release
  <2>3. \A y \in Sessions : writing[y] # None => TableOf[writing[y]] \in Nodes
    BY DEF TypeOK, Nodes
  <2>4. \A u \in Workers : pc[u] # "idle" => Sources[on[u]] \subseteq Nodes
    BY DEF Locking
  <2> QED
    BY <1>a, <1>b, <2>1, <2>2, <2>3, <2>4 DEF Locking, Holding
<1>3. Timing'
  <2>1. \A n \in Nodes : \A r \in delta'[n] : r.ts < clock /\ r.was < clock
    <3> SUFFICES ASSUME NEW n \in Nodes, NEW r \in delta'[n]
                 PROVE  r.ts < clock /\ r.was < clock
      OBVIOUS
    <3>1. CASE r \in delta[n]
      BY <3>1 DEF Timing
    <3>2. CASE r \in eff[w].out
      <4>1. r.ts \in Nat /\ clock \in Nat
        BY <1>k, <3>2 DEF Row, TypeOK
      <4> QED
        BY <1>0, <1>k, <3>2, <4>1 DEF WithinClock
    <3> QED
      BY <1>j, <3>1, <3>2
  <2>2. \A u \in Views : refreshed'[u] < clock /\ \A r \in delta'[u] : r.ts <= refreshed'[u]
    <3> SUFFICES ASSUME NEW u \in Views
                 PROVE  refreshed'[u] < clock /\ \A r \in delta'[u] : r.ts <= refreshed'[u]
      OBVIOUS
    <3>0. u \in Nodes
      BY DEF Nodes
    <3>1. CASE u # v
      BY <1>c, <1>j, <3>0, <3>1 DEF Timing
    <3>2. CASE u = v
      <4>1. refreshed'[v] = eff[w].done /\ eff[w].done < clock
        BY <1>0, <1>c DEF WithinClock
      <4>2. \A r \in eff[w].out : r.ts <= eff[w].done
        BY <1>0 DEF WithinClock
      <4>3. \A r \in delta[v] : r.ts <= eff[w].done
        <5>1. \A r \in delta[v] : r.ts \in Nat /\ r.ts <= refreshed[v]
          BY <1>0 DEF TypeOK, Row, Timing
        <5>2. refreshed[v] \in Nat /\ refreshed[v] <= eff[w].done
          BY <1>0 DEF TypeOK, WithinClock
        <5> QED
          BY <1>k, <5>1, <5>2
      <4> QED
        BY <1>0, <1>j, <3>2, <4>1, <4>2, <4>3
    <3> QED
      BY <3>1, <3>2
  <2>3. \A u \in Views : \A t \in Tables : cursor'[u][t] <= clock
    BY <1>0, <1>c DEF Timing, WithinClock
  <2>4. \A u \in Workers : pc'[u] \in {"begun", "ran"} =>
           /\ start'[u] < clock /\ refreshed'[on'[u]] < start'[u]
           /\ \A c \in Changes : TableOf[c] \in Sources[on'[u]] => stamp[c] < start'[u]
    <3> SUFFICES ASSUME NEW u \in Workers, pc'[u] \in {"begun", "ran"}
                 PROVE  /\ start'[u] < clock /\ refreshed'[on'[u]] < start'[u]
                        /\ \A c \in Changes :
                              TableOf[c] \in Sources[on'[u]] => stamp[c] < start'[u]
      OBVIOUS
    <3>1. u # w /\ pc[u] \in {"begun", "ran"} /\ start'[u] = start[u] /\ on'[u] = on[u]
      BY <1>b
    <3>2. refreshed'[on[u]] = refreshed[on[u]]
      BY <1>c, <1>d, <3>1 DEF Holding
    <3> QED
      BY <3>1, <3>2 DEF Timing
  <2>5. \A x \in Sessions : writing[x] # None =>
           /\ stamp[writing[x]] # 0
           /\ \A u \in Readers(TableOf[writing[x]]) :
                 cursor'[u][TableOf[writing[x]]] <= stamp[writing[x]]
    BY <1>c, <1>e DEF Timing, Readers
  <2> QED
    BY <1>a, <1>i, <2>1, <2>2, <2>3, <2>4, <2>5 DEF Timing
<1>4. Rows'
  <2>1. \A t \in Tables : \A r \in delta'[t] : r = RowOf(r.chg) /\ r.chg \in Captured
    BY <1>f DEF Rows
  <2>2. \A n \in Nodes : \A r \in delta'[n] : TableOf[r.chg] \in Origin[n]
    BY <1>0, <1>j DEF Rows, WithinClock
  <2> QED
    BY <1>h, <2>1, <2>2 DEF Rows
<1>5. Scanning'
  <2> SUFFICES ASSUME NEW u \in Workers, pc'[u] \in {"compiled", "begun"}
               PROVE  /\ active'[u] \subseteq Sources[on'[u]]
                      /\ \A t \in Sources[on'[u]] \intersect Tables :
                            t \notin active'[u] => Fresh(on[u], t)' = {}
    BY DEF Scanning
  <2>1. /\ u # w /\ pc[u] \in {"compiled", "begun"} /\ on'[u] = on[u]
        /\ active'[u] = active[u] /\ pc[u] \in Holding
    BY <1>b DEF Holding
  <2>2. \A t \in Sources[on[u]] \intersect Tables : delta'[t] = delta[t]
    BY <1>d, <1>g, <2>1
  <2>3. cursor'[on[u]] = cursor[on[u]]
    BY <1>c, <1>d, <2>1
  <2> QED
    BY <2>1, <2>2, <2>3 DEF Scanning, Fresh
<1>6. Batch'
  <2> SUFFICES ASSUME NEW u \in Workers, pc'[u] = "ran"
               PROVE  (WithinClock(u) /\ SparesOthers(u) /\ CountsAll(u))'
    BY DEF Batch
  <2>1. /\ u # w /\ pc[u] = "ran" /\ on'[u] = on[u] /\ eff'[u] = eff[u]
        /\ on[u] \in Views /\ on[u] # v /\ Sources[on[u]] \intersect Sources[v] = {}
        /\ WithinClock(u) /\ SparesOthers(u) /\ CountsAll(u)
    BY <1>b, <1>d DEF Holding, Batch
  <2>2. refreshed'[on[u]] = refreshed[on[u]] /\ cursor'[on[u]] = cursor[on[u]]
    BY <1>c, <2>1
  <2>3. WithinClock(u)'
    BY <1>a, <2>1, <2>2 DEF WithinClock
  <2>4. SparesOthers(u)'
    <3>1. \A t \in Tables \intersect Sources[on[u]] : \A k \in Readers(t) :
             cursor'[k] = cursor[k]
      BY <1>c, <2>1 DEF Readers
    <3> QED
      BY <1>i, <2>1, <2>2, <3>1 DEF SparesOthers
  <2>5. CountsAll(u)'
    <3>1. \A t \in Tables \intersect Sources[on[u]] : delta'[t] = delta[t]
      BY <1>g, <2>1
    <3> QED
      BY <1>h, <2>1, <3>1 DEF CountsAll
  <2> QED
    BY <2>3, <2>4, <2>5
<1>7. Accounting'
  <2> SUFFICES ASSUME NEW k \in Incremental, NEW c \in Changes, TableOf[c] \in Sources[k]
               PROVE  mv'[k][c] = IF c \in Captured /\ ~Waits(k, c)' THEN 1 ELSE 0
    BY <1>h DEF Accounting
  <2> DEFINE t == TableOf[c]
  <2>0. k \in Views /\ t \in Tables /\ k \in Readers(t) /\ stamp[c] \in Nat
    BY DEF Incremental, Readers, TypeOK
  <2>1. Waits(k, c)' <=> RowOf(c) \in delta'[t] /\ cursor'[k][t] <= stamp[c]
    BY <1>a, <1>h DEF Waits
  <2>2. RowOf(c).ts = stamp[c]
    BY DEF RowOf
  <2>3. CASE k = v
    <3>1. mv'[k][c] = IF c \in Captured THEN 1 ELSE 0
      BY <1>0, <1>c, <2>3 DEF CountsAll
    <3>2. RowOf(c) \in delta'[t] => stamp[c] < cursor'[k][t]
      BY <1>0, <1>c, <1>f, <2>0, <2>2, <2>3 DEF CountsAll
    <3>3. cursor'[k][t] \in Nat
      BY <1>c, <1>k, <1>f, <2>0, <2>3
    <3> QED
      BY <2>0, <2>1, <3>1, <3>2, <3>3
  <2>4. CASE k # v
    <3>1. mv'[k] = mv[k] /\ cursor'[k] = cursor[k] /\ cursor[k][t] \in Nat
      BY <1>c, <1>f, <2>0, <2>4 DEF TypeOK
    <3>2. Waits(k, c) => RowOf(c) \notin eff[w].purge[t]
      <4>1. CASE t \in Sources[v]
        BY <1>0, <2>0, <2>2, <2>4, <3>1, <4>1 DEF SparesOthers, Waits
      <4>2. CASE t \notin Sources[v]
        BY <1>0, <2>0, <4>2 DEF SparesOthers
      <4> QED
        BY <4>1, <4>2
    <3>3. Waits(k, c)' <=> Waits(k, c)
      BY <1>f, <2>0, <2>1, <3>1, <3>2 DEF Waits
    <3> QED
      BY <3>1, <3>3 DEF Accounting
  <2> QED
    BY <2>3, <2>4
<1> QED
  BY <1>1, <1>2, <1>3, <1>4, <1>5, <1>6, <1>7

-----------------------------------------------------------------------------
(* The theorems *)

LEMMA NextOK == IInv /\ [Next]_vars => IInv'
<1> SUFFICES ASSUME IInv, [Next]_vars PROVE IInv'
  OBVIOUS
<1>1. ASSUME NEW x \in Sessions, Dml(x) PROVE IInv'
  BY <1>1, StartCaptureOK, FinishCaptureOK, EndDmlOK DEF Dml
<1>2. ASSUME NEW w \in Workers, NEW v \in Views, RequestRefresh(w, v) PROVE IInv'
  BY <1>2, RequestRefreshOK
<1>3. ASSUME NEW w \in Workers, Refresh(w) PROVE IInv'
  BY <1>3, LockViewOK, LockDeltaOK, CompileOK, BeginTransactionOK, RunBatchOK,
     CommitRefreshOK, GiveUpOK DEF Refresh
<1>4. CASE UNCHANGED vars
  <2> USE <1>4 DEF vars, dataVars, storeVars, lockVars, jobVars
  <2>1. TypeOK'
    BY DEF IInv, TypeOK
  <2>2. Locking' /\ Timing'
    BY DEF IInv, Locking, Timing, Readers
  <2>3. Rows' /\ Scanning'
    BY DEF IInv, Rows, RowOf, Captured, Scanning, Fresh
  <2>4. Batch'
    BY DEF IInv, Batch, WithinClock, SparesOthers, CountsAll, Captured, Readers
  <2>5. Accounting'
    BY DEF IInv, Accounting, Captured, Waits, RowOf
  <2> QED
    BY <2>1, <2>2, <2>3, <2>4, <2>5 DEF IInv
<1> QED
  BY <1>1, <1>2, <1>3, <1>4 DEF Next

\* The strengthening holds in every reachable state.
THEOREM Inductive == Spec => []IInv
  BY InitOK, NextOK, PTL DEF Spec

\* The variables keep their types: in particular a refresh always finds a
\* cursor to write, and counts finitely many rows.
THEOREM TypeCorrect == Spec => []TypeOK
<1>1. IInv => TypeOK
  BY DEF IInv
<1> QED
  BY <1>1, Inductive, PTL

\* No delta row of a base table is lost to, or counted twice by, a view that
\* is refreshed incrementally: for any number of views over one table, of
\* sessions that capture into it and of refreshes under way.
THEOREM BaseFlowHolds == Spec => []BaseFlow
<1>1. IInv => BaseFlow
  <2> SUFFICES ASSUME IInv, NEW v \in Incremental, NEW c \in Changes,
                      TableOf[c] \in Sources[v]
               PROVE  Flow(v, TableOf[c], c)
    BY DEF BaseFlow
  <2> DEFINE t    == TableOf[c]
             rows == {r \in Fresh(v, t) : r.chg = c}
  <2>1. /\ t \in Tables /\ t \in Nodes /\ t \notin Views /\ v \in Views
        /\ stamp[c] \in Nat /\ cursor[v][t] \in Nat
    BY NodesAssumption DEF Nodes, Incremental, IInv, TypeOK
  <2>2. RowOf(c).chg = c /\ RowOf(c).ts = stamp[c]
    BY DEF RowOf
  <2>3. rows = IF Waits(v, c) THEN {RowOf(c)} ELSE {}
    <3>1. \A r \in rows : r = RowOf(c) /\ Waits(v, c)
      BY <2>1, <2>2 DEF Fresh, Waits, IInv, Rows
    <3>2. Waits(v, c) => RowOf(c) \in rows
      BY <2>1, <2>2 DEF Fresh, Waits
    <3> HIDE DEF rows
    <3> QED
      BY <3>1, <3>2
  <2>4. Waits(v, c) => c \in Captured
    BY <2>1, <2>2 DEF Waits, IInv, Rows
  <2>5. mv[v][c] = IF c \in Captured /\ ~Waits(v, c) THEN 1 ELSE 0
    BY DEF IInv, Accounting
  <2>6. Given(t, c) = IF c \in Captured THEN 1 ELSE 0
    BY <2>1 DEF Given
  <2>7. Cardinality(rows) = IF Waits(v, c) THEN 1 ELSE 0
    <3> HIDE DEF rows
    <3> QED
      BY <2>3, FS_EmptySet, FS_Singleton
  <2> QED
    BY <2>4, <2>5, <2>6, <2>7 DEF Flow
<1> QED
  BY <1>1, Inductive, PTL
=============================================================================
