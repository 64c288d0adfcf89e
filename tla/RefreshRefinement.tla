-------------------------- MODULE RefreshRefinement --------------------------
(***************************************************************************)
(* RefreshProtocol implements ChangeFeed: seen through the changes captured *)
(* and the changes each incremental view counts, every step of the protocol *)
(* captures one change, delivers all captured changes to one view, or does *)
(* nothing.                                                                *)
(***************************************************************************)
EXTENDS RefreshProofs

\* The refinement mapping, with the names FeedSpec gives it.
Subscribed(v) == {c \in Changes : TableOf[c] \in Sources[v]}
Delivered == [v \in Incremental |->
                {c \in Changes : TableOf[c] \in Sources[v] /\ mv[v][c] # 0}]

LEMMA FeedInit == Init => Feed!Init
<1> SUFFICES ASSUME Init PROVE Feed!Init
  OBVIOUS
<1>1. Captured = {}
  BY DEF Init, Captured
<1>2. Delivered = [v \in Incremental |-> {}]
  BY DEF Init, Delivered, Incremental
<1> QED
  BY <1>1, <1>2 DEF Feed!Init, Delivered

\* Starting to capture a change shows nothing.
LEMMA FeedStart ==
    ASSUME IInv, NEW x \in Sessions, NEW c \in Changes, StartCapture(x, c)
    PROVE  Captured' = Captured /\ Delivered' = Delivered
<1> USE DEF IInv, StartCapture, storeVars
<1>1. c \notin Captured
  BY DEF Captured
<1>2. c \notin Captured'
  BY BoundsAssumption DEF Captured, TypeOK
<1>3. \A d \in Changes : d # c => (d \in Captured' <=> d \in Captured)
  BY BoundsAssumption DEF Captured, TypeOK
<1>4. Captured' = Captured
  BY <1>1, <1>2, <1>3 DEF Captured
<1> QED
  BY <1>4 DEF Delivered

\* The delta INSERT that commits is the capture.
LEMMA FeedFinish ==
    ASSUME IInv, NEW x \in Sessions, FinishCapture(x)
    PROVE  \E c \in Changes : /\ c \notin Captured
                              /\ Captured' = Captured \union {c}
                              /\ Delivered' = Delivered
<1> USE DEF IInv, FinishCapture
<1> DEFINE c == writing[x]
<1>0. c \in Changes /\ deltaLock[TableOf[c]] = x /\ stamp[c] # 0 /\ stamp' = stamp
  BY DEF TypeOK, Locking, Timing
<1>1. \A y \in Sessions : y # x => writing[y] # c
  BY <1>0, BoundsAssumption DEF Locking
<1>2. writing' = [writing EXCEPT ![x] = None] /\ mv' = mv
  OBVIOUS
<1>3. c \notin Captured
  BY DEF Captured
<1>4. Captured' = Captured \union {c}
  <2>1. \A y \in Sessions : writing'[y] # c
    BY <1>0, <1>1, <1>2, BoundsAssumption DEF TypeOK
  <2>2. \A d \in Changes : d # c =>
           ((\E y \in Sessions : writing'[y] = d) <=> (\E y \in Sessions : writing[y] = d))
    BY <1>0, <1>2, BoundsAssumption DEF TypeOK
  <2> QED
    BY <1>0, <1>3, <2>1, <2>2 DEF Captured
<1> QED
  BY <1>0, <1>2, <1>3, <1>4 DEF Delivered

\* The commit of an incremental refresh is the delivery.
LEMMA FeedCommit ==
    ASSUME IInv, NEW w \in Workers, CommitRefresh(w)
    PROVE  /\ Captured' = Captured
           /\ \/ Delivered' = Delivered
              \/ \E v \in Incremental :
                    Delivered' = [Delivered EXCEPT ![v] = Captured \intersect Subscribed(v)]
<1> USE DEF IInv, CommitRefresh, dataVars
<1> DEFINE v == on[w]
<1>1. v \in Views /\ pc[w] = "ran" /\ CountsAll(w) /\ eff[w].mv \in [Changes -> Nat]
  BY BoundsAssumption DEF Locking, Batch, TypeOK, Effect
<1>2. Captured' = Captured
  BY DEF Captured
<1>3. mv' = [mv EXCEPT ![v] = eff[w].mv]
  OBVIOUS
<1>4. CASE v \notin Incremental
  <2>1. \A u \in Incremental : mv'[u] = mv[u]
    BY <1>3, <1>4 DEF TypeOK, Incremental
  <2>2. Delivered' = Delivered
    BY <2>1 DEF Delivered
  <2> QED
    BY <1>2, <2>2
<1>5. CASE v \in Incremental
  <2>1. \A u \in Incremental : u # v => mv'[u] = mv[u]
    BY <1>3 DEF TypeOK, Incremental
  <2>2. mv'[v] = eff[w].mv
    BY <1>1, <1>3 DEF TypeOK
  <2>3. {c \in Changes : TableOf[c] \in Sources[v] /\ eff[w].mv[c] # 0}
          = Captured \intersect Subscribed(v)
    <3>1. \A c \in Changes : TableOf[c] \in Sources[v] =>
             (eff[w].mv[c] # 0 <=> c \in Captured)
      BY <1>1, <1>5 DEF CountsAll
    <3>2. Captured \subseteq Changes
      BY DEF Captured
    <3> QED
      BY <3>1, <3>2 DEF Subscribed
  <2>4. Delivered' = [Delivered EXCEPT ![v] = Captured \intersect Subscribed(v)]
    <3> DEFINE X == {c \in Changes : TableOf[c] \in Sources[v] /\ eff[w].mv[c] # 0}
             D(u, m) == {c \in Changes : TableOf[c] \in Sources[u] /\ m[c] # 0}
    <3>1. /\ Delivered = [u \in Incremental |-> D(u, mv[u])]
          /\ Delivered' = [u \in Incremental |-> D(u, mv'[u])]
      BY DEF Delivered
    <3>2. \A u \in Incremental : u # v => D(u, mv'[u]) = D(u, mv[u])
      BY <2>1
    <3>3. D(v, mv'[v]) = X
      BY <2>2
    <3> HIDE DEF D
    <3>4. Delivered' = [Delivered EXCEPT ![v] = X]
      BY <1>5, <3>1, <3>2, <3>3
    <3> QED
      BY <2>3, <3>4
  <2> QED
    BY <1>2, <1>5, <2>4
<1> QED
  BY <1>4, <1>5

\* Every other step shows nothing.
LEMMA FeedStutter ==
    ASSUME mv' = mv, stamp' = stamp, writing' = writing
    PROVE  Captured' = Captured /\ Delivered' = Delivered
  BY DEF Captured, Delivered

LEMMA FeedNext == IInv /\ [Next]_vars => [Feed!Next]_(Feed!feedVars)
<1> SUFFICES ASSUME IInv, [Next]_vars
             PROVE  \/ Captured' = Captured /\ Delivered' = Delivered
                    \/ \E c \in Changes : /\ c \notin Captured
                                          /\ Captured' = Captured \union {c}
                                          /\ Delivered' = Delivered
                    \/ \E v \in Incremental :
                          /\ Captured' = Captured
                          /\ Delivered' = [Delivered EXCEPT
                                             ![v] = Captured \intersect Subscribed(v)]
  BY DEF Feed!Next, Feed!Capture, Feed!Deliver, Feed!feedVars, Delivered, Subscribed
<1>1. ASSUME NEW x \in Sessions, Dml(x), ~FinishCapture(x)
      PROVE  Captured' = Captured /\ Delivered' = Delivered
  <2>1. CASE \E c \in Changes : StartCapture(x, c)
    BY <2>1, FeedStart
  <2>2. CASE CommitDml(x) \/ RollbackDml(x)
    BY <2>2, FeedStutter DEF CommitDml, RollbackDml, storeVars
  <2> QED
    BY <1>1, <2>1, <2>2 DEF Dml
<1>2. ASSUME NEW w \in Workers, NEW v \in Views, RequestRefresh(w, v)
      PROVE  Captured' = Captured /\ Delivered' = Delivered
  BY <1>2, FeedStutter DEF RequestRefresh, dataVars, storeVars
<1>3. ASSUME NEW w \in Workers, Refresh(w), ~CommitRefresh(w)
      PROVE  Captured' = Captured /\ Delivered' = Delivered
  <2> USE DEF dataVars, storeVars
  <2>1. CASE LockView(w) \/ LockDelta(w)
    BY <2>1, FeedStutter DEF LockView, LockDelta
  <2>2. CASE Compile(w) \/ BeginTransaction(w) \/ RunBatch(w)
    BY <2>2, FeedStutter DEF Compile, BeginTransaction, RunBatch
  <2>3. CASE SkipRefresh(w) \/ ConflictRefresh(w) \/ FailRefresh(w)
    BY <2>3, FeedStutter DEF SkipRefresh, ConflictRefresh, FailRefresh
  <2> QED
    BY <1>3, <2>1, <2>2, <2>3 DEF Refresh
<1>4. CASE UNCHANGED vars
  BY <1>4, FeedStutter DEF vars, dataVars, storeVars
<1> QED
  BY <1>1, <1>2, <1>3, <1>4, FeedFinish, FeedCommit DEF Next

\* The protocol keeps the promise of ChangeFeed to every incremental view over
\* base tables, whatever the number of views, workers and sessions: captured
\* changes are delivered once, and a refresh that commits delivers them all.
THEOREM ImplementsFeed == Spec => FeedSpec
  BY FeedInit, FeedNext, Inductive, PTL DEF Spec, FeedSpec, Feed!Spec
=============================================================================
