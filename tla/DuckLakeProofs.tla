--------------------------- MODULE DuckLakeProofs ---------------------------
(***************************************************************************)
(* Proofs about DuckLakeRefresh, for any tables, views and changes: a view *)
(* never counts a change twice, nothing that it counted is left in front   *)
(* of its watermarks, and between refreshes it is its query at them,       *)
(* wherever in a batch a refresh that applies deltas has failed.           *)
(*                                                                         *)
(* Every statement of a batch commits by itself, so the strengthening says *)
(* for each of them what the view's data, its delta table, its metadata    *)
(* and its flag look like after it.                                        *)
(***************************************************************************)
EXTENDS DuckLakeRefresh, TLAPS

\* Recoveries and rebuilds, which the flag does not guard, do not fail.
OnlyAppliesFail == FailKinds \subseteq {"apply"}

Writing == {"flagged", "staged", "upserted"}
Ending == {"written", "marking", "clearing"}

\* No snapshot is from the future.
Snapshots ==
    /\ \A c \in Changes : at[c] <= snap
    /\ \A t \in Tables : born[t] <= snap
    /\ \A v \in Views : /\ read[v] <= snap /\ newMark[v] <= snap
                        /\ \A t \in Tables : mark[v][t] <= snap /\ known[v][t] <= snap

\* Two refreshes under way have no table in common.
Exclusive ==
    \A u, v \in Views : u # v /\ pc[u] # "idle" /\ pc[v] # "idle" =>
        Sources[u] \intersect Sources[v] = {}

\* A batch that applies deltas is flagged from before its first write to its
\* end; one that recomputes never is.
Flagging(v) ==
    /\ pc[v] \in {"idle"} \union Writing => kind[v] = "apply"
    /\ pc[v] = "emptied" => kind[v] # "apply"
    /\ pc[v] = "locked" => kind[v] # "recover"
    /\ pc[v] \in Writing \union Ending /\ kind[v] = "apply" => flag[v]
    /\ pc[v] = "compiled" \/ (pc[v] # "locked" /\ kind[v] # "apply") => ~flag[v]

\* Between refreshes a view knows its tables, unless they have been replaced
\* after its watermark; during a refresh it does, and one that applies deltas
\* reads no table that was.
Knowing(v) ==
    \A t \in Sources[v] :
        /\ pc[v] = "idle" => IF known[v][t] = born[t] THEN born[t] <= mark[v][t]
                                                      ELSE mark[v][t] < born[t]
        /\ pc[v] # "idle" => known[v][t] = born[t]
        /\ pc[v] # "idle" /\ kind[v] = "apply" => born[t] <= mark[v][t]

\* The data of the view is still as the refresh before it left it.
Untouched(v) ==
    \/ pc[v] \in {"idle", "locked"} /\ ~flag[v]
    \/ pc[v] \in {"compiled", "flagged", "staged"} /\ kind[v] = "apply"

\* c is there to be counted: it has been committed, and its table not replaced since.
Present(c) == at[c] # 0 /\ at[c] >= born[TableOf[c]]

Counts(v) ==
    \A c \in Changes :
        /\ mv[v][c] <= 1
        /\ mv[v][c] # 0 => at[c] # 0 /\ TableOf[c] \in Sources[v]
        /\ pc[v] = "emptied" => mv[v][c] = 0
        /\ Untouched(v) /\ mv[v][c] # 0 => at[c] <= mark[v][TableOf[c]]
        /\ pc[v] \in {"marking", "clearing"} /\ mv[v][c] # 0 => at[c] <= newMark[v]

\* The same of the changes that do not commit while a refresh runs.
QuietCounts(v) ==
    \A c \in Quiet : TableOf[c] \in Sources[v] =>
        /\ Untouched(v) => mv[v][c] = Count(ShownAt(c, mark[v][TableOf[c]]))
        /\ pc[v] \in {"compiled", "flagged", "staged"} => at[c] <= read[v]
        /\ pc[v] \in {"upserted"} \union Ending => mv[v][c] = Count(Present(c))

\* What the view's delta table holds.
Staging(v) ==
    \A c \in Changes :
        /\ pc[v] = "clearing" \/ (Untouched(v) /\ pc[v] # "staged") => staged[v][c] = 0
        /\ pc[v] = "staged" => staged[v][c] = Count(Delta(v, c))

\* The watermarks that have been moved, and those still to be.
Marking(v) ==
    \A t \in Sources[v] :
        /\ pc[v] \in {"marking", "clearing"} => born[t] <= newMark[v]
        /\ pc[v] = "marking" /\ t \notin todo[v] => mark[v][t] = newMark[v]
        /\ pc[v] = "clearing" => mark[v][t] = newMark[v]

Consistent(v) ==
    /\ Flagging(v) /\ Knowing(v) /\ Counts(v)
    /\ QuietCounts(v) /\ Staging(v) /\ Marking(v)

LInv == TypeOK /\ Snapshots /\ Exclusive /\ \A v \in Views : Consistent(v)

-----------------------------------------------------------------------------
(* Lemmas *)

Same(u) ==
    /\ mark'[u] = mark[u] /\ known'[u] = known[u] /\ flag'[u] = flag[u]
    /\ mv'[u] = mv[u] /\ staged'[u] = staged[u]
    /\ pc'[u] = pc[u] /\ kind'[u] = kind[u] /\ read'[u] = read[u]
    /\ todo'[u] = todo[u] /\ newMark'[u] = newMark[u]

\* A view that a step leaves alone, while the tables stay as they are.
LEMMA SameOK ==
    ASSUME NEW u \in Views, Consistent(u), UNCHANGED <<at, born>>, Same(u)
    PROVE  Consistent(u)'
<1> USE DEF Same
<1>1. Flagging(u)' /\ Knowing(u)' /\ Marking(u)'
  BY DEF Consistent, Flagging, Knowing, Marking
<1>2. Counts(u)' /\ Staging(u)'
  BY DEF Consistent, Counts, Staging, Untouched, Delta, Count
<1>3. QuietCounts(u)'
  BY DEF Consistent, QuietCounts, Untouched, Count, ShownAt, Present
<1> QED
  BY <1>1, <1>2, <1>3 DEF Consistent

\* A statement of the batch of one view.
LEMMA OneView ==
    ASSUME LInv, NEW v \in Views, UNCHANGED <<at, born>>,
           \A u \in Views : u # v => Same(u),
           pc[v] = "idle" => pc'[v] = "idle",
           TypeOK', Snapshots', Consistent(v)'
    PROVE  LInv'
<1>1. \A u \in Views : Consistent(u)'
  BY SameOK DEF LInv
<1>2. Exclusive'
  BY DEF LInv, Exclusive, Same
<1> QED
  BY <1>1, <1>2 DEF LInv

\* Every view starts empty, at snapshot 1 of empty tables.
LEMMA LakeInit == Init => LInv
<1> SUFFICES ASSUME Init PROVE LInv
  OBVIOUS
<1> USE LakeAssumption
<1>1. TypeOK
  BY DEF Init, TypeOK, Steps
<1>2. Snapshots /\ Exclusive
  BY DEF Init, Snapshots, Exclusive
<1>3. ASSUME NEW v \in Views PROVE Consistent(v)
  BY DEF Init, Consistent, Flagging, Knowing, Counts, QuietCounts, Staging, Marking,
         Writing, Ending, Untouched, Count, ShownAt, Present
<1> QED
  BY <1>1, <1>2, <1>3 DEF LInv

-----------------------------------------------------------------------------
(* The lake *)

\* A change that commits while a refresh runs is in a snapshot after the one
\* that the refresh reads, and after the watermark that it has looked up.
LEMMA CommitOK ==
    ASSUME LInv, NEW d \in Changes, Commit(d)
    PROVE  LInv'
<1> USE LakeAssumption DEF Commit, metaVars, dataVars, jobVars
<1>0. /\ at[d] = 0 /\ at' = [at EXCEPT ![d] = snap + 1] /\ snap' = snap + 1 /\ snap \in Nat
      /\ at \in [Changes -> Nat]
  BY DEF LInv, TypeOK
<1>1. TypeOK'
  BY DEF LInv, TypeOK
<1>2. Snapshots'
  BY <1>0 DEF LInv, TypeOK, Snapshots
<1>3. Exclusive'
  BY DEF LInv, Exclusive
<1>4. ASSUME NEW v \in Views
      PROVE  Consistent(v)'
  <2>0. Consistent(v) /\ \A t \in Tables : mark[v][t] \in Nat /\ mark[v][t] <= snap
        /\ read[v] \in Nat /\ read[v] <= snap
    BY DEF LInv, TypeOK, Snapshots
  <2>1. Flagging(v)' /\ Knowing(v)' /\ Marking(v)'
    BY <2>0 DEF Consistent, Flagging, Knowing, Marking
  <2>2. \A c \in Changes : c # d => at'[c] = at[c]
    BY <1>0
  <2>3. at'[d] = snap + 1
    BY <1>0
  <2>4. mv[v][d] = 0
    BY <1>0, <2>0 DEF Consistent, Counts
  <2>5. Counts(v)'
    BY <2>0, <2>2, <2>4 DEF Consistent, Counts, Untouched
  <2>6. Staging(v)'
    <3>1. \A c \in Changes : Delta(v, c)' <=> Delta(v, c)
      BY <1>0, <2>0, <2>2, <2>3 DEF Delta
    <3> QED
      BY <2>0, <3>1 DEF Consistent, Staging, Untouched, Count
  <2>7. QuietCounts(v)'
    <3> SUFFICES ASSUME NEW c \in Quiet, TableOf[c] \in Sources[v]
                 PROVE  /\ Untouched(v) => mv[v][c] = Count(ShownAt(c, mark[v][TableOf[c]]))'
                        /\ pc[v] \in {"compiled", "flagged", "staged"} => at'[c] <= read[v]
                        /\ pc[v] \in {"upserted"} \union Ending => mv[v][c] = Count(Present(c))'
      BY DEF QuietCounts, Untouched
    <3>1. CASE c # d
      BY <2>0, <2>2, <3>1 DEF Consistent, QuietCounts, Count, ShownAt, Present
    <3>2. CASE c = d
      <4>1. pc[v] = "idle"
        BY <3>2 DEF Readers
      <4>2. ~ShownAt(c, mark[v][TableOf[c]])'
        BY <1>0, <2>0, <2>3, <3>2 DEF ShownAt
      <4> QED
        BY <2>4, <3>2, <4>1, <4>2 DEF Count, Ending
    <3> QED
      BY <3>1, <3>2
  <2> QED
    BY <2>1, <2>5, <2>6, <2>7 DEF Consistent
<1> QED
  BY <1>1, <1>2, <1>3, <1>4 DEF LInv

\* The readers of a table that is replaced are between two refreshes: they all
\* know another table than the one there is, and none of their changes is lost.
LEMMA RecreateOK ==
    ASSUME LInv, NEW n \in Tables, Recreate(n)
    PROVE  LInv'
<1> USE LakeAssumption DEF Recreate, metaVars, dataVars, jobVars
<1>0. /\ born' = [born EXCEPT ![n] = snap + 1] /\ snap' = snap + 1 /\ snap \in Nat
      /\ born \in [Tables -> Nat] /\ at \in [Changes -> Nat] /\ at' = at
  BY DEF LInv, TypeOK
<1>1. TypeOK'
  BY DEF LInv, TypeOK
<1>2. Snapshots'
  BY <1>0 DEF LInv, TypeOK, Snapshots
<1>3. Exclusive'
  BY DEF LInv, Exclusive
<1>4. ASSUME NEW v \in Views
      PROVE  Consistent(v)'
  <2>0. /\ Consistent(v) /\ Sources[v] \subseteq Tables
        /\ \A t \in Tables : /\ mark[v][t] \in Nat /\ mark[v][t] <= snap
                             /\ known[v][t] \in Nat /\ known[v][t] <= snap
    BY DEF LInv, TypeOK, Snapshots
  <2>1. n \in Sources[v] => pc[v] = "idle"
    BY DEF Readers
  <2>2. \A t \in Tables : t # n => born'[t] = born[t]
    BY <1>0
  <2>3. born'[n] = snap + 1
    BY <1>0
  <2>4. Flagging(v)' /\ Counts(v)'
    BY <2>0 DEF Consistent, Flagging, Counts, Untouched
  <2>5. Knowing(v)'
    <3> SUFFICES ASSUME NEW t \in Sources[v]
                 PROVE  /\ pc[v] = "idle" => IF known[v][t] = born'[t] THEN born'[t] <= mark[v][t]
                                                                      ELSE mark[v][t] < born'[t]
                        /\ pc[v] # "idle" => known[v][t] = born'[t]
                        /\ pc[v] # "idle" /\ kind[v] = "apply" => born'[t] <= mark[v][t]
      BY DEF Knowing
    <3>1. CASE t = n
      <4>1. known[v][n] # snap + 1 /\ mark[v][n] < snap + 1
        BY <1>0, <2>0
      <4> QED
        BY <2>1, <2>3, <3>1, <4>1
    <3>2. CASE t # n
      BY <2>0, <2>2, <3>2 DEF Consistent, Knowing
    <3> QED
      BY <3>1, <3>2
  <2>6. Staging(v)'
    <3> SUFFICES ASSUME NEW c \in Changes, pc[v] = "staged"
                 PROVE  Delta(v, c)' <=> Delta(v, c)
      BY <2>0 DEF Consistent, Staging, Untouched, Count
    <3> QED
      BY <2>1, <2>2 DEF Delta
  <2>7. QuietCounts(v)'
    <3> SUFFICES ASSUME NEW c \in Quiet, TableOf[c] \in Sources[v]
                 PROVE  /\ Untouched(v) => mv[v][c] = Count(ShownAt(c, mark[v][TableOf[c]]))'
                        /\ pc[v] \in {"compiled", "flagged", "staged"} => at[c] <= read[v]
                        /\ pc[v] \in {"upserted"} \union Ending => mv[v][c] = Count(Present(c))'
      BY DEF QuietCounts, Untouched
    <3>0. c \in Changes /\ TableOf[c] \in Tables
      OBVIOUS
    <3>1. CASE TableOf[c] # n
      BY <2>0, <2>2, <3>0, <3>1 DEF Consistent, QuietCounts, Count, ShownAt, Present
    <3>2. CASE TableOf[c] = n
      <4>1. pc[v] = "idle"
        BY <2>1, <3>2
      <4>2. ~(snap + 1 <= mark[v][n]) /\ ~(born[n] # 0)
        BY <1>0, <2>0
      <4>3. ShownAt(c, mark[v][n])' <=> at[c] # 0 /\ at[c] <= mark[v][n]
        BY <2>3, <3>2, <4>2 DEF ShownAt
      <4>4. ShownAt(c, mark[v][n]) <=> at[c] # 0 /\ at[c] <= mark[v][n]
        BY <1>0, <3>0, <3>2, <4>2 DEF ShownAt
      <4> QED
        BY <2>0, <3>2, <4>1, <4>3, <4>4 DEF Consistent, QuietCounts, Count, Ending
    <3> QED
      BY <3>1, <3>2
  <2>8. Marking(v)'
    BY <2>0, <2>1, <2>2 DEF Consistent, Marking
  <2> QED
    BY <2>4, <2>5, <2>6, <2>7, <2>8 DEF Consistent
<1> QED
  BY <1>1, <1>2, <1>3, <1>4 DEF LInv

-----------------------------------------------------------------------------
(* Asking whether there is anything to do *)

\* Watermarks that move without a refresh pass no change.
LEMMA SkipOK ==
    ASSUME LInv, NEW v \in Views, SkipRefresh(v)
    PROVE  LInv'
<1> USE LakeAssumption DEF SkipRefresh, AdvanceMarks, lakeVars, jobVars
<1> DEFINE behind == Advances(v)
<1>0. /\ Consistent(v) /\ pc[v] = "idle" /\ Sources[v] \subseteq Tables /\ snap \in Nat
      /\ mark \in [Views -> [Tables -> Nat]] /\ staged \in [Views -> [Changes -> Nat]]
      /\ \A c \in Changes : at[c] \in Nat /\ at[c] <= snap
      /\ \A t \in Tables : /\ born[t] \in Nat /\ born[t] <= snap
                           /\ mark[v][t] \in Nat /\ mark[v][t] <= snap
  <2>1. pc[v] = "idle" /\ Consistent(v)
    BY DEF LInv, Unlocked
  <2>2. TypeOK /\ Snapshots
    BY DEF LInv
  <2> HIDE DEF SkipRefresh
  <2> QED
    BY <2>1, <2>2 DEF TypeOK, Snapshots
<1>1. /\ mark'[v] = [t \in Tables |-> IF t \in behind THEN snap ELSE mark[v][t]]
      /\ staged'[v] = IF behind # {} THEN [c \in Changes |-> 0] ELSE staged[v]
      /\ \A u \in Views : u # v => Same(u)
  <2>1. /\ mark' = [mark EXCEPT ![v] = [t \in Tables |-> IF t \in behind THEN snap ELSE @[t]]]
        /\ staged' = [staged EXCEPT ![v] = IF behind # {} THEN [c \in Changes |-> 0] ELSE @]
        /\ UNCHANGED <<known, flag, mv, pc, kind, read, todo, newMark>>
    OBVIOUS
  <2> HIDE DEF behind, SkipRefresh
  <2> QED
    BY <1>0, <2>1 DEF Same
<1>2. \A t \in Sources[v] : ~HasChanges(v, t)
  BY DEF Active
<1>3. \A t \in Sources[v] : t \in behind <=> mark[v][t] # snap
  BY DEF Advances
<1>4. \A t \in Sources[v] : mark'[v][t] = snap /\ known[v][t] = born[t] /\ born[t] <= mark[v][t]
  <2> SUFFICES ASSUME NEW t \in Sources[v]
               PROVE  mark'[v][t] = snap /\ known[v][t] = born[t] /\ born[t] <= mark[v][t]
    OBVIOUS
  <2>1. mark'[v][t] = snap
    BY <1>0, <1>1, <1>3
  <2>2. mark[v][t] # snap => known[v][t] = born[t]
    BY <1>2 DEF HasChanges
  <2>3. mark[v][t] = snap => known[v][t] = born[t]
    BY <1>0 DEF Consistent, Knowing
  <2> QED
    BY <1>0, <2>1, <2>2, <2>3 DEF Consistent, Knowing
\* Nothing has been committed to the tables of the view after its watermarks.
<1>5. \A c \in Changes : TableOf[c] \in Sources[v] /\ at[c] >= born[TableOf[c]] =>
         at[c] <= mark[v][TableOf[c]]
  <2> SUFFICES ASSUME NEW c \in Changes, TableOf[c] \in Sources[v],
                      at[c] >= born[TableOf[c]], ~(at[c] <= mark[v][TableOf[c]])
               PROVE  FALSE
    OBVIOUS
  <2>1. mark[v][TableOf[c]] < at[c] /\ mark[v][TableOf[c]] # snap
    BY <1>0
  <2> QED
    BY <1>2, <2>1 DEF HasChanges
<1>6. TypeOK'
  BY <1>0 DEF LInv, TypeOK
<1>7. Snapshots'
  BY <1>0, <1>1 DEF LInv, Snapshots, Same
<1>8. Consistent(v)'
  <2>1. Flagging(v)' /\ Marking(v)'
    BY <1>0 DEF Consistent, Flagging, Marking
  <2>2. Knowing(v)'
    BY <1>0, <1>4 DEF Knowing
  <2>3. Counts(v)'
    <3> SUFFICES ASSUME NEW c \in Changes, Untouched(v), mv[v][c] # 0
                 PROVE  at[c] <= mark'[v][TableOf[c]]
      BY <1>0 DEF Consistent, Counts, Untouched
    <3> QED
      BY <1>0, <1>4 DEF Consistent, Counts
  <2>4. QuietCounts(v)'
    <3> SUFFICES ASSUME NEW c \in Quiet, TableOf[c] \in Sources[v]
                 PROVE  ShownAt(c, mark[v][TableOf[c]])' <=> ShownAt(c, mark[v][TableOf[c]])
      BY <1>0 DEF Consistent, QuietCounts, Untouched, Ending, Count
    <3>1. mark'[v][TableOf[c]] = snap /\ born[TableOf[c]] <= mark[v][TableOf[c]]
          /\ born[TableOf[c]] <= snap
      BY <1>0, <1>4
    <3>2. c \in Changes /\ at[c] \in Nat /\ at[c] <= snap /\ born[TableOf[c]] \in Nat
          /\ mark[v][TableOf[c]] \in Nat
      BY <1>0
    <3>3. at[c] >= born[TableOf[c]] => at[c] <= mark[v][TableOf[c]]
      BY <1>5, <3>2
    <3> QED
      BY <3>1, <3>2, <3>3 DEF ShownAt
  <2>5. Staging(v)'
    BY <1>0, <1>1 DEF Consistent, Staging, Untouched
  <2> QED
    BY <2>1, <2>2, <2>3, <2>4, <2>5 DEF Consistent
<1> QED
  BY <1>0, <1>1, <1>6, <1>7, <1>8, OneView
-----------------------------------------------------------------------------
(* Types *)

\* No step leaves the types, whichever refreshes fail.
LEMMA LakeTypesStep ==
    ASSUME TypeOK, [Next]_vars
    PROVE  TypeOK'
<1> USE LakeAssumption DEF TypeOK, lakeVars, metaVars, dataVars, jobVars
<1>1. ASSUME NEW c \in Changes, Commit(c) PROVE TypeOK'
  BY <1>1 DEF Commit
<1>2. ASSUME NEW t \in Tables, Recreate(t) PROVE TypeOK'
  BY <1>2 DEF Recreate
<1>3. ASSUME NEW v \in Views, SkipRefresh(v) PROVE TypeOK'
  BY <1>3 DEF SkipRefresh, AdvanceMarks
<1>4. ASSUME NEW v \in Views, BeginRefresh(v) PROVE TypeOK'
  BY <1>4 DEF BeginRefresh, Learn, Steps
<1>5. ASSUME NEW v \in Views, Compile(v) PROVE TypeOK'
  <2>1. /\ flag' \in [Views -> BOOLEAN]
        /\ kind' \in [Views -> {"apply", "recover", "rebuild"}]
    <3>1. CASE Interrupted(v)
      BY <1>5, <3>1 DEF Compile
    <3>2. CASE ~Interrupted(v)
      BY <1>5, <3>2 DEF Compile
    <3> QED
      BY <3>1, <3>2
  <2>2. read' = [read EXCEPT ![v] = snap] /\ pc' = [pc EXCEPT ![v] = "compiled"]
        /\ UNCHANGED <<lakeVars, mark, known, dataVars, todo, newMark, failures>>
    BY <1>5 DEF Compile
  <2> QED
    BY <2>1, <2>2 DEF Steps
<1>6. ASSUME NEW v \in Views, RaiseFlag(v) PROVE TypeOK'
  BY <1>6 DEF RaiseFlag, Steps
<1>7. ASSUME NEW v \in Views, WriteDelta(v) PROVE TypeOK'
  BY <1>7 DEF WriteDelta, Steps, Count
<1>8. ASSUME NEW v \in Views, Upsert(v) PROVE TypeOK'
  BY <1>8 DEF Upsert, Steps
<1>9. ASSUME NEW v \in Views, PurgeDelta(v) PROVE TypeOK'
  BY <1>9 DEF PurgeDelta, Steps
<1>10. ASSUME NEW v \in Views, Empty(v) PROVE TypeOK'
  BY <1>10 DEF Empty, Steps
<1>11. ASSUME NEW v \in Views, Refill(v) PROVE TypeOK'
  BY <1>11 DEF Refill, Steps, Count
<1>12. ASSUME NEW v \in Views, ReadWatermark(v) PROVE TypeOK'
  BY <1>12 DEF ReadWatermark, Watermark, Steps
<1>13. ASSUME NEW v \in Views, MoveMark(v) PROVE TypeOK'
  <2> PICK t \in todo[v] :
         /\ mark' = [mark EXCEPT ![v][t] = newMark[v]]
         /\ todo' = [todo EXCEPT ![v] = @ \ {t}]
         /\ pc' = [pc EXCEPT ![v] = IF todo[v] = {t} THEN "clearing" ELSE @]
    BY <1>13 DEF MoveMark
  <2> QED
    BY <1>13 DEF MoveMark, Steps
<1>14. ASSUME NEW v \in Views, EndRefresh(v) PROVE TypeOK'
  BY <1>14 DEF EndRefresh, Release, Steps
<1>15. ASSUME NEW v \in Views, Fail(v) PROVE TypeOK'
  BY <1>15 DEF Fail, Release, Steps
<1>16. CASE UNCHANGED vars
  BY <1>16 DEF vars
<1> QED
  BY <1>1, <1>2, <1>3, <1>4, <1>5, <1>6, <1>7, <1>8, <1>9, <1>10, <1>11, <1>12,
     <1>13, <1>14, <1>15, <1>16 DEF Next, Ask, Batch

\* What the lemmas below use of the view that makes the step.
LEMMA ViewFacts ==
    ASSUME LInv, NEW v \in Views
    PROVE  /\ Consistent(v) /\ Sources[v] \subseteq Tables /\ snap \in Nat
           /\ read[v] \in Nat /\ read[v] <= snap /\ newMark[v] \in Nat /\ newMark[v] <= snap
           /\ kind[v] \in {"apply", "recover", "rebuild"} /\ todo[v] \subseteq Tables
           /\ flag[v] \in BOOLEAN /\ pc[v] \in Steps
           /\ \A t \in Tables : /\ born[t] \in Nat /\ born[t] <= snap
                                /\ mark[v][t] \in Nat /\ mark[v][t] <= snap
                                /\ known[v][t] \in Nat /\ known[v][t] <= snap
           /\ \A c \in Changes : /\ at[c] \in Nat /\ at[c] <= snap
                                 /\ mv[v][c] \in Nat /\ staged[v][c] \in Nat
                                 /\ TableOf[c] \in Tables
BY LakeAssumption DEF LInv, TypeOK, Snapshots

\* The same of one statement of one view.
LEMMA ViewTypes ==
    ASSUME TypeOK, NEW v \in Views, Ask(v) \/ Batch(v) \/ Fail(v)
    PROVE  TypeOK'
BY LakeTypesStep DEF Next

-----------------------------------------------------------------------------
(* A refresh that recomputes nothing yet: it is begun, and compiled *)

\* A refresh that begins knows all its tables, and applies deltas only if none
\* of them has been replaced after its watermark.
LEMMA BeginOK ==
    ASSUME LInv, NEW v \in Views, BeginRefresh(v)
    PROVE  LInv'
<1> USE LakeAssumption DEF lakeVars, dataVars
<1>0. TypeOK /\ Unlocked(v) /\ pc[v] = "idle" /\ UNCHANGED <<at, born, snap>>
  BY DEF BeginRefresh, Unlocked, LInv
<1>1. /\ known'[v] = [t \in Tables |-> IF t \in Sources[v] /\ mark[v][t] # snap
                                       THEN born[t] ELSE known[v][t]]
      /\ mark'[v] = mark[v] /\ flag'[v] = flag[v] /\ mv'[v] = mv[v] /\ staged'[v] = staged[v]
      /\ pc'[v] = "locked" /\ read'[v] = read[v] /\ newMark'[v] = newMark[v]
      /\ todo'[v] = todo[v]
      /\ kind'[v] = IF Replaced(v) # {} THEN "rebuild" ELSE "apply"
      /\ \A u \in Views : u # v => Same(u)
  BY <1>0 DEF TypeOK, BeginRefresh, Learn, Same
<1>2. TypeOK'
  BY ViewTypes DEF LInv, Ask
<1>3. Consistent(v) /\ Sources[v] \subseteq Tables /\ snap \in Nat
      /\ \A t \in Tables : /\ born[t] \in Nat /\ born[t] <= snap
                           /\ mark[v][t] \in Nat /\ mark[v][t] <= snap
                           /\ known[v][t] \in Nat /\ known[v][t] <= snap
  BY ViewFacts
<1>4. Snapshots'
  BY <1>0, <1>1, <1>3 DEF LInv, Snapshots, Same
<1>5. Exclusive'
  BY <1>0, <1>1 DEF LInv, Exclusive, Unlocked, Same
<1> HIDE DEF BeginRefresh
<1>6. \A u \in Views : u # v => Consistent(u)'
  BY <1>0, <1>1, SameOK DEF LInv
<1>7. Consistent(v)'
  <2>1. Flagging(v)'
    BY <1>1 DEF Flagging, Writing, Ending
  <2>2. Knowing(v)'
    <3> SUFFICES ASSUME NEW t \in Sources[v]
                 PROVE  known'[v][t] = born[t] /\ (kind'[v] = "apply" => born[t] <= mark[v][t])
      BY <1>0, <1>1 DEF Knowing
    <3>1. IF known[v][t] = born[t] THEN born[t] <= mark[v][t] ELSE mark[v][t] < born[t]
      BY <1>0, <1>3 DEF Consistent, Knowing
    <3>2. mark[v][t] = snap => known[v][t] = born[t]
      BY <1>3, <3>1
    <3>3. known'[v][t] = born[t]
      BY <1>1, <1>3, <3>2
    <3>4. kind'[v] = "apply" => mark[v][t] = snap \/ known[v][t] = born[t]
      BY <1>1 DEF Replaced
    <3> QED
      BY <3>1, <3>2, <3>3, <3>4
  <2>3. Counts(v)' /\ Staging(v)' /\ Marking(v)'
    BY <1>0, <1>1, <1>3 DEF Consistent, Counts, Staging, Marking, Untouched
  <2>4. QuietCounts(v)'
    BY <1>0, <1>1, <1>3 DEF Consistent, QuietCounts, Untouched, Count, ShownAt, Ending
  <2> QED
    BY <2>1, <2>2, <2>3, <2>4 DEF Consistent
<1> QED
  BY <1>2, <1>4, <1>5, <1>6, <1>7 DEF LInv

\* A flag makes it a recovery, and takes the flag away.
LEMMA CompileOK ==
    ASSUME LInv, NEW v \in Views, Compile(v)
    PROVE  LInv'
<1> USE LakeAssumption DEF lakeVars, dataVars
<1>0. TypeOK /\ pc[v] = "locked" /\ UNCHANGED <<at, born, snap>>
  BY DEF Compile, LInv
<1>1. /\ read'[v] = snap /\ pc'[v] = "compiled"
      /\ mark'[v] = mark[v] /\ known'[v] = known[v] /\ mv'[v] = mv[v]
      /\ staged'[v] = staged[v] /\ todo'[v] = todo[v] /\ newMark'[v] = newMark[v]
  BY <1>0 DEF TypeOK, Compile
<1>2. /\ flag'[v] = FALSE
      /\ flag[v] => kind'[v] = "recover"
      /\ ~flag[v] => kind'[v] = "rebuild" \/ (kind[v] # "rebuild" /\ kind'[v] = "apply")
  <2>1. CASE flag[v]
    BY <1>0, <2>1 DEF TypeOK, Compile, Interrupted
  <2>2. CASE ~flag[v]
    BY <1>0, <2>2 DEF TypeOK, Compile, Interrupted
  <2> QED
    BY <2>1, <2>2
<1>3. \A u \in Views : u # v => Same(u)
  BY <1>0 DEF TypeOK, Compile, Same
<1>4. TypeOK'
  BY ViewTypes DEF LInv, Batch
<1> HIDE DEF Compile
<1>5. Consistent(v) /\ Sources[v] \subseteq Tables /\ snap \in Nat
      /\ kind[v] \in {"apply", "recover", "rebuild"}
      /\ \A c \in Changes : at[c] \in Nat /\ at[c] <= snap
  BY ViewFacts
<1>6. Snapshots'
  BY <1>0, <1>1, <1>3, <1>5 DEF LInv, Snapshots, Same
<1>7. kind'[v] = "apply" => ~flag[v] /\ kind[v] = "apply"
  BY <1>0, <1>2, <1>5 DEF Consistent, Flagging
<1>8. Consistent(v)'
  <2>1. Flagging(v)' /\ Knowing(v)' /\ Marking(v)'
    BY <1>0, <1>1, <1>2, <1>5, <1>7 DEF Consistent, Flagging, Knowing, Marking, Writing, Ending
  <2>2. Untouched(v)' => Untouched(v)
    BY <1>0, <1>1, <1>7 DEF Untouched
  <2>3. Counts(v)' /\ Staging(v)'
    BY <1>0, <1>1, <1>5, <2>2 DEF Consistent, Counts, Staging
  <2>4. QuietCounts(v)'
    BY <1>0, <1>1, <1>5, <2>2 DEF Consistent, QuietCounts, Count, ShownAt, Ending
  <2> QED
    BY <2>1, <2>3, <2>4 DEF Consistent
<1> QED
  BY <1>0, <1>1, <1>3, <1>4, <1>6, <1>8, OneView
-----------------------------------------------------------------------------
(* A batch that applies deltas *)

\* A statement that writes makes a snapshot.
LEMMA Later ==
    ASSUME TypeOK, Snapshots, snap' = snap + 1, UNCHANGED <<at, born>>,
           \A u \in Views : /\ read'[u] = read[u] /\ newMark'[u] = newMark[u]
                            /\ mark'[u] = mark[u] /\ known'[u] = known[u]
    PROVE  Snapshots'
<1>1. /\ \A c \in Changes : at[c] \in Nat /\ at[c] <= snap
      /\ \A t \in Tables : born[t] \in Nat /\ born[t] <= snap
      /\ \A u \in Views : /\ read[u] \in Nat /\ newMark[u] \in Nat
                           /\ read[u] <= snap /\ newMark[u] <= snap
                           /\ \A t \in Tables : /\ mark[u][t] \in Nat /\ known[u][t] \in Nat
                                                /\ mark[u][t] <= snap /\ known[u][t] <= snap
      /\ snap \in Nat
  BY DEF TypeOK, Snapshots
<1> QED
  BY <1>1 DEF Snapshots

\* The flag is raised while the data is still untouched.
LEMMA RaiseFlagOK ==
    ASSUME LInv, NEW v \in Views, RaiseFlag(v)
    PROVE  LInv'
<1> USE LakeAssumption DEF lakeVars, dataVars
<1>0. TypeOK /\ pc[v] = "compiled" /\ kind[v] = "apply" /\ UNCHANGED <<at, born, snap>>
  BY DEF RaiseFlag, LInv
<1>1. /\ flag'[v] = TRUE /\ pc'[v] = "flagged"
      /\ read'[v] = read[v] /\ kind'[v] = kind[v]
      /\ mark'[v] = mark[v] /\ known'[v] = known[v] /\ mv'[v] = mv[v]
      /\ staged'[v] = staged[v] /\ todo'[v] = todo[v] /\ newMark'[v] = newMark[v]
      /\ \A u \in Views : u # v => Same(u)
  BY <1>0 DEF TypeOK, RaiseFlag, Same
<1>2. TypeOK'
  BY ViewTypes DEF LInv, Batch
<1> HIDE DEF RaiseFlag
<1>3. Consistent(v)
  BY DEF LInv
<1>4. Snapshots'
  BY <1>0, <1>1 DEF LInv, Snapshots, Same
<1>5. Consistent(v)'
  <2>1. Flagging(v)' /\ Knowing(v)' /\ Marking(v)'
    BY <1>0, <1>1, <1>3 DEF Consistent, Flagging, Knowing, Marking, Writing, Ending
  <2>2. Counts(v)' /\ Staging(v)'
    BY <1>0, <1>1, <1>3 DEF Consistent, Counts, Staging, Untouched
  <2>3. QuietCounts(v)'
    BY <1>0, <1>1, <1>3 DEF Consistent, QuietCounts, Untouched, Count, ShownAt, Ending
  <2> QED
    BY <2>1, <2>2, <2>3 DEF Consistent
<1> QED
  BY <1>0, <1>1, <1>2, <1>4, <1>5, OneView

\* The delta table was empty: after the statement it holds the delta.
LEMMA WriteDeltaOK ==
    ASSUME LInv, NEW v \in Views, WriteDelta(v)
    PROVE  LInv'
<1> USE LakeAssumption DEF metaVars
<1>0. TypeOK /\ pc[v] = "flagged" /\ UNCHANGED <<at, born>> /\ snap' = snap + 1
  BY DEF WriteDelta, LInv
<1>1. /\ staged'[v] = [c \in Changes |-> staged[v][c] + Count(Delta(v, c))]
      /\ pc'[v] = "staged" /\ flag'[v] = flag[v]
      /\ read'[v] = read[v] /\ kind'[v] = kind[v]
      /\ mark'[v] = mark[v] /\ known'[v] = known[v] /\ mv'[v] = mv[v]
      /\ todo'[v] = todo[v] /\ newMark'[v] = newMark[v]
      /\ \A u \in Views : u # v => Same(u)
  BY <1>0 DEF TypeOK, WriteDelta, Same
<1>2. TypeOK'
  BY ViewTypes DEF LInv, Batch
<1> HIDE DEF WriteDelta
<1>3. Consistent(v)
  BY DEF LInv
<1>4. Snapshots'
  BY <1>0, <1>1, Later DEF LInv, Same
<1>5. Consistent(v)'
  <2>1. Flagging(v)' /\ Knowing(v)' /\ Marking(v)'
    BY <1>0, <1>1, <1>3 DEF Consistent, Flagging, Knowing, Marking, Writing, Ending
  <2>2. Counts(v)'
    BY <1>0, <1>1, <1>3 DEF Consistent, Counts, Flagging, Untouched, Writing
  <2>3. Staging(v)'
    <3> SUFFICES ASSUME NEW c \in Changes
                 PROVE  staged'[v][c] = Count(Delta(v, c))'
      BY <1>1 DEF Staging
    <3>1. staged[v][c] = 0
      BY <1>0, <1>3 DEF Consistent, Staging, Untouched, Flagging, Writing
    <3>2. Delta(v, c)' <=> Delta(v, c)
      BY <1>0, <1>1 DEF Delta
    <3>3. staged'[v][c] = 0 + Count(Delta(v, c))
      BY <1>1, <3>1
    <3> QED
      BY <3>2, <3>3 DEF Count
  <2>4. QuietCounts(v)'
    BY <1>0, <1>1, <1>3
       DEF Consistent, QuietCounts, Untouched, Flagging, Writing, Count, ShownAt, Ending
  <2> QED
    BY <2>1, <2>2, <2>3, <2>4 DEF Consistent
<1> QED
  BY <1>0, <1>1, <1>2, <1>4, <1>5, OneView

\* What is counted is behind the watermarks, and what is added ahead of them.
LEMMA UpsertOK ==
    ASSUME LInv, NEW v \in Views, Upsert(v)
    PROVE  LInv'
<1> USE LakeAssumption DEF metaVars
<1>0. TypeOK /\ pc[v] = "staged" /\ UNCHANGED <<at, born>> /\ snap' = snap + 1
  BY DEF Upsert, LInv
<1>1. /\ mv'[v] = [c \in Changes |-> mv[v][c] + staged[v][c]]
      /\ pc'[v] = "upserted" /\ flag'[v] = flag[v]
      /\ read'[v] = read[v] /\ kind'[v] = kind[v]
      /\ mark'[v] = mark[v] /\ known'[v] = known[v] /\ staged'[v] = staged[v]
      /\ todo'[v] = todo[v] /\ newMark'[v] = newMark[v]
      /\ \A u \in Views : u # v => Same(u)
  BY <1>0 DEF TypeOK, Upsert, Same
<1>2. TypeOK'
  BY ViewTypes DEF LInv, Batch
<1> HIDE DEF Upsert
<1>3. Consistent(v) /\ Sources[v] \subseteq Tables
      /\ \A t \in Tables : born[t] \in Nat /\ mark[v][t] \in Nat
      /\ \A c \in Changes : at[c] \in Nat /\ mv[v][c] \in Nat /\ TableOf[c] \in Tables
  BY ViewFacts
<1>4. Snapshots'
  BY <1>0, <1>1, Later DEF LInv, Same
<1>5. kind[v] = "apply" /\ Untouched(v)
  BY <1>0, <1>3 DEF Consistent, Flagging, Untouched, Writing
<1>6. \A c \in Changes : mv'[v][c] = mv[v][c] + Count(Delta(v, c))
  BY <1>0, <1>1, <1>3 DEF Consistent, Staging
<1>7. Consistent(v)'
  <2>1. Flagging(v)' /\ Knowing(v)' /\ Marking(v)'
    BY <1>0, <1>1, <1>3 DEF Consistent, Flagging, Knowing, Marking, Writing, Ending
  <2>2. Staging(v)'
    BY <1>1 DEF Staging, Untouched
  <2>3. Counts(v)'
    <3> SUFFICES ASSUME NEW c \in Changes
                 PROVE  mv'[v][c] <= 1 /\ (mv'[v][c] # 0 => at[c] # 0 /\ TableOf[c] \in Sources[v])
      BY <1>0, <1>1 DEF Counts, Untouched
    <3>1. mv[v][c] <= 1
          /\ (mv[v][c] # 0 => at[c] # 0 /\ TableOf[c] \in Sources[v]
                              /\ at[c] <= mark[v][TableOf[c]])
      BY <1>3, <1>5 DEF Consistent, Counts
    <3>2. Delta(v, c) => TableOf[c] \in Sources[v] /\ mark[v][TableOf[c]] < at[c]
      BY DEF Delta
    <3> QED
      BY <1>3, <1>6, <3>1, <3>2 DEF Count
  <2>4. QuietCounts(v)'
    <3> SUFFICES ASSUME NEW c \in Quiet, TableOf[c] \in Sources[v]
                 PROVE  mv'[v][c] = Count(Present(c))
      BY <1>0, <1>1 DEF QuietCounts, Untouched, Count, Present
    <3>0. c \in Changes /\ at[c] \in Nat /\ born[TableOf[c]] \in Nat
          /\ mark[v][TableOf[c]] \in Nat
      BY <1>3
    <3>1. mv[v][c] = Count(ShownAt(c, mark[v][TableOf[c]])) /\ at[c] <= read[v]
      BY <1>0, <1>3, <1>5 DEF Consistent, QuietCounts
    <3>2. born[TableOf[c]] <= mark[v][TableOf[c]]
      BY <1>0, <1>3, <1>5 DEF Consistent, Knowing
    <3> QED
      BY <1>6, <3>0, <3>1, <3>2 DEF Count, ShownAt, Delta, Present
  <2> QED
    BY <2>1, <2>2, <2>3, <2>4 DEF Consistent
<1> QED
  BY <1>0, <1>1, <1>2, <1>4, <1>7, OneView

\* The data is complete; what the delta table holds no longer matters.
LEMMA PurgeDeltaOK ==
    ASSUME LInv, NEW v \in Views, PurgeDelta(v)
    PROVE  LInv'
<1> USE LakeAssumption DEF metaVars
<1>0. TypeOK /\ pc[v] = "upserted" /\ UNCHANGED <<at, born>> /\ snap' = snap + 1
  BY DEF PurgeDelta, LInv
<1>1. /\ pc'[v] = "written" /\ flag'[v] = flag[v] /\ mv'[v] = mv[v]
      /\ read'[v] = read[v] /\ kind'[v] = kind[v]
      /\ mark'[v] = mark[v] /\ known'[v] = known[v]
      /\ todo'[v] = todo[v] /\ newMark'[v] = newMark[v]
      /\ \A u \in Views : u # v => Same(u)
  BY <1>0 DEF TypeOK, PurgeDelta, Same
<1>2. TypeOK'
  BY ViewTypes DEF LInv, Batch
<1> HIDE DEF PurgeDelta
<1>3. Consistent(v)
  BY DEF LInv
<1>4. Snapshots'
  BY <1>0, <1>1, Later DEF LInv, Same
<1>5. Consistent(v)'
  <2>1. Flagging(v)' /\ Knowing(v)' /\ Marking(v)'
    BY <1>0, <1>1, <1>3 DEF Consistent, Flagging, Knowing, Marking, Writing, Ending
  <2>2. Counts(v)' /\ Staging(v)'
    BY <1>0, <1>1, <1>3 DEF Consistent, Counts, Staging, Untouched
  <2>3. QuietCounts(v)'
    BY <1>0, <1>1, <1>3 DEF Consistent, QuietCounts, Untouched, Count, Present, Ending
  <2> QED
    BY <2>1, <2>2, <2>3 DEF Consistent
<1> QED
  BY <1>0, <1>1, <1>2, <1>4, <1>5, OneView
-----------------------------------------------------------------------------
(* A batch that recomputes *)

\* From here to its end a recompute has no flag to tell that it was interrupted.
LEMMA EmptyOK ==
    ASSUME LInv, NEW v \in Views, Empty(v)
    PROVE  LInv'
<1> USE LakeAssumption DEF metaVars
<1>0. TypeOK /\ pc[v] = "compiled" /\ kind[v] # "apply" /\ UNCHANGED <<at, born>>
      /\ snap' = snap + 1
  BY DEF Empty, LInv
<1>1. /\ mv'[v] = [c \in Changes |-> 0] /\ pc'[v] = "emptied" /\ flag'[v] = flag[v]
      /\ read'[v] = read[v] /\ kind'[v] = kind[v] /\ staged'[v] = staged[v]
      /\ mark'[v] = mark[v] /\ known'[v] = known[v]
      /\ todo'[v] = todo[v] /\ newMark'[v] = newMark[v]
      /\ \A u \in Views : u # v => Same(u)
  BY <1>0 DEF TypeOK, Empty, Same
<1>2. TypeOK'
  BY ViewTypes DEF LInv, Batch
<1> HIDE DEF Empty
<1>3. Consistent(v)
  BY DEF LInv
<1>4. Snapshots'
  BY <1>0, <1>1, Later DEF LInv, Same
<1>5. Consistent(v)'
  <2>1. Flagging(v)' /\ Knowing(v)' /\ Marking(v)'
    BY <1>0, <1>1, <1>3 DEF Consistent, Flagging, Knowing, Marking, Writing, Ending
  <2>2. Counts(v)' /\ Staging(v)' /\ QuietCounts(v)'
    BY <1>0, <1>1 DEF Counts, Staging, QuietCounts, Untouched, Ending
  <2> QED
    BY <2>1, <2>2 DEF Consistent
<1> QED
  BY <1>0, <1>1, <1>2, <1>4, <1>5, OneView

\* The recompute counts what is there, whatever the plan was bound to.
LEMMA RefillOK ==
    ASSUME LInv, NEW v \in Views, Refill(v)
    PROVE  LInv'
<1> USE LakeAssumption DEF metaVars
<1>0. TypeOK /\ pc[v] = "emptied" /\ UNCHANGED <<at, born>> /\ snap' = snap + 1
  BY DEF Refill, LInv
<1>1. /\ mv'[v] = [c \in Changes |-> mv[v][c] + Count(TableOf[c] \in Sources[v]
                                                      /\ ShownAt(c, snap))]
      /\ pc'[v] = "written" /\ flag'[v] = flag[v]
      /\ read'[v] = read[v] /\ kind'[v] = kind[v] /\ staged'[v] = staged[v]
      /\ mark'[v] = mark[v] /\ known'[v] = known[v]
      /\ todo'[v] = todo[v] /\ newMark'[v] = newMark[v]
      /\ \A u \in Views : u # v => Same(u)
  BY <1>0 DEF TypeOK, Refill, Same
<1>2. TypeOK'
  BY ViewTypes DEF LInv, Batch
<1> HIDE DEF Refill
<1>3. /\ Consistent(v) /\ snap \in Nat
      /\ \A t \in Tables : born[t] \in Nat /\ born[t] <= snap
      /\ \A c \in Changes : at[c] \in Nat /\ at[c] <= snap /\ TableOf[c] \in Tables
  BY ViewFacts
<1>4. Snapshots'
  BY <1>0, <1>1, Later DEF LInv, Same
<1>5. kind[v] # "apply"
  BY <1>0, <1>3 DEF Consistent, Flagging
<1>6. \A c \in Changes : mv'[v][c] = Count(TableOf[c] \in Sources[v] /\ Present(c))
  <2> SUFFICES ASSUME NEW c \in Changes
               PROVE  mv'[v][c] = Count(TableOf[c] \in Sources[v] /\ Present(c))
    OBVIOUS
  <2>1. mv[v][c] = 0
    BY <1>0, <1>3 DEF Consistent, Counts
  <2>2. ShownAt(c, snap) <=> Present(c)
    BY <1>3 DEF ShownAt, Present
  <2>3. mv'[v][c] = 0 + Count(TableOf[c] \in Sources[v] /\ ShownAt(c, snap))
    BY <1>1, <2>1
  <2> QED
    BY <2>2, <2>3 DEF Count
<1>7. Consistent(v)'
  <2>1. Flagging(v)' /\ Knowing(v)' /\ Marking(v)'
    BY <1>0, <1>1, <1>3, <1>5 DEF Consistent, Flagging, Knowing, Marking, Writing, Ending
  <2>2. Counts(v)' /\ Staging(v)'
    BY <1>0, <1>1, <1>6 DEF Counts, Staging, Untouched, Count, Present
  <2>3. QuietCounts(v)'
    BY <1>0, <1>1, <1>6 DEF QuietCounts, Untouched, Count, Present, Ending
  <2> QED
    BY <2>1, <2>2, <2>3 DEF Consistent
<1> QED
  BY <1>0, <1>1, <1>2, <1>4, <1>7, OneView

-----------------------------------------------------------------------------
(* The end of a batch: the metadata *)

\* The watermark is read after the last write: it is behind nothing counted.
LEMMA ReadWatermarkOK ==
    ASSUME LInv, NEW v \in Views, ReadWatermark(v)
    PROVE  LInv'
<1> USE LakeAssumption DEF lakeVars, metaVars, dataVars
<1>0. TypeOK /\ pc[v] = "written" /\ UNCHANGED <<snap, at, born>>
  BY DEF ReadWatermark, LInv
<1>1. /\ newMark'[v] = snap /\ todo'[v] = Sources[v] /\ pc'[v] = "marking"
      /\ mv'[v] = mv[v] /\ flag'[v] = flag[v]
      /\ read'[v] = read[v] /\ kind'[v] = kind[v] /\ staged'[v] = staged[v]
      /\ mark'[v] = mark[v] /\ known'[v] = known[v]
      /\ \A u \in Views : u # v => Same(u)
  BY <1>0 DEF TypeOK, ReadWatermark, Watermark, Same
<1>2. TypeOK'
  BY ViewTypes DEF LInv, Batch
<1> HIDE DEF ReadWatermark
<1>3. /\ Consistent(v) /\ snap \in Nat /\ Sources[v] \subseteq Tables
      /\ \A t \in Tables : born[t] <= snap
      /\ \A c \in Changes : at[c] <= snap
  BY ViewFacts
<1>4. Snapshots'
  BY <1>0, <1>1, <1>3 DEF LInv, Snapshots, Same
<1>5. Consistent(v)'
  <2>1. Flagging(v)' /\ Knowing(v)' /\ Marking(v)'
    BY <1>0, <1>1, <1>3 DEF Consistent, Flagging, Knowing, Marking, Writing, Ending
  <2>2. Counts(v)' /\ Staging(v)'
    BY <1>0, <1>1, <1>3 DEF Consistent, Counts, Staging, Untouched
  <2>3. QuietCounts(v)'
    BY <1>0, <1>1, <1>3 DEF Consistent, QuietCounts, Untouched, Count, Present, Ending
  <2> QED
    BY <2>1, <2>2, <2>3 DEF Consistent
<1> QED
  BY <1>0, <1>1, <1>2, <1>4, <1>5, OneView

\* The watermarks of the tables move one by one, each to the same snapshot.
LEMMA MoveMarkOK ==
    ASSUME LInv, NEW v \in Views, MoveMark(v)
    PROVE  LInv'
<1> USE LakeAssumption DEF lakeVars, metaVars
<1>0. TypeOK /\ pc[v] = "marking" /\ UNCHANGED <<snap, at, born>>
  BY DEF MoveMark, LInv
<1>1. PICK n \in todo[v] :
         /\ mark' = [mark EXCEPT ![v][n] = newMark[v]]
         /\ todo' = [todo EXCEPT ![v] = @ \ {n}]
         /\ pc' = [pc EXCEPT ![v] = IF todo[v] = {n} THEN "clearing" ELSE @]
  BY DEF MoveMark
<1>2. /\ staged' = [staged EXCEPT ![v] = [c \in Changes |-> 0]]
      /\ UNCHANGED <<known, flag, mv, kind, read, newMark>>
  BY DEF MoveMark
<1>3. TypeOK'
  BY ViewTypes DEF LInv, Batch
<1> HIDE DEF MoveMark
<1>4. /\ Consistent(v) /\ Sources[v] \subseteq Tables /\ todo[v] \subseteq Tables
      /\ newMark[v] <= snap
      /\ \A t \in Tables : born[t] \in Nat /\ mark[v][t] <= snap
  BY ViewFacts
<1>5. /\ mark'[v] = [t \in Tables |-> IF t = n THEN newMark[v] ELSE mark[v][t]]
      /\ todo'[v] = todo[v] \ {n} /\ staged'[v] = [c \in Changes |-> 0]
      /\ pc'[v] = IF todo[v] = {n} THEN "clearing" ELSE "marking"
      /\ \A u \in Views : u # v => Same(u)
  BY <1>0, <1>1, <1>2, <1>4 DEF TypeOK, Same
<1> HIDE <1>1
<1>6. Snapshots'
  BY <1>0, <1>2, <1>4, <1>5 DEF LInv, Snapshots, Same
<1>7. Consistent(v)'
  <2>1. Flagging(v)'
    BY <1>0, <1>2, <1>4, <1>5 DEF Consistent, Flagging, Writing, Ending
  <2>2. \A t \in Sources[v] : born[t] <= newMark[v] /\ known[v][t] = born[t]
                              /\ (kind[v] = "apply" => born[t] <= mark[v][t])
                              /\ (t \notin todo[v] => mark[v][t] = newMark[v])
    BY <1>0, <1>4 DEF Consistent, Marking, Knowing
  <2>3. Knowing(v)'
    BY <1>0, <1>2, <1>4, <1>5, <2>2 DEF Knowing
  <2>4. Marking(v)'
    BY <1>0, <1>2, <1>4, <1>5, <2>2 DEF Marking
  <2>5. Counts(v)'
    BY <1>0, <1>2, <1>4, <1>5 DEF Consistent, Counts, Untouched
  <2>6. Staging(v)'
    BY <1>5 DEF Staging
  <2>7. QuietCounts(v)'
    BY <1>0, <1>2, <1>4, <1>5 DEF Consistent, QuietCounts, Untouched, Count, Present, Ending
  <2> QED
    BY <2>1, <2>3, <2>4, <2>5, <2>6, <2>7 DEF Consistent
<1> QED
  BY <1>0, <1>3, <1>5, <1>6, <1>7, OneView

\* All watermarks have moved: the flag is cleared over data that is exact at them.
LEMMA EndRefreshOK ==
    ASSUME LInv, NEW v \in Views, EndRefresh(v)
    PROVE  LInv'
<1> USE LakeAssumption DEF lakeVars, dataVars
<1>0. TypeOK /\ pc[v] = "clearing" /\ UNCHANGED <<snap, at, born>>
  BY DEF EndRefresh, LInv
<1>1. /\ flag'[v] = (IF kind[v] = "apply" THEN FALSE ELSE flag[v])
      /\ pc'[v] = "idle" /\ kind'[v] = "apply" /\ read'[v] = 0 /\ newMark'[v] = 0
      /\ mv'[v] = mv[v] /\ staged'[v] = staged[v]
      /\ mark'[v] = mark[v] /\ known'[v] = known[v]
      /\ \A u \in Views : u # v => Same(u)
  BY <1>0 DEF TypeOK, EndRefresh, Release, Same
<1>2. TypeOK'
  BY ViewTypes DEF LInv, Batch
<1> HIDE DEF EndRefresh
<1>3. /\ Consistent(v) /\ snap \in Nat /\ Sources[v] \subseteq Tables
      /\ \A t \in Tables : born[t] \in Nat /\ mark[v][t] \in Nat
      /\ \A c \in Changes : at[c] \in Nat /\ TableOf[c] \in Tables
  BY ViewFacts
<1>4. Snapshots'
  BY <1>0, <1>1, <1>3 DEF LInv, Snapshots, Same
<1>5. \A t \in Sources[v] : mark[v][t] = newMark[v] /\ known[v][t] = born[t]
                            /\ born[t] <= mark[v][t]
  BY <1>0, <1>3 DEF Consistent, Marking, Knowing
<1>6. \A c \in Changes : mv[v][c] # 0 => at[c] <= mark[v][TableOf[c]]
  BY <1>0, <1>3, <1>5 DEF Consistent, Counts
<1>7. Consistent(v)'
  <2>1. Flagging(v)' /\ Knowing(v)' /\ Marking(v)'
    BY <1>0, <1>1, <1>3, <1>5 DEF Consistent, Flagging, Knowing, Marking, Writing, Ending
  <2>2. Counts(v)' /\ Staging(v)'
    BY <1>0, <1>1, <1>3, <1>6 DEF Consistent, Counts, Staging, Untouched
  <2>3. QuietCounts(v)'
    <3> SUFFICES ASSUME NEW c \in Quiet, TableOf[c] \in Sources[v]
                 PROVE  mv[v][c] = Count(ShownAt(c, mark[v][TableOf[c]]))
      BY <1>0, <1>1 DEF QuietCounts, Untouched, Count, ShownAt, Ending
    <3>0. c \in Changes /\ at[c] \in Nat /\ born[TableOf[c]] \in Nat
          /\ mark[v][TableOf[c]] \in Nat /\ born[TableOf[c]] <= mark[v][TableOf[c]]
      BY <1>3, <1>5
    <3>1. mv[v][c] = Count(Present(c))
      BY <1>0, <1>3 DEF Consistent, QuietCounts, Ending
    <3>2. Present(c) => at[c] <= mark[v][TableOf[c]]
      BY <1>6, <3>0, <3>1 DEF Count
    <3>3. Present(c) <=> ShownAt(c, mark[v][TableOf[c]])
      BY <3>0, <3>2 DEF Present, ShownAt
    <3> QED
      BY <3>1, <3>3 DEF Count
  <2> QED
    BY <2>1, <2>2, <2>3 DEF Consistent
<1> QED
  BY <1>0, <1>1, <1>2, <1>4, <1>7, OneView

-----------------------------------------------------------------------------
(* A batch that fails *)

\* It has been flagged since before its first write, or has written nothing.
LEMMA FailOK ==
    ASSUME OnlyAppliesFail, LInv, NEW v \in Views, Fail(v)
    PROVE  LInv'
<1> USE LakeAssumption DEF lakeVars, metaVars, dataVars
<1>0. TypeOK /\ pc[v] # "idle" /\ kind[v] = "apply" /\ UNCHANGED <<snap, at, born>>
  BY DEF Fail, LInv, OnlyAppliesFail
<1>1. /\ pc'[v] = "idle" /\ kind'[v] = "apply" /\ read'[v] = 0 /\ newMark'[v] = 0
      /\ mv'[v] = mv[v] /\ staged'[v] = staged[v]
      /\ mark'[v] = mark[v] /\ known'[v] = known[v] /\ flag'[v] = flag[v]
      /\ \A u \in Views : u # v => Same(u)
  BY <1>0 DEF TypeOK, Fail, Release, Same
<1>2. TypeOK'
  BY ViewTypes DEF LInv
<1> HIDE DEF Fail
<1>3. Consistent(v) /\ snap \in Nat /\ pc[v] \in Steps
  BY ViewFacts
<1>4. Snapshots'
  BY <1>0, <1>1, <1>3 DEF LInv, Snapshots, Same
<1>5. ~flag[v] => pc[v] \in {"locked", "compiled"}
  BY <1>0, <1>3 DEF Consistent, Flagging, Writing, Ending, Steps
<1>6. Untouched(v)' => Untouched(v)
  BY <1>0, <1>1, <1>5 DEF Untouched
<1>7. Consistent(v)'
  <2>1. Flagging(v)' /\ Knowing(v)' /\ Marking(v)'
    BY <1>0, <1>1, <1>3 DEF Consistent, Flagging, Knowing, Marking, Writing, Ending
  <2>2. Counts(v)' /\ Staging(v)'
    BY <1>0, <1>1, <1>3, <1>5, <1>6 DEF Consistent, Counts, Staging, Untouched
  <2>3. QuietCounts(v)'
    BY <1>0, <1>1, <1>3, <1>6 DEF Consistent, QuietCounts, Count, ShownAt, Ending
  <2> QED
    BY <2>1, <2>2, <2>3 DEF Consistent
<1> QED
  BY <1>0, <1>1, <1>2, <1>4, <1>7, OneView
-----------------------------------------------------------------------------
\* Every step keeps the invariant.
LEMMA LakeStep ==
    ASSUME OnlyAppliesFail, LInv, [Next]_vars
    PROVE  LInv'
<1>1. ASSUME NEW v \in Views, Ask(v) PROVE LInv'
  BY <1>1, SkipOK, BeginOK DEF Ask
<1>2. ASSUME NEW v \in Views, Batch(v) PROVE LInv'
  BY <1>2, CompileOK, RaiseFlagOK, WriteDeltaOK, UpsertOK, PurgeDeltaOK, EmptyOK, RefillOK,
     ReadWatermarkOK, MoveMarkOK, EndRefreshOK DEF Batch
<1>3. CASE UNCHANGED vars
  <2>1. TypeOK' /\ Snapshots' /\ Exclusive'
    BY <1>3 DEF vars, lakeVars, metaVars, dataVars, jobVars, LInv, TypeOK, Snapshots, Exclusive
  <2>2. \A v \in Views : Consistent(v)'
    BY <1>3, SameOK DEF vars, lakeVars, metaVars, dataVars, jobVars, LInv, Same
  <2> QED
    BY <2>1, <2>2 DEF LInv
<1> QED
  BY <1>1, <1>2, <1>3, CommitOK, RecreateOK, FailOK DEF Next

-----------------------------------------------------------------------------
(* The results *)

\* Type correctness, whichever refreshes fail: among the rest, the watermark
\* that a batch reads back is a snapshot and not the -1 of a failed lookup.
THEOREM LakeTypesHold == Spec => []TypeOK
<1>1. Init => TypeOK
  BY LakeInit DEF LInv
<1>2. TypeOK /\ [Next]_vars => TypeOK'
  BY LakeTypesStep
<1> QED
  BY <1>1, <1>2, PTL DEF Spec

\* After every statement of every batch, the view's data, its delta table, its
\* watermarks and its flag agree as LInv says.
THEOREM LakeInductive ==
    ASSUME OnlyAppliesFail
    PROVE  Spec => []LInv
<1>1. Init => LInv
  BY LakeInit
<1>2. LInv /\ [Next]_vars => LInv'
  BY LakeStep
<1> QED
  BY <1>1, <1>2, PTL DEF Spec

\* No change is counted twice, wherever refreshes that apply deltas fail and
\* whenever tables are written: what the upsert of a batch adds is ahead of
\* watermarks that everything counted is behind.
THEOREM NeverDoubledHolds ==
    ASSUME OnlyAppliesFail
    PROVE  Spec => []NeverDoubled
<1>1. LInv => NeverDoubled
  BY DEF LInv, Consistent, Counts, NeverDoubled
<1> QED
  BY <1>1, LakeInductive, PTL

\* A refresh that has ended has left nothing it counted in front of the
\* watermarks: they are moved to a snapshot taken after its last write.
THEOREM CountedIsBehindHolds ==
    ASSUME OnlyAppliesFail
    PROVE  Spec => []CountedIsBehind
<1>1. LInv => CountedIsBehind
  BY DEF LInv, Consistent, Counts, Untouched, Resting, CountedIsBehind
<1> QED
  BY <1>1, LakeInductive, PTL

\* A view at rest is its query at its watermarks, of the changes that did not
\* commit while it was refreshed, after failures, recoveries and recomputes, and
\* over tables that have been dropped and created again.
THEOREM ExactAtMarksHolds ==
    ASSUME OnlyAppliesFail
    PROVE  Spec => []ExactAtMarks
<1>1. LInv => ExactAtMarks
  BY DEF LInv, Consistent, QuietCounts, Untouched, Resting, ExactAtMarks
<1> QED
  BY <1>1, LakeInductive, PTL
=============================================================================
