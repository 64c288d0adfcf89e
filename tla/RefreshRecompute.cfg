\* Two views over the same two tables: A is always recomputed, B sometimes (it
\* may alternate between recomputing and applying deltas), is a join view and
\* has a hook, so that its emptiness check comes before the locks.  Statements
\* may be rolled back after their capture, and one refresh may fail.
\* Recomputes always use an instant, so here the bound on the clock ends the
\* instance (OutOfTime): two changes and up to five refreshes fit in it.
SPECIFICATION BoundedSpec
CONSTANTS
    t1 = t1
    t2 = t2
    A = A
    B = B
    c1 = c1
    c2 = c2
    c3 = c3
    None = None
    Tables = {t1, t2}
    Views = {A, B}
    Changes = {c1, c2}
    Sessions = {x1}
    Workers = {w1, w2}
    TableOf <- MCTableOf
    Sources <- SharedSources
    Origin <- SharedOrigin
    Rank <- SharedRank
    SkipEmpty = TRUE
    AllowRollback = TRUE
    FullType = {A}
    FullMode = {B}
    Pruned = {B}
    Hooked = {B}
    MaxClock = 8
    MaxAborts = 1
SYMMETRY Symmetry
INVARIANTS
    NeverTwice
    UnreadIsKept
