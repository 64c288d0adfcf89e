\* Two incremental views over the same two tables, two workers, one session,
\* two changes, under fairness.  One refresh may fail.  No symmetry: it is not
\* sound for liveness.  The bound on the clock is never reached.
SPECIFICATION FairSpec
CONSTANTS
    t1 = t1
    t2 = t2
    A = A
    B = B
    c1 = c1
    c2 = c2
    c3 = c3
    None = None
    Tables = {t1, t2}
    Views = {A, B}
    Changes = {c1, c2}
    Sessions = {x1}
    Workers = {w1, w2}
    TableOf <- MCTableOf
    Sources <- SharedSources
    Origin <- SharedOrigin
    Rank <- SharedRank
    SkipEmpty = TRUE
    AllowRollback = FALSE
    FullType = {}
    FullMode = {}
    Pruned = {B}
    Hooked = {}
    MaxClock = 16
    MaxAborts = 1
PROPERTIES
    RefreshReturns
    CapturedReachesViews
