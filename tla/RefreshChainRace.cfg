\* The chain of RefreshPipeline with two workers, so that the refreshes of A
\* and of B overlap: both purge A's delta table, and one of them may meet a
\* conflict.  Three changes; one refresh may fail for another reason.
\* The bound on the clock is never reached.
SPECIFICATION Spec
CONSTANTS
    t1 = t1
    t2 = t2
    A = A
    B = B
    c1 = c1
    c2 = c2
    c3 = c3
    None = None
    Tables = {t1, t2}
    Views = {A, B}
    Changes = {c1, c2, c3}
    Sessions = {x1}
    Workers = {w1, w2}
    TableOf <- MCTableOf
    Sources <- ChainedSources
    Origin <- ChainedOrigin
    Rank <- ChainedRank
    SkipEmpty = TRUE
    AllowRollback = FALSE
    FullType = {}
    FullMode = {}
    Pruned = {B}
    Hooked = {}
    MaxClock = 16
    MaxAborts = 1
SYMMETRY Symmetry
INVARIANT
    ChainNeverTwice
