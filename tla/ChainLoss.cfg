\* A view B over t2 and over the view A of t1, with two workers: the smallest
\* instance where B's refresh overlaps A's and a row of A's is lost to B.
SPECIFICATION Spec
CONSTANTS
    t1 = t1
    t2 = t2
    A = A
    B = B
    c1 = c1
    c2 = c2
    c3 = c3
    None = None
    Tables = {t1, t2}
    Views = {A, B}
    Changes = {c1, c2}
    Sessions = {x1}
    Workers = {w1, w2}
    TableOf <- MCTableOf
    Sources <- ChainedSources
    Origin <- ChainedOrigin
    Rank <- ChainedRank
    SkipEmpty = TRUE
    AllowRollback = FALSE
    FullType = {}
    FullMode = {}
    Pruned = {}
    Hooked = {}
    MaxClock = 16
    MaxAborts = 0
SYMMETRY Symmetry
INVARIANT
    ChainLosesNothing
