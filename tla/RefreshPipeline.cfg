\* A view B over t2 and over the view A of t1, refreshed by one connection at
\* a time, in any order, as a cascade does.  Two sessions, three changes; one
\* refresh may fail.  The bound on the clock is never reached.
SPECIFICATION Spec
CONSTANTS
    t1 = t1
    t2 = t2
    A = A
    B = B
    c1 = c1
    c2 = c2
    c3 = c3
    None = None
    Tables = {t1, t2}
    Views = {A, B}
    Changes = {c1, c2, c3}
    Sessions = {x1, x2}
    Workers = {w1}
    TableOf <- MCTableOf
    Sources <- ChainedSources
    Origin <- ChainedOrigin
    Rank <- ChainedRank
    SkipEmpty = TRUE
    AllowRollback = FALSE
    FullType = {}
    FullMode = {}
    Pruned = {B}
    Hooked = {}
    MaxClock = 16
    MaxAborts = 1
SYMMETRY Symmetry
INVARIANTS
    ChainFlow
    CaughtUpIsExact
