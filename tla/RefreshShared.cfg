\* Two incremental views over the same two tables, two workers, two sessions
\* and three changes.  B is a join view: it scans only the sources that were
\* found active when its refresh was compiled.
\* Nothing fails here, and a refresh that is not skipped moves its view's
\* cursor past a row, so at most 1 + 3 + 2 * 3 instants are used: the bound on
\* the clock is never reached.
SPECIFICATION Spec
CONSTANTS
    t1 = t1
    t2 = t2
    A = A
    B = B
    c1 = c1
    c2 = c2
    c3 = c3
    None = None
    Tables = {t1, t2}
    Views = {A, B}
    Changes = {c1, c2, c3}
    Sessions = {x1, x2}
    Workers = {w1, w2}
    TableOf <- MCTableOf
    Sources <- SharedSources
    Origin <- SharedOrigin
    Rank <- SharedRank
    SkipEmpty = TRUE
    AllowRollback = FALSE
    FullType = {}
    FullMode = {}
    Pruned = {B}
    Hooked = {}
    MaxClock = 16
    MaxAborts = 0
SYMMETRY Symmetry
INVARIANTS
    TypeOK
    BaseFlow
PROPERTIES
    CursorsAdvance
    FeedSpec
