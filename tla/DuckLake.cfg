\* Two views that share a table of the lake.  Applying deltas may fail twice,
\* between any two of its statements; A may also be recomputed; t1 may be
\* dropped and created again; c2 may commit while a refresh runs.
SPECIFICATION FairSpec
CONSTANTS
    t1 = t1
    t2 = t2
    A = A
    B = B
    c1 = c1
    c2 = c2
    c3 = c3
    Tables = {t1, t2}
    Views = {A, B}
    Changes = {c1, c2}
    Sources <- MCSources
    TableOf <- MCTableOf
    Quiet = {c1}
    FullMode = {A}
    FailKinds = {"apply"}
    Recreatable = {t1}
    MaxFailures = 2
INVARIANTS
    TypeOK
    NeverDoubled
    CountedIsBehind
    ExactAtMarks
PROPERTY
    QuietChangesArrive
