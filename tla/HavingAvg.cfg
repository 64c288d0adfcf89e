CONSTANTS
    NULL = NULL
    TinyRows = 1
    MaxStatements = 3
    Views <- HavingAvg
SPECIFICATION Spec
INVARIANT
    RewriteKeepsQuery
