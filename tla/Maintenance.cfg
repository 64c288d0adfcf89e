CONSTANTS
    NULL = NULL
    TinyRows = 1
    MaxStatements = 3
    Views <- Zoo
SPECIFICATION Spec
INVARIANTS
    TypeOK
    Exact
    RewriteKeepsQuery
    DeltaIsChange
    AuxIsOfCursor
    OneRowPerGroup
    CopyFollows
