CONSTANTS
    Tables = {"t", "u"}
    Views = {"exists", "derived", "hidden", "union", "window"}
    Names = {"a", "b", "c", "d"}
    Words = {"a", "b", "c", "d", "k", "m", "s", "t", "u", "x"}
    Sources <- ViewSources
    Queries <- ViewQueries
    Metadata <- ViewMetadata
    FirstColumns <- TwoTables
    Known = 4
    NoName = NoName
    Idle = Idle
    MaxAlters = 3
SPECIFICATION Spec
CHECK_DEADLOCK FALSE
INVARIANTS
    TypeOK
    MeaningKept
    NeverAnotherColumn
    DeltaMirrors
PROPERTIES
    RefusalIsFounded
