CONSTANTS
    t = t
    v1 = v1
    v2 = v2
    Tables = {t}
    Views = {v1, v2}
    Sessions = {s1}
    Writers = {w1}
    Sources <- SharedTable
    Absent = Absent
    Idle = Idle
    MaxRows = 2
    MaxDdl = 3
    MaxFailures = 1
    MaxCrashes = 1
SPECIFICATION Spec
INVARIANTS
    TypeOK
    AllOrNothing
    OnlyWindowIsMissed
    PendingIsNew
PROPERTIES
    FailedCreateSparesViews
CHECK_DEADLOCK FALSE
