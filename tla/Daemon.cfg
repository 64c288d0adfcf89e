\* A user (cascade mode both) and the daemon (upstream) on a graph of three
\* views, two of them scheduled.  P has a hook.  One refresh may fail.
SPECIFICATION FairSpec
CONSTANTS
    t1 = t1
    P = P
    Q = Q
    S = S
    U = U
    D = D
    Nobody = Nobody
    Tables = {t1}
    Views = {P, Q, S}
    SourceRows <- MCSourceRows
    NameOrder <- MCNameOrder
    Callers = {U, D}
    ModeOf <- MCModeOf
    HookOf <- MCHookOf
    MaxWrites = 1
    MaxFailures = 1
    Daemon = D
    Scheduled <- MCScheduled
    Interval <- MCInterval
    MaxBackoff = 2
    Adaptive = TRUE
    UserViews = {P}
    Cap = 2
INVARIANTS
    TypeOK
    CallDelivers
    BackoffInBounds
PROPERTIES
    ScheduledCatchUp
    StopReturns
