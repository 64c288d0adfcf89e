--------------------------- MODULE RefreshDaemon ---------------------------
(***************************************************************************)
(* The daemon thread: it wakes up, asks for the views with REFRESH EVERY,  *)
(* and runs PRAGMA refresh on those that are due, beside the calls of      *)
(* users; with the intervals it backs off to, and its end.                 *)
(*                                                                         *)
(* Time is counted in the daemon's sleeps.  age[v] is what now() -         *)
(* MIN(last_update) says for v; it stops at Cap, beyond every interval.    *)
(***************************************************************************)
EXTENDS Cascade

CONSTANTS
    Daemon,       \* the daemon's connection, one of the callers
    Scheduled,    \* the views with an interval, in the order of their rows
    Interval,     \* Interval[v]: refresh_interval, in sleeps
    MaxBackoff,   \* MAX_BACKOFF_SECONDS, in sleeps
    Adaptive,     \* openivm_adaptive_backoff
    UserViews,    \* bound: the views that users refresh
    Cap           \* where age stops

ScheduledViews == ToSet(Scheduled)

ASSUME DaemonAssumption ==
    /\ Scheduled \in Seq(ScheduledViews) /\ Cap \in Nat
    /\ Daemon \in Callers /\ ScheduledViews \union UserViews \subseteq Views
    /\ Interval \in [ScheduledViews -> Nat \ {0}]
    /\ Adaptive \in BOOLEAN
    /\ \A v \in ScheduledViews : Interval[v] <= Cap
    /\ MaxBackoff \in 1..Cap

VARIABLES
    phase,     \* the thread: asleep, in a cycle, in a call, stopped
    agenda,    \* scheduled views that the cycle has not come to
    stale,     \* in a cycle, stale[v]: the age of the last_update it has read
    done,      \* in a cycle, refreshed_this_cycle
    eff,       \* effective_intervals_, 0 where there is none
    age,       \* age[v]
    shutdown   \* shutdown_

daemonVars == <<phase, agenda, stale, done, eff, age, shutdown>>
vars == <<cascadeVars, daemonVars>>

TypeOK ==
    /\ CascadeTypeOK
    /\ phase \in {"asleep", "cycle", "call", "stopped"}
    /\ agenda \in Seq(ScheduledViews) /\ done \subseteq Views
    /\ stale \in [ScheduledViews -> 0..Cap] /\ age \in [ScheduledViews -> 0..Cap]
    /\ eff \in [ScheduledViews -> Nat] /\ shutdown \in BOOLEAN

Init ==
    /\ CascadeInit
    /\ phase = "asleep" /\ agenda = <<>> /\ done = {} /\ shutdown = FALSE
    /\ stale = [v \in ScheduledViews |-> 0]
    /\ age = [v \in ScheduledViews |-> 0]
    /\ eff = [v \in ScheduledViews |-> 0]

-----------------------------------------------------------------------------
Older == [v \in ScheduledViews |-> IF age[v] < Cap THEN age[v] + 1 ELSE Cap]

\* Wrong variant: the interval is not asked for.
EveryView == NameOrder

GetScheduledViews == Scheduled

ReadSchedule ==
    /\ phase = "asleep"
    /\ phase' = "cycle"
    /\ agenda' = GetScheduledViews
    /\ age' = Older /\ stale' = Older
    /\ UNCHANGED <<cascadeVars, done, eff, shutdown>>

\* After its sleep, unless that was cut short.
WakeUp == ~shutdown /\ ReadSchedule

DueAfter(v) == IF eff[v] # 0 THEN eff[v] ELSE Interval[v]

Due(v) == stale[v] >= DueAfter(v)

\* A view that an earlier call of the cycle covered, is not due, or is being
\* refreshed.
PassOver ==
    /\ phase = "cycle" /\ agenda # <<>> /\ ~shutdown
    /\ \/ Head(agenda) \in done
       \/ ~Due(Head(agenda))
       \/ mutex[Head(agenda)] # Nobody
    /\ agenda' = Tail(agenda)
    /\ UNCHANGED <<cascadeVars, phase, stale, done, eff, age, shutdown>>

\* The mutex was only tried: the call takes it again, if it gets it.  The
\* daemon runs a replace hook by itself.
StartCall ==
    LET v == Head(agenda)
    IN  /\ phase = "cycle" /\ agenda # <<>> /\ ~shutdown
        /\ v \notin done /\ Due(v) /\ mutex[v] = Nobody
        /\ phase' = "call"
        /\ IF HookOf[v] = "replace" THEN UNCHANGED callVars ELSE CallRefresh(Daemon, v)
        /\ UNCHANGED <<ver, seen, mutex, failures, agenda, stale, done, eff, age,
                       shutdown>>

Covered(v) ==
    {v} \union (IF ModeOf[Daemon] \in {"downstream", "both"}
                THEN ToSet(Descendants[v]) ELSE {})
        \union (IF ModeOf[Daemon] \in {"upstream", "both"}
                THEN ToSet(Ancestors[v]) ELSE {})

\* Wrong variant: doubled without end.
DoubledOnly(v) == 2 * DueAfter(v)

BackedOff(v) ==
    IF 2 * DueAfter(v) < MaxBackoff THEN 2 * DueAfter(v) ELSE MaxBackoff

\* Whether the call went well or not, whether it refreshed anything or not.
EndCall ==
    LET v == Head(agenda)
    IN  /\ phase = "call" /\ stage[Daemon] = "idle"
        /\ done' = done \union Covered(v)
        /\ \E slow \in BOOLEAN :
              eff' = [eff EXCEPT ![v] = IF ~Adaptive THEN @
                                        ELSE IF slow THEN BackedOff(v) ELSE 0]
        /\ agenda' = Tail(agenda)
        /\ phase' = "cycle"
        /\ UNCHANGED <<cascadeVars, stale, age, shutdown>>

\* Wrong variant: refreshed_this_cycle outlives its cycle.
EndCycleOnly ==
    /\ phase = "cycle" /\ (agenda = <<>> \/ shutdown)
    /\ phase' = "asleep" /\ agenda' = <<>>
    /\ stale' = [v \in ScheduledViews |-> 0]
    /\ UNCHANGED <<cascadeVars, done, eff, age, shutdown>>

EndCycle ==
    /\ phase = "cycle" /\ (agenda = <<>> \/ shutdown)
    /\ phase' = "asleep" /\ agenda' = <<>> /\ done' = {}
    /\ stale' = [v \in ScheduledViews |-> 0]
    /\ UNCHANGED <<cascadeVars, eff, age, shutdown>>

Stop ==
    /\ ~shutdown
    /\ shutdown' = TRUE
    /\ UNCHANGED <<cascadeVars, phase, agenda, stale, done, eff, age>>

\* The thread ends, and Stop, which waits for it, returns.
Exit ==
    /\ phase = "asleep" /\ shutdown
    /\ phase' = "stopped"
    /\ UNCHANGED <<cascadeVars, agenda, stale, done, eff, age, shutdown>>

\* last_update becomes that of the newest row read, or now(): at worst what it
\* was, at best new.
Refreshed(w) ==
    LET v == Subject(w)
    IN  /\ FinishView(w)
        /\ IF v \in ScheduledViews
           THEN \E a \in {0, age[v]} : age' = [age EXCEPT ![v] = a]
           ELSE age' = age
        /\ UNCHANGED <<phase, agenda, stale, done, eff, shutdown>>

Work(w) == (Quietly(w) \/ FailView(w)) /\ UNCHANGED daemonVars

UserCall(w, v) ==
    /\ w # Daemon
    /\ CallRefresh(w, v)
    /\ UNCHANGED <<ver, seen, mutex, failures, daemonVars>>

DaemonStep == WakeUp \/ PassOver \/ StartCall \/ EndCall \/ EndCycle \/ Exit

Next ==
    \/ \E t \in Tables : Write(t) /\ UNCHANGED daemonVars
    \/ \E w \in Callers : Work(w) \/ Refreshed(w) \/ \E v \in UserViews : UserCall(w, v)
    \/ DaemonStep \/ Stop

Spec == Init /\ [][Next]_vars

\* Threads run, a mutex that keeps becoming free is obtained.
FairSpec ==
    /\ Spec
    /\ WF_vars(DaemonStep)
    /\ \A w \in Callers : /\ WF_vars(Work(w)) /\ WF_vars(Refreshed(w))
                          /\ SF_vars((SkipView(w) \/ BeginView(w)) /\ UNCHANGED daemonVars)

-----------------------------------------------------------------------------
(* Properties *)

\* However often it backs off and recovers, the daemon's interval for a view
\* is never shorter than the one configured (for intervals up to the cap of a
\* day) and never beyond the cap.
BackoffInBounds ==
    \A v \in ScheduledViews :
        /\ eff[v] # 0 => eff[v] <= MaxBackoff
        /\ eff[v] # 0 /\ Interval[v] <= MaxBackoff => eff[v] >= Interval[v]

\* The views whose turn no other scheduled view's call takes away.
OnItsOwn(v) == \A u \in ScheduledViews \ {v} : v \notin Covered(u)

Behind(v) == \E s \in Sources(v) : seen[v][s] < ver[s]

\* A scheduled view that is behind is brought up to date by the daemon, or by
\* somebody else, though a cascade to it failed, or its mutex was taken when
\* the daemon came by.
ScheduledCatchUp ==
    \A v \in ScheduledViews :
        OnItsOwn(v) /\ HookOf[v] # "replace" =>
            (Behind(v) ~> (~Behind(v) \/ shutdown))

\* Stop returns: the thread leaves a cycle, and a call that waits for a mutex.
StopReturns == shutdown ~> (phase = "stopped")

-----------------------------------------------------------------------------
(* What the documentation says and the code does not keep *)

\* docs/refresh/automatic-refresh.md: "For each view where `now() -
\* last_update >= interval`: calls `PRAGMA refresh('view_name')`".
DueIsRefreshed ==
    \A v \in ScheduledViews : Behind(v) ~> (~Behind(v) \/ shutdown)
=============================================================================
