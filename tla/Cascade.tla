------------------------------ MODULE Cascade ------------------------------
(***************************************************************************)
(* PRAGMA refresh on a graph of views: the order in which a call visits    *)
(* the ancestors and the descendants of the view it names, hooks, and what *)
(* a skipped or a failed refresh does to the rest of the call.             *)
(*                                                                         *)
(* One refresh is taken as RefreshProtocol shows it to be: under the       *)
(* view's mutex it reads all its sources have, or has no effect.  Content  *)
(* is a version: ver[n] counts what was written to the delta table of n,   *)
(* seen[v][n] how much of it v has read.                                   *)
(***************************************************************************)
EXTENDS Naturals, Sequences, FiniteSets, SequencesExt

CONSTANTS
    Tables,       \* base tables
    Views,        \* materialized views
    SourceRows,   \* SourceRows[v]: v's rows of openivm_delta_tables, in order
    NameOrder,    \* the views in the order of their names
    Callers,      \* connections that run PRAGMA refresh
    ModeOf,       \* ModeOf[w]: openivm_cascade_refresh
    HookOf,       \* HookOf[v]: the mode of the view's hook, or "none"
    MaxWrites,    \* bound: writes of each base table
    MaxFailures,  \* bound: refreshes that fail
    Nobody        \* holder of a free mutex; no view

Nodes == Tables \union Views
Sources(v) == ToSet(SourceRows[v])

ASSUME CascadeAssumption ==
    /\ Tables \intersect Views = {} /\ Nobody \notin Views \union Callers
    /\ \A v \in Views : Sources(v) \subseteq Nodes
    /\ ToSet(NameOrder) = Views /\ Len(NameOrder) = Cardinality(Views)
    /\ ModeOf \in [Callers -> {"off", "upstream", "downstream", "both"}]
    /\ HookOf \in [Views -> {"none", "before", "after", "replace"}]
    /\ MaxWrites \in Nat /\ MaxFailures \in Nat

VARIABLES
    ver,       \* ver[n]: writes to the delta table of n so far, if any view
               \* reads it
    seen,      \* seen[v][n]: how many of them v has read
    mutex,     \* mutex[v]: who holds the mutex of v
    stage,     \* stage[w]: where the call of w stands
    root,      \* root[w]: the view it names
    todo,      \* todo[w]: what is left of the cascade under way
    made,      \* history: made[w][n], what the call must deliver of n
    handled,   \* history: the views that the call has refreshed or skipped
    failures   \* refreshes failed so far

callVars == <<stage, root, todo, made, handled>>
cascadeVars == <<ver, seen, mutex, callVars, failures>>

Stages == {"idle", "upstream", "hook", "target", "after", "downstream", "return"}

CascadeTypeOK ==
    /\ ver \in [Nodes -> Nat]
    /\ seen \in [Views -> [Nodes -> Nat]]
    /\ mutex \in [Views -> Callers \union {Nobody}]
    /\ stage \in [Callers -> Stages]
    /\ root \in [Callers -> Views \union {Nobody}]
    /\ todo \in [Callers -> Seq(Views)]
    /\ made \in [Callers -> [Nodes -> Nat]]
    /\ handled \in [Callers -> SUBSET Views]
    /\ failures \in 0..MaxFailures

CascadeInit ==
    /\ ver = [n \in Nodes |-> 0] /\ failures = 0
    /\ seen = [v \in Views |-> [n \in Nodes |-> 0]]
    /\ mutex = [v \in Views |-> Nobody]
    /\ stage = [w \in Callers |-> "idle"]
    /\ root = [w \in Callers |-> Nobody]
    /\ todo = [w \in Callers |-> <<>>]
    /\ made = [w \in Callers |-> [n \in Nodes |-> 0]]
    /\ handled = [w \in Callers |-> {}]

-----------------------------------------------------------------------------
(* The two walks.  Each is a depth-first search that carries the views it   *)
(* has visited and the order in which it left them.                         *)

Leave(walk, n) == [walk EXCEPT !.order = Append(@, n)]

\* GetUpstreamViews: sources that are views, each after its own sources.
UpstreamOrder(v) ==
    LET Collect[n \in Views, visited \in SUBSET Views] ==
            FoldLeft(LAMBDA walk, s :
                        IF s \notin Views \/ s \in walk.visited THEN walk
                        ELSE LET below == Collect[s, walk.visited \union {s}]
                             IN  Leave([visited |-> below.visited,
                                        order |-> walk.order \o below.order], s),
                     [visited |-> visited, order |-> <<>>], SourceRows[n])
    IN  Collect[v, {}].order

Dependents(n) == SelectSeq(NameOrder, LAMBDA v : n \in Sources(v))

PostOrder(v) ==
    LET Collect[n \in Views, visited \in SUBSET Views] ==
            FoldLeft(LAMBDA walk, d :
                        IF d = v \/ d \in walk.visited THEN walk
                        ELSE LET below == Collect[d, walk.visited \union {d}]
                             IN  Leave([visited |-> below.visited,
                                        order |-> walk.order \o below.order], d),
                     [visited |-> visited, order |-> <<>>], Dependents(n))
    IN  Collect[v, {}].order

\* GetDownstreamViews: reverse postorder.
DownstreamOrder(v) == Reverse(PostOrder(v))

Ancestors == [v \in Views |-> UpstreamOrder(v)]
Descendants == [v \in Views |-> DownstreamOrder(v)]

-----------------------------------------------------------------------------
(* One call *)

Write(t) ==
    /\ ver[t] < MaxWrites
    /\ ver' = [ver EXCEPT ![t] = @ + 1]
    /\ UNCHANGED <<seen, mutex, callVars, failures>>

Pending(v) == \E s \in Sources(v) : seen[v][s] < ver[s]

Start(v) == IF HookOf[v] = "none" THEN "target" ELSE "hook"

\* UpsertDeltaQueriesLocked, up to the first refresh.
CallRefresh(w, v) ==
    LET ups == IF ModeOf[w] \in {"upstream", "both"} THEN Ancestors[v] ELSE <<>>
    IN  /\ stage[w] = "idle"
        /\ root' = [root EXCEPT ![w] = v]
        /\ todo' = [todo EXCEPT ![w] = ups]
        /\ stage' = [stage EXCEPT ![w] = IF ups = <<>> THEN Start(v) ELSE "upstream"]
        /\ made' = [made EXCEPT ![w] = [n \in Nodes |-> IF n \in Tables THEN ver[n] ELSE 0]]
        /\ handled' = [handled EXCEPT ![w] = {}]

\* The hook is looked up and run without a mutex; a replace hook is all that
\* runs.
RunHook(w) ==
    /\ stage[w] = "hook"
    /\ stage' = [stage EXCEPT ![w] =
            IF ~Pending(root[w]) THEN "return"
            ELSE IF HookOf[root[w]] = "replace" THEN "after" ELSE "target"]
    /\ UNCHANGED <<ver, seen, mutex, root, todo, made, handled, failures>>

\* The view the call refreshes next.
Subject(w) == IF stage[w] = "target" THEN root[w] ELSE Head(todo[w])

Busy(w) == stage[w] \in {"upstream", "target", "downstream"}

\* The call is done with its subject.  A root that was skipped ends the call.
Proceed(w, skipped) ==
    /\ todo' = [todo EXCEPT ![w] = IF stage[w] = "target" THEN <<>> ELSE Tail(@)]
    /\ stage' = [stage EXCEPT ![w] =
            CASE stage[w] = "target" -> IF skipped THEN "return" ELSE "after"
              [] stage[w] = "upstream" /\ Len(todo[w]) = 1 -> Start(root[w])
              [] stage[w] = "downstream" /\ Len(todo[w]) = 1 -> "return"
              [] OTHER -> @]
    /\ handled' = [handled EXCEPT ![w] = @ \union {Subject(w)}]
    /\ made' = [made EXCEPT ![w][Subject(w)] = ver'[Subject(w)]]
    /\ root' = root

\* RefreshViewLocked: the mutex, and TrySkipEmptyRefresh under it, which a
\* root with a hook has behind it.
SkipView(w) ==
    /\ Busy(w) /\ mutex[Subject(w)] = Nobody
    /\ ~Pending(Subject(w))
    /\ ~(stage[w] = "target" /\ HookOf[root[w]] # "none")
    /\ ver' = ver
    /\ Proceed(w, TRUE)
    /\ UNCHANGED <<seen, mutex, failures>>

BeginView(w) ==
    /\ Busy(w) /\ mutex[Subject(w)] = Nobody
    /\ Pending(Subject(w)) \/ (stage[w] = "target" /\ HookOf[root[w]] # "none")
    /\ mutex' = [mutex EXCEPT ![Subject(w)] = w]
    /\ UNCHANGED <<ver, seen, callVars, failures>>

FinishView(w) ==
    /\ Busy(w) /\ mutex[Subject(w)] = w
    /\ LET v == Subject(w)
       IN  /\ seen' = [seen EXCEPT ![v] = [n \in Nodes |-> IF n \in Sources(v)
                                                           THEN ver[n] ELSE @[n]]]
           /\ ver' = [ver EXCEPT ![v] = IF Pending(v) /\ Dependents(v) # <<>>
                                        THEN @ + 1 ELSE @]
           /\ mutex' = [mutex EXCEPT ![v] = Nobody]
    /\ Proceed(w, FALSE)
    /\ UNCHANGED failures

\* An exception leaves the call; what earlier views committed stays.
FailView(w) ==
    /\ Busy(w) /\ mutex[Subject(w)] = w
    /\ failures < MaxFailures
    /\ failures' = failures + 1
    /\ mutex' = [mutex EXCEPT ![Subject(w)] = Nobody]
    /\ stage' = [stage EXCEPT ![w] = "return"]
    /\ UNCHANGED <<ver, seen, root, todo, made, handled>>

\* The hook after the refresh, and the descendants, listed only now.
Descend(w) ==
    LET downs == IF ModeOf[w] \in {"downstream", "both"}
                 THEN Descendants[root[w]] ELSE <<>>
    IN  /\ stage[w] = "after"
        /\ todo' = [todo EXCEPT ![w] = downs]
        /\ stage' = [stage EXCEPT ![w] = IF downs = <<>> THEN "return" ELSE "downstream"]
        /\ UNCHANGED <<ver, seen, mutex, root, made, handled, failures>>

Return(w) ==
    /\ stage[w] = "return"
    /\ stage' = [stage EXCEPT ![w] = "idle"]
    /\ root' = [root EXCEPT ![w] = Nobody]
    /\ todo' = [todo EXCEPT ![w] = <<>>]
    /\ made' = [made EXCEPT ![w] = [n \in Nodes |-> 0]]
    /\ handled' = [handled EXCEPT ![w] = {}]
    /\ UNCHANGED <<ver, seen, mutex, failures>>

Quietly(w) == RunHook(w) \/ SkipView(w) \/ BeginView(w) \/ Descend(w) \/ Return(w)

-----------------------------------------------------------------------------
(* Properties *)

\* Each view that a call has handled shows what the base tables held when the
\* call began, as far as the call passed it on, and all that the call itself
\* produced: a fan-in view is visited after every parent the call touches,
\* going up as well as down, whoever else refreshes, writes or fails.
CallDelivers ==
    \A w \in Callers : \A v \in handled[w] : \A s \in Sources(v) :
        made[w][s] <= seen[v][s]
=============================================================================
