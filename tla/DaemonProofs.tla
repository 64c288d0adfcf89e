---------------------------- MODULE DaemonProofs ----------------------------
(***************************************************************************)
(* Proofs about RefreshDaemon and the calls of Cascade, for any views,     *)
(* callers, schedules and intervals: the intervals the daemon backs off to *)
(* stay within their bounds, and a call of PRAGMA refresh that visits the  *)
(* views in order delivers what it has promised, whoever else writes,      *)
(* refreshes or fails meanwhile.                                           *)
(*                                                                         *)
(* The two walks that compute the order are depth-first searches.  That    *)
(* they put every view after its sources is WalksInOrder, a hypothesis on  *)
(* the graph of views; the rest of a call is proved from it.               *)
(***************************************************************************)
EXTENDS RefreshDaemon, TLAPS

-----------------------------------------------------------------------------
(* The backoff *)

\* In a call the agenda still starts with the view that the call is for.
BackoffInv ==
    /\ agenda \in Seq(ScheduledViews)
    /\ phase = "call" => agenda # <<>>
    /\ eff \in [ScheduledViews -> Nat]
    /\ BackoffInBounds

\* What the interval of a view becomes is within the bounds, if it was.
LEMMA BackedOffOK ==
    ASSUME BackoffInv, NEW v \in ScheduledViews
    PROVE  /\ BackedOff(v) \in Nat /\ BackedOff(v) <= MaxBackoff
           /\ Interval[v] <= MaxBackoff => BackedOff(v) >= Interval[v]
<1>1. /\ Interval[v] \in Nat \ {0} /\ MaxBackoff \in Nat /\ eff[v] \in Nat
  BY DaemonAssumption DEF BackoffInv
<1>2. DueAfter(v) \in Nat
  BY <1>1 DEF DueAfter
<1>3. Interval[v] <= MaxBackoff => DueAfter(v) >= Interval[v]
  BY <1>1 DEF DueAfter, BackoffInv, BackoffInBounds
<1> QED
  BY <1>1, <1>2, <1>3 DEF BackedOff

\* There is no backoff at first.
LEMMA BackoffInit == Init => BackoffInv
BY DEF Init, BackoffInv, BackoffInBounds

\* Only the end of a call changes an interval.
LEMMA BackoffStep == BackoffInv /\ [Next]_vars => BackoffInv'
<1> SUFFICES ASSUME BackoffInv, [Next]_vars PROVE BackoffInv'
  OBVIOUS
<1> USE DEF BackoffInv
<1>1. CASE UNCHANGED <<phase, agenda, eff>>
  BY <1>1 DEF BackoffInBounds
<1>2. CASE ReadSchedule
  BY <1>2, DaemonAssumption DEF ReadSchedule, GetScheduledViews, BackoffInBounds
<1>3. CASE PassOver
  BY <1>3 DEF PassOver, BackoffInBounds
<1>4. CASE StartCall
  BY <1>4 DEF StartCall, BackoffInBounds
<1>5. CASE EndCall
  <2> DEFINE v == Head(agenda)
  <2>1. v \in ScheduledViews /\ Tail(agenda) \in Seq(ScheduledViews)
    BY <1>5 DEF EndCall
  <2>2. PICK slow \in BOOLEAN :
           eff' = [eff EXCEPT ![v] = IF ~Adaptive THEN @
                                     ELSE IF slow THEN BackedOff(v) ELSE 0]
    BY <1>5 DEF EndCall
  <2>3. /\ \A u \in ScheduledViews : u # v => eff'[u] = eff[u]
        /\ eff'[v] \in {eff[v], BackedOff(v), 0}
    <3> HIDE DEF v
    <3> QED
      BY <2>1, <2>2
  <2>4. BackoffInBounds'
    BY <2>1, <2>3, BackedOffOK DEF BackoffInBounds
  <2>5. eff' \in [ScheduledViews -> Nat]
    <3> HIDE DEF v
    <3> QED
      BY <2>1, <2>2, BackedOffOK
  <2> QED
    BY <1>5, <2>1, <2>4, <2>5 DEF EndCall
<1>6. CASE EndCycle
  BY <1>6 DEF EndCycle, BackoffInBounds
<1>7. CASE Exit \/ Stop
  BY <1>7 DEF Exit, Stop, BackoffInBounds
<1>8. CASE DaemonStep
  BY <1>2, <1>3, <1>4, <1>5, <1>6, <1>7, <1>8 DEF DaemonStep, WakeUp
<1>9. ASSUME NEW w \in Callers, Work(w) \/ Refreshed(w)
                              \/ \E v \in UserViews : UserCall(w, v)
      PROVE  BackoffInv'
  BY <1>1, <1>9 DEF Work, Refreshed, UserCall, daemonVars
<1>10. CASE \E t \in Tables : Write(t) /\ UNCHANGED daemonVars
  BY <1>1, <1>10 DEF daemonVars
<1>11. CASE UNCHANGED vars
  BY <1>1, <1>11 DEF vars, daemonVars
<1> QED
  BY <1>7, <1>8, <1>9, <1>10, <1>11 DEF Next

\* However long the daemon runs, and whichever calls are slow, an interval it
\* has backed off to is at most the cap, and at least the one configured
\* unless that is above the cap itself.
THEOREM BackoffInBoundsHolds == Spec => []BackoffInBounds
<1>1. Init => BackoffInv
  BY BackoffInit
<1>2. BackoffInv /\ [Next]_vars => BackoffInv'
  BY BackoffStep
<1>3. BackoffInv => BackoffInBounds
  BY DEF BackoffInv
<1> QED
  BY <1>1, <1>2, <1>3, PTL DEF Spec
-----------------------------------------------------------------------------
(* The order of a call *)

\* No view of B is a source of a view of A.
Before(A, B) == \A a \in A : \A b \in B : b \notin Sources(a)

InOrder(q) == \A i, j \in 1 .. Len(q) : i <= j => q[j] \notin Sources(q[i])

\* The ancestors of a view, the view, and its descendants, each after its
\* sources; said of the lists that the two walks of the code compute.
WalksInOrder ==
    \A v \in Views :
        /\ Ancestors[v] \in Seq(Views) /\ Descendants[v] \in Seq(Views)
        /\ InOrder(Ancestors[v]) /\ InOrder(Descendants[v])
        /\ Before({v}, {v} \union ToSet(Descendants[v]))
        /\ Before(ToSet(Ancestors[v]), {v} \union ToSet(Descendants[v]))

\* The views that a call has still to visit.
Rest(w) ==
    CASE stage[w] = "upstream" ->
            ToSet(todo[w]) \union {root[w]} \union ToSet(Descendants[root[w]])
      [] stage[w] \in {"hook", "target"} -> {root[w]} \union ToSet(Descendants[root[w]])
      [] stage[w] = "after" -> ToSet(Descendants[root[w]])
      [] stage[w] = "downstream" -> ToSet(todo[w])
      [] OTHER -> {}

\* Where a call stands in the order.
Visiting(w) ==
    /\ stage[w] # "idle" => root[w] \in Views
    /\ stage[w] \in {"upstream", "downstream"} => todo[w] # <<>> /\ InOrder(todo[w])
    /\ stage[w] = "upstream" =>
          Before(ToSet(todo[w]), {root[w]} \union ToSet(Descendants[root[w]]))
    /\ Before(handled[w], Rest(w))

\* Nobody has read, or promises, what has not been written.
Written ==
    /\ \A v \in Views : \A n \in Nodes : seen[v][n] <= ver[n]
    /\ \A w \in Callers : \A n \in Nodes : made[w][n] <= ver[n]

CallInv ==
    /\ CascadeTypeOK /\ Written /\ CallDelivers
    /\ \A w \in Callers : Visiting(w)

\* The first view of a list, and those after it.
LEMMA FirstOfList ==
    ASSUME NEW q \in Seq(Views), q # <<>>
    PROVE  /\ Head(q) \in Views /\ Head(q) \in ToSet(q) /\ Tail(q) \in Seq(Views)
           /\ ToSet(Tail(q)) \subseteq ToSet(q) /\ ToSet(q) \subseteq Views
           /\ Len(q) = 1 <=> Tail(q) = <<>>
           /\ InOrder(q) => InOrder(Tail(q)) /\ Before({Head(q)}, ToSet(q))
<1>1. /\ Len(q) \in Nat /\ Len(q) >= 1 /\ DOMAIN q = 1 .. Len(q) /\ Head(q) = q[1]
      /\ \A i \in 1 .. Len(q) : q[i] \in Views
      /\ Tail(q) \in Seq(Views) /\ Len(Tail(q)) = Len(q) - 1
      /\ \A i \in 1 .. Len(q) - 1 : Tail(q)[i] = q[i + 1]
  OBVIOUS
<1>2. DOMAIN Tail(q) = 1 .. Len(q) - 1
  BY <1>1
<1>3. Head(q) \in Views /\ Head(q) \in ToSet(q) /\ ToSet(q) \subseteq Views
  BY <1>1 DEF ToSet
<1>4. ToSet(Tail(q)) \subseteq ToSet(q)
  BY <1>1, <1>2 DEF ToSet
<1>5. Len(q) = 1 <=> Tail(q) = <<>>
  <2>1. \A s \in Seq(Views) : Len(s) = 0 <=> s = <<>>
    OBVIOUS
  <2>2. Len(Tail(q)) = 0 <=> Len(q) = 1
    BY <1>1
  <2> QED
    BY <1>1, <2>1, <2>2
<1>6. ASSUME InOrder(q)
      PROVE  InOrder(Tail(q)) /\ Before({Head(q)}, ToSet(q))
  <2>1. InOrder(Tail(q))
    <3> SUFFICES ASSUME NEW i \in 1 .. Len(q) - 1, NEW j \in 1 .. Len(q) - 1, i <= j
                 PROVE  q[j + 1] \notin Sources(q[i + 1])
      BY <1>1 DEF InOrder
    <3> QED
      BY <1>1, <1>6 DEF InOrder
  <2>2. Before({Head(q)}, ToSet(q))
    BY <1>1, <1>6 DEF InOrder, Before, ToSet
  <2> QED
    BY <2>1, <2>2
<1> QED
  BY <1>1, <1>3, <1>4, <1>5, <1>6

\* The view that a call visits next is one of the rest, and no source of it is
\* visited after it.
LEMMA SubjectOK ==
    ASSUME WalksInOrder, CallInv, NEW w \in Callers, Busy(w)
    PROVE  /\ Subject(w) \in Views /\ Subject(w) \in Nodes /\ root[w] \in Views
           /\ Subject(w) \in Rest(w) /\ Before({Subject(w)}, Rest(w))
<1>1. root[w] \in Views /\ todo[w] \in Seq(Views) /\ Visiting(w)
  BY DEF CallInv, CascadeTypeOK, Visiting, Busy
<1>2. CASE stage[w] = "target"
  BY <1>1, <1>2 DEF Subject, Rest, Before, WalksInOrder, Nodes
<1>3. CASE stage[w] \in {"upstream", "downstream"}
  <2>1. todo[w] # <<>> /\ InOrder(todo[w])
    BY <1>1, <1>3 DEF Visiting
  <2>2. Head(todo[w]) \in Views /\ Head(todo[w]) \in ToSet(todo[w])
        /\ Before({Head(todo[w])}, ToSet(todo[w]))
    BY <1>1, <2>1, FirstOfList
  <2>3. Subject(w) = Head(todo[w])
    BY <1>3 DEF Subject
  <2> QED
    BY <1>1, <1>3, <2>2, <2>3 DEF Rest, Before, Visiting, Nodes
<1> QED
  BY <1>2, <1>3 DEF Busy

\* The call is done with the view, which shows by now what its sources have.
LEMMA ProceedOK ==
    ASSUME WalksInOrder, CallInv, NEW w \in Callers, NEW skipped \in BOOLEAN,
           Busy(w), Proceed(w, skipped),
           ver' \in [Nodes -> Nat], seen' \in [Views -> [Nodes -> Nat]],
           \A n \in Nodes : ver[n] <= ver'[n],
           \A n \in Nodes \ {Subject(w)} : ver'[n] = ver[n],
           \A v \in Views : \A n \in Nodes : seen[v][n] <= seen'[v][n] /\ seen'[v][n] <= ver'[n],
           \A s \in Sources(Subject(w)) : ver[s] <= seen'[Subject(w)][s],
           mutex' \in [Views -> Callers \union {Nobody}], failures' = failures
    PROVE  CallInv'
<1> USE CascadeAssumption
<1> DEFINE u == Subject(w)
<1>0. /\ u \in Views /\ u \in Nodes /\ root[w] \in Views /\ u \in Rest(w)
      /\ Before({u}, Rest(w))
  BY SubjectOK
<1>1. CascadeTypeOK /\ Visiting(w) /\ todo[w] \in Seq(Views)
  BY DEF CallInv, CascadeTypeOK
<1>2. /\ todo' = [todo EXCEPT ![w] = IF stage[w] = "target" THEN <<>> ELSE Tail(@)]
      /\ handled' = [handled EXCEPT ![w] = @ \union {u}]
      /\ made' = [made EXCEPT ![w][u] = ver'[u]]
      /\ root' = root
      /\ stage' = [stage EXCEPT ![w] =
            CASE stage[w] = "target" -> IF skipped THEN "return" ELSE "after"
              [] stage[w] = "upstream" /\ Len(todo[w]) = 1 -> Start(root[w])
              [] stage[w] = "downstream" /\ Len(todo[w]) = 1 -> "return"
              [] OTHER -> @]
  BY DEF Proceed
<1> HIDE DEF u
<1>3. /\ todo'[w] = (IF stage[w] = "target" THEN <<>> ELSE Tail(todo[w]))
      /\ handled'[w] = handled[w] \union {u}
      /\ made'[w][u] = ver'[u] /\ \A n \in Nodes \ {u} : made'[w][n] = made[w][n]
      /\ \A x \in Callers \ {w} : /\ todo'[x] = todo[x] /\ handled'[x] = handled[x]
                                  /\ made'[x] = made[x] /\ stage'[x] = stage[x]
  BY <1>0, <1>1, <1>2 DEF CascadeTypeOK
<1>4. /\ stage[w] = "target" => stage'[w] \in {"return", "after"}
      /\ stage[w] = "upstream" =>
            stage'[w] = IF Tail(todo[w]) = <<>> THEN Start(root[w]) ELSE "upstream"
      /\ stage[w] = "downstream" =>
            stage'[w] = IF Tail(todo[w]) = <<>> THEN "return" ELSE "downstream"
      /\ stage' \in [Callers -> Stages]
  <2>1. stage[w] \in {"upstream", "downstream"} => (Len(todo[w]) = 1 <=> Tail(todo[w]) = <<>>)
    BY <1>1, FirstOfList DEF Visiting
  <2>2. stage[w] \in {"upstream", "target", "downstream"} /\ stage \in [Callers -> Stages]
    BY <1>1 DEF Busy, CascadeTypeOK
  <2>3. Start(root[w]) \in Stages
    BY DEF Start, Stages
  <2> QED
    BY <1>2, <2>1, <2>2, <2>3 DEF Stages
<1>5. Start(root[w]) \in {"hook", "target"}
  BY DEF Start
<1>6. stage[w] \in {"upstream", "downstream"} =>
        /\ Tail(todo[w]) \in Seq(Views) /\ ToSet(Tail(todo[w])) \subseteq ToSet(todo[w])
        /\ InOrder(Tail(todo[w]))
  BY <1>1, FirstOfList DEF Visiting
<1>7. Rest(w)' \subseteq Rest(w)
  <2>1. CASE stage[w] = "target"
    BY <1>2, <1>4, <2>1 DEF Rest
  <2>2. CASE stage[w] = "upstream"
    BY <1>2, <1>3, <1>4, <1>5, <1>6, <2>2 DEF Rest
  <2>3. CASE stage[w] = "downstream"
    BY <1>2, <1>3, <1>4, <1>6, <2>3 DEF Rest
  <2> QED
    BY <2>1, <2>2, <2>3 DEF Busy
<1>8. Visiting(w)'
  <2>1. Before(handled[w], Rest(w))
    BY <1>1 DEF Visiting
  <2>2. Before(handled'[w], Rest(w)')
    BY <1>0, <1>3, <1>7, <2>1 DEF Before
  <2>3. stage[w] = "upstream" =>
           Before(ToSet(todo[w]), {root[w]} \union ToSet(Descendants[root[w]]))
    BY <1>1 DEF Visiting
  <2>4. stage'[w] = "upstream" =>
           /\ todo'[w] # <<>> /\ InOrder(todo'[w])
           /\ Before(ToSet(todo'[w]), {root[w]} \union ToSet(Descendants[root[w]]))
    BY <1>3, <1>4, <1>5, <1>6, <2>3 DEF Before, Busy
  <2>5. stage'[w] = "downstream" => todo'[w] # <<>> /\ InOrder(todo'[w])
    BY <1>3, <1>4, <1>5, <1>6 DEF Busy
  <2> QED
    BY <1>0, <1>2, <2>2, <2>4, <2>5 DEF Visiting
<1>9. \A x \in Callers \ {w} : Visiting(x)'
  BY <1>2, <1>3 DEF CallInv, Visiting, Rest
<1>10. CascadeTypeOK'
  <2>1. todo' \in [Callers -> Seq(Views)]
    BY <1>1, <1>2, <1>6 DEF CascadeTypeOK, Busy
  <2>2. handled' \in [Callers -> SUBSET Views]
    BY <1>0, <1>1, <1>2 DEF CascadeTypeOK
  <2>3. made' \in [Callers -> [Nodes -> Nat]]
    BY <1>0, <1>1, <1>2 DEF CascadeTypeOK
  <2> QED
    BY <1>1, <1>2, <1>4, <2>1, <2>2, <2>3 DEF CascadeTypeOK
<1>11. Written'
  <2>1. \A x \in Callers : \A n \in Nodes : made[x][n] \in Nat /\ ver[n] \in Nat
                                            /\ ver'[n] \in Nat /\ made[x][n] <= ver[n]
    BY <1>1 DEF CallInv, CascadeTypeOK, Written
  <2>2. ASSUME NEW x \in Callers, NEW n \in Nodes
        PROVE  made'[x][n] <= ver'[n]
    <3>1. CASE x = w /\ n = u
      BY <1>3, <2>1, <3>1
    <3>2. CASE ~(x = w /\ n = u)
      <4>1. made'[x][n] = made[x][n]
        BY <1>3, <3>2
      <4> QED
        BY <2>1, <4>1
    <3> QED
      BY <3>1, <3>2
  <2> QED
    BY <2>2 DEF Written
<1>12. CallDelivers'
  <2> SUFFICES ASSUME NEW x \in Callers, NEW v \in handled'[x], NEW s \in Sources(v)
               PROVE  made'[x][s] <= seen'[v][s]
    BY DEF CallDelivers
  <2>0. v \in Views /\ s \in Nodes
    BY <1>10 DEF CascadeTypeOK
  <2>1. /\ made[x][s] \in Nat /\ seen[v][s] \in Nat /\ seen'[v][s] \in Nat /\ ver[s] \in Nat
        /\ made[x][s] <= ver[s] /\ seen[v][s] <= seen'[v][s]
    BY <1>1, <2>0 DEF CallInv, CascadeTypeOK, Written
  <2>2. CASE v \in handled[x]
    <3>1. made[x][s] <= seen[v][s]
      BY <2>2 DEF CallInv, CallDelivers
    <3>2. made'[x][s] = made[x][s]
      <4>1. CASE x # w
        BY <1>3, <4>1
      <4>2. CASE x = w
        <5>1. s # u
          BY <1>0, <1>1, <2>2, <4>2 DEF Visiting, Before
        <5> QED
          BY <1>3, <2>0, <4>2, <5>1
      <4> QED
        BY <4>1, <4>2
    <3> QED
      BY <2>1, <3>1, <3>2
  <2>3. CASE v \notin handled[x]
    <3>1. x = w /\ v = u
      BY <1>3, <2>3
    <3>2. s # u
      BY <1>0, <3>1 DEF Before
    <3>3. made'[x][s] = made[x][s] /\ ver[s] <= seen'[v][s]
      BY <1>3, <2>0, <3>1, <3>2 DEF u
    <3> QED
      BY <2>1, <3>3
  <2> QED
    BY <2>2, <2>3
<1> QED
  BY <1>8, <1>9, <1>10, <1>11, <1>12 DEF CallInv

\* The other steps of a call hand no view over, and go on with its order.
LEMMA OtherCallSteps ==
    ASSUME WalksInOrder, CallInv, NEW w \in Callers,
           RunHook(w) \/ BeginView(w) \/ FailView(w) \/ Descend(w) \/ Return(w)
    PROVE  CallInv'
<1> USE CascadeAssumption
<1>0. CascadeTypeOK /\ Visiting(w) /\ UNCHANGED <<ver, seen>>
  BY DEF CallInv, RunHook, BeginView, FailView, Descend, Return, callVars
<1>1. CASE RunHook(w)
  <2> USE <1>1 DEF RunHook
  <2>1. stage[w] = "hook" /\ stage'[w] \in {"return", "after", "target"}
        /\ \A x \in Callers \ {w} : stage'[x] = stage[x]
    BY <1>0 DEF CascadeTypeOK
  <2>2. CascadeTypeOK'
    BY <1>0 DEF CascadeTypeOK, Stages
  <2>3. Rest(w)' \subseteq Rest(w)
    BY <2>1 DEF Rest
  <2>4. Visiting(w)'
    BY <1>0, <2>1, <2>3 DEF Visiting, Before
  <2>5. \A x \in Callers \ {w} : Visiting(x)'
    BY <2>1 DEF CallInv, Visiting, Rest
  <2> QED
    BY <2>2, <2>4, <2>5 DEF CallInv, Written, CallDelivers
<1>2. CASE BeginView(w)
  <2> USE <1>2 DEF BeginView, callVars
  <2>1. CascadeTypeOK'
    BY <1>0 DEF CascadeTypeOK
  <2> QED
    BY <2>1 DEF CallInv, Written, CallDelivers, Visiting, Rest
<1>3. CASE FailView(w)
  <2> USE <1>3 DEF FailView
  <2>0. root[w] \in Views
    BY <1>0 DEF Visiting, Busy
  <2>1. stage'[w] = "return" /\ \A x \in Callers \ {w} : stage'[x] = stage[x]
    BY <1>0 DEF CascadeTypeOK
  <2>2. CascadeTypeOK'
    <3>1. failures' \in 0..MaxFailures
      BY <1>0 DEF CascadeTypeOK
    <3>2. mutex' \in [Views -> Callers \union {Nobody}] /\ stage' \in [Callers -> Stages]
      BY <1>0 DEF CascadeTypeOK, Stages
    <3> QED
      BY <1>0, <3>1, <3>2 DEF CascadeTypeOK
  <2>3. Visiting(w)'
    BY <2>0, <2>1 DEF Visiting, Rest, Before
  <2>4. \A x \in Callers \ {w} : Visiting(x)'
    BY <2>1 DEF CallInv, Visiting, Rest
  <2> QED
    BY <2>2, <2>3, <2>4 DEF CallInv, Written, CallDelivers
<1>4. CASE Descend(w)
  <2> DEFINE downs == IF ModeOf[w] \in {"downstream", "both"}
                      THEN Descendants[root[w]] ELSE <<>>
  <2>0. /\ stage[w] = "after" /\ root[w] \in Views
        /\ todo' = [todo EXCEPT ![w] = downs]
        /\ stage' = [stage EXCEPT ![w] = IF downs = <<>> THEN "return" ELSE "downstream"]
        /\ UNCHANGED <<ver, seen, mutex, root, made, handled, failures>>
    BY <1>0, <1>4 DEF Descend, Visiting
  <2>1. downs \in Seq(Views) /\ (downs # <<>> => downs = Descendants[root[w]] /\ InOrder(downs))
    <3>1. root[w] \in Views
      BY <2>0
    <3>2. Descendants[root[w]] \in Seq(Views) /\ InOrder(Descendants[root[w]])
      BY <3>1 DEF WalksInOrder
    <3>3. <<>> \in Seq(Views)
      OBVIOUS
    <3> QED
      BY <3>2, <3>3
  <2> HIDE DEF downs
  <2>2. /\ todo'[w] = downs /\ stage'[w] = IF downs = <<>> THEN "return" ELSE "downstream"
        /\ \A x \in Callers \ {w} : stage'[x] = stage[x] /\ todo'[x] = todo[x]
    BY <1>0, <2>0 DEF CascadeTypeOK
  <2>3. CascadeTypeOK'
    BY <1>0, <2>0, <2>1 DEF CascadeTypeOK, Stages
  <2>4. Rest(w)' \subseteq Rest(w)
    BY <2>0, <2>1, <2>2 DEF Rest
  <2>5. Visiting(w)'
    BY <1>0, <2>0, <2>1, <2>2, <2>4 DEF Visiting, Before
  <2>6. \A x \in Callers \ {w} : Visiting(x)'
    BY <2>0, <2>2 DEF CallInv, Visiting, Rest
  <2> QED
    BY <2>0, <2>3, <2>5, <2>6 DEF CallInv, Written, CallDelivers
<1>5. CASE Return(w)
  <2> USE <1>5 DEF Return
  <2>1. /\ stage'[w] = "idle" /\ handled'[w] = {} /\ made'[w] = [n \in Nodes |-> 0]
        /\ \A x \in Callers \ {w} : /\ stage'[x] = stage[x] /\ todo'[x] = todo[x]
                                    /\ root'[x] = root[x] /\ handled'[x] = handled[x]
                                    /\ made'[x] = made[x]
    BY <1>0 DEF CascadeTypeOK
  <2>2. CascadeTypeOK'
    BY <1>0 DEF CascadeTypeOK, Stages
  <2> HIDE <1>5 DEF Return
  <2>3. Visiting(w)'
    BY <2>1 DEF Visiting, Before
  <2>4. \A x \in Callers \ {w} : Visiting(x)'
    BY <2>1 DEF CallInv, Visiting, Rest
  <2>5. Written'
    <3>1. \A n \in Nodes : made'[w][n] = 0 /\ ver[n] \in Nat
      BY <1>0, <2>1 DEF CascadeTypeOK
    <3> QED
      BY <1>0, <2>1, <3>1 DEF CallInv, Written
  <2>6. CallDelivers'
    BY <1>0, <2>1 DEF CallInv, CallDelivers
  <2> QED
    BY <2>2, <2>3, <2>4, <2>5, <2>6 DEF CallInv
<1> QED
  BY <1>1, <1>2, <1>3, <1>4, <1>5

\* A view is passed over when it has read all that there is.
LEMMA SkipViewOK ==
    ASSUME WalksInOrder, CallInv, NEW w \in Callers, SkipView(w)
    PROVE  CallInv'
<1>1. Busy(w) /\ Proceed(w, TRUE) /\ UNCHANGED <<ver, seen, mutex, failures>>
  BY DEF SkipView
<1>2. Subject(w) \in Views /\ CascadeTypeOK /\ Written
  BY <1>1, SubjectOK DEF CallInv
<1>3. \A s \in Sources(Subject(w)) : ver[s] <= seen[Subject(w)][s]
  <2> SUFFICES ASSUME NEW s \in Sources(Subject(w))
               PROVE  ver[s] <= seen[Subject(w)][s]
    OBVIOUS
  <2>1. ~(seen[Subject(w)][s] < ver[s]) /\ s \in Nodes
    BY <1>2, CascadeAssumption DEF SkipView, Pending
  <2> QED
    BY <1>2, <2>1 DEF CascadeTypeOK
<1>4. /\ ver' \in [Nodes -> Nat] /\ seen' \in [Views -> [Nodes -> Nat]]
      /\ mutex' \in [Views -> Callers \union {Nobody}]
      /\ \A n \in Nodes : ver[n] <= ver'[n]
      /\ \A v \in Views : \A n \in Nodes : seen[v][n] <= seen'[v][n] /\ seen'[v][n] <= ver'[n]
  BY <1>1, <1>2 DEF CascadeTypeOK, Written
<1> QED
  BY <1>1, <1>3, <1>4, ProceedOK

\* A refresh reads all that is there, and may make the next version of its view.
LEMMA FinishViewOK ==
    ASSUME WalksInOrder, CallInv, NEW w \in Callers, FinishView(w)
    PROVE  CallInv'
<1> DEFINE u == Subject(w)
           more == Pending(u) /\ Dependents(u) # <<>>
<1>1. /\ Busy(w) /\ Proceed(w, FALSE) /\ failures' = failures
      /\ seen' = [seen EXCEPT ![u] = [n \in Nodes |-> IF n \in Sources(u)
                                                      THEN ver[n] ELSE @[n]]]
      /\ ver' = [ver EXCEPT ![u] = IF more THEN @ + 1 ELSE @]
      /\ mutex' = [mutex EXCEPT ![u] = Nobody]
  BY DEF FinishView
<1>2. u \in Views /\ u \in Nodes /\ CascadeTypeOK /\ Written /\ Sources(u) \subseteq Nodes
  BY <1>1, SubjectOK, CascadeAssumption DEF CallInv
<1> HIDE DEF u, more
<1>3. /\ ver \in [Nodes -> Nat] /\ seen \in [Views -> [Nodes -> Nat]]
      /\ mutex \in [Views -> Callers \union {Nobody}]
      /\ \A v \in Views : \A n \in Nodes : seen[v][n] <= ver[n]
  BY <1>2 DEF CascadeTypeOK, Written
<1>4. /\ ver' \in [Nodes -> Nat] /\ \A n \in Nodes \ {u} : ver'[n] = ver[n]
      /\ \A n \in Nodes : ver[n] <= ver'[n]
  BY <1>1, <1>2, <1>3
<1>5. /\ seen' \in [Views -> [Nodes -> Nat]] /\ \A v \in Views \ {u} : seen'[v] = seen[v]
      /\ \A n \in Nodes : seen'[u][n] = IF n \in Sources(u) THEN ver[n] ELSE seen[u][n]
  BY <1>1, <1>2, <1>3
<1>6. \A s \in Sources(u) : ver[s] <= seen'[u][s]
  BY <1>2, <1>3, <1>5
<1>7. ASSUME NEW v \in Views, NEW n \in Nodes
      PROVE  seen[v][n] <= seen'[v][n] /\ seen'[v][n] <= ver'[n]
  <2>1. seen[v][n] \in Nat /\ ver[n] \in Nat /\ ver'[n] \in Nat /\ seen[v][n] <= ver[n]
        /\ ver[n] <= ver'[n] /\ seen'[v][n] \in {seen[v][n], ver[n]}
    BY <1>3, <1>4, <1>5
  <2> QED
    BY <2>1
<1>8. mutex' \in [Views -> Callers \union {Nobody}]
  BY <1>1, <1>3
<1> QED
  BY <1>1, <1>4, <1>5, <1>6, <1>7, <1>8, ProceedOK DEF u

\* A call that begins has handled nothing, and promises what tables hold by now.
LEMMA CallRefreshOK ==
    ASSUME WalksInOrder, CallInv, NEW w \in Callers, NEW v \in Views,
           CallRefresh(w, v), UNCHANGED <<ver, seen, mutex, failures>>
    PROVE  CallInv'
<1> USE CascadeAssumption
<1> DEFINE ups == IF ModeOf[w] \in {"upstream", "both"} THEN Ancestors[v] ELSE <<>>
<1>1. /\ root' = [root EXCEPT ![w] = v]
      /\ todo' = [todo EXCEPT ![w] = ups]
      /\ stage' = [stage EXCEPT ![w] = IF ups = <<>> THEN Start(v) ELSE "upstream"]
      /\ made' = [made EXCEPT ![w] = [n \in Nodes |-> IF n \in Tables THEN ver[n] ELSE 0]]
      /\ handled' = [handled EXCEPT ![w] = {}]
  BY DEF CallRefresh
<1>2. /\ ups = <<>> \/ (ups \in Seq(Views) /\ InOrder(ups))
      /\ ups # <<>> => Before(ToSet(ups), {v} \union ToSet(Descendants[v]))
  <2>1. Ancestors[v] \in Seq(Views) /\ InOrder(Ancestors[v])
        /\ Before(ToSet(Ancestors[v]), {v} \union ToSet(Descendants[v]))
    BY DEF WalksInOrder
  <2>2. <<>> \in Seq(Views)
    OBVIOUS
  <2> QED
    BY <2>1, <2>2
<1> HIDE DEF ups
<1>3. CascadeTypeOK /\ Start(v) \in {"hook", "target"}
  BY DEF CallInv, Start
<1>4. /\ root'[w] = v /\ todo'[w] = ups /\ handled'[w] = {}
      /\ stage'[w] = IF ups = <<>> THEN Start(v) ELSE "upstream"
      /\ \A n \in Nodes : made'[w][n] \in {0, ver[n]}
      /\ \A x \in Callers \ {w} : /\ stage'[x] = stage[x] /\ todo'[x] = todo[x]
                                  /\ root'[x] = root[x] /\ handled'[x] = handled[x]
                                  /\ made'[x] = made[x]
  BY <1>1, <1>3 DEF CascadeTypeOK
<1>5. CascadeTypeOK'
  <2>1. ups \in Seq(Views)
    <3>1. <<>> \in Seq(Views)
      OBVIOUS
    <3> QED
      BY <1>2, <3>1
  <2>2. /\ root' \in [Callers -> Views \union {Nobody}] /\ todo' \in [Callers -> Seq(Views)]
        /\ handled' \in [Callers -> SUBSET Views]
    BY <1>1, <1>3, <2>1 DEF CascadeTypeOK
  <2>3. stage' \in [Callers -> Stages]
    BY <1>1, <1>3 DEF CascadeTypeOK, Stages
  <2>4. made' \in [Callers -> [Nodes -> Nat]]
    <3>1. [n \in Nodes |-> IF n \in Tables THEN ver[n] ELSE 0] \in [Nodes -> Nat]
      BY <1>3 DEF CascadeTypeOK
    <3> QED
      BY <1>1, <1>3, <3>1 DEF CascadeTypeOK
  <2> QED
    BY <1>3, <2>2, <2>3, <2>4 DEF CascadeTypeOK
<1>6. Visiting(w)'
  BY <1>2, <1>3, <1>4 DEF Visiting, Before
<1>7. \A x \in Callers \ {w} : Visiting(x)'
  BY <1>4 DEF CallInv, Visiting, Rest
<1>8. Written'
  <2>1. \A n \in Nodes : ver[n] \in Nat
    BY <1>3 DEF CascadeTypeOK
  <2> QED
    BY <1>4, <2>1 DEF CallInv, Written
<1>9. CallDelivers'
  BY <1>4 DEF CallInv, CallDelivers
<1> QED
  BY <1>5, <1>6, <1>7, <1>8, <1>9 DEF CallInv

\* A table that is written only gets ahead of what has been read.
LEMMA WriteOK ==
    ASSUME CallInv, NEW t \in Tables, Write(t)
    PROVE  CallInv'
<1>1. /\ ver \in [Nodes -> Nat] /\ t \in Nodes /\ ver' = [ver EXCEPT ![t] = @ + 1]
      /\ UNCHANGED <<seen, mutex, callVars, failures>>
  BY DEF Write, CallInv, CascadeTypeOK, Nodes
<1>2. ver' \in [Nodes -> Nat] /\ \A n \in Nodes : ver[n] <= ver'[n]
  BY <1>1
<1>3. CascadeTypeOK'
  BY <1>1, <1>2 DEF CallInv, CascadeTypeOK, callVars
<1>4. Written'
  <2>1. \A n \in Nodes : ver[n] \in Nat /\ ver'[n] \in Nat
    BY <1>1, <1>2
  <2>2. /\ \A v \in Views : \A n \in Nodes : seen[v][n] \in Nat /\ seen[v][n] <= ver[n]
        /\ \A w \in Callers : \A n \in Nodes : made[w][n] \in Nat /\ made[w][n] <= ver[n]
    BY DEF CallInv, CascadeTypeOK, Written
  <2>3. UNCHANGED <<seen, made>>
    BY <1>1 DEF callVars
  <2>4. /\ \A v \in Views : \A n \in Nodes : seen[v][n] <= ver'[n]
        /\ \A w \in Callers : \A n \in Nodes : made[w][n] <= ver'[n]
    BY <1>2, <2>1, <2>2
  <2> QED
    BY <2>3, <2>4 DEF Written
<1> QED
  BY <1>1, <1>3, <1>4 DEF CallInv, CallDelivers, Visiting, Rest, callVars

\* A step of the daemon, of a caller, or of a writer.
LEMMA CallStep ==
    ASSUME WalksInOrder, CallInv, BackoffInv, [Next]_vars
    PROVE  CallInv'
<1>1. CASE UNCHANGED cascadeVars
  BY <1>1 DEF cascadeVars, callVars, CallInv, CascadeTypeOK, Written, CallDelivers, Visiting, Rest
<1>2. ASSUME NEW t \in Tables, Write(t)
      PROVE  CallInv'
  BY <1>2, WriteOK
<1>3. ASSUME NEW w \in Callers, Work(w)
      PROVE  CallInv'
  BY <1>3, SkipViewOK, OtherCallSteps DEF Work, Quietly
<1>4. ASSUME NEW w \in Callers, Refreshed(w)
      PROVE  CallInv'
  BY <1>4, FinishViewOK DEF Refreshed
<1>5. ASSUME NEW w \in Callers, NEW v \in UserViews, UserCall(w, v)
      PROVE  CallInv'
  BY <1>5, CallRefreshOK, DaemonAssumption DEF UserCall
<1>6. CASE StartCall
  <2>1. Head(agenda) \in Views /\ Daemon \in Callers
    BY <1>6, DaemonAssumption DEF StartCall, BackoffInv
  <2>2. CASE CallRefresh(Daemon, Head(agenda))
    BY <1>6, <2>1, <2>2, CallRefreshOK DEF StartCall
  <2> QED
    BY <1>1, <1>6, <2>2 DEF StartCall, cascadeVars
<1>7. CASE DaemonStep \/ Stop
  BY <1>1, <1>6, <1>7
     DEF DaemonStep, Stop, WakeUp, ReadSchedule, PassOver, EndCall, EndCycle, Exit
<1>8. CASE UNCHANGED vars
  BY <1>1, <1>8 DEF vars
<1> QED
  BY <1>2, <1>3, <1>4, <1>5, <1>7, <1>8 DEF Next

\* No call has begun, and nothing has been written.
LEMMA CallInit == Init => CallInv
<1> SUFFICES ASSUME Init PROVE CallInv
  OBVIOUS
<1>1. CascadeInit
  BY DEF Init
<1>2. CascadeTypeOK
  <2>1. <<>> \in Seq(Views)
    OBVIOUS
  <2> QED
    BY <1>1, <2>1, CascadeAssumption DEF CascadeInit, CascadeTypeOK, Stages
<1> QED
  BY <1>1, <1>2 DEF CascadeInit, CallInv, Written, CallDelivers, Visiting, Before, Rest

\* A call that visits every view after its sources delivers: each view it has
\* handled shows what the tables held when the call began and what the call
\* has made of the view's own sources, however many calls, writes and failures
\* of refreshes there are at the same time.
THEOREM CallDeliversHolds ==
    ASSUME WalksInOrder
    PROVE  Spec => []CallDelivers
<1>1. Init => CallInv /\ BackoffInv
  BY CallInit, BackoffInit
<1>2. CallInv /\ BackoffInv /\ [Next]_vars => (CallInv /\ BackoffInv)'
  BY CallStep, BackoffStep
<1>3. CallInv => CallDelivers
  BY DEF CallInv
<1> QED
  BY <1>1, <1>2, <1>3, PTL DEF Spec

-----------------------------------------------------------------------------
(* Types *)

\* The daemon's own variables.
DaemonTypes ==
    /\ phase \in {"asleep", "cycle", "call", "stopped"} /\ done \subseteq Views
    /\ stale \in [ScheduledViews -> 0..Cap] /\ age \in [ScheduledViews -> 0..Cap]
    /\ shutdown \in BOOLEAN

\* Ages stop at Cap, and what a call has covered are views.
LEMMA DaemonTypesStep ==
    ASSUME WalksInOrder, DaemonTypes, CallInv, BackoffInv, [Next]_vars
    PROVE  DaemonTypes'
<1> USE DaemonAssumption DEF DaemonTypes
<1>0. 0 \in 0..Cap
  OBVIOUS
<1>1. CASE UNCHANGED daemonVars
  BY <1>1 DEF daemonVars
<1>2. CASE WakeUp
  <2>1. Older \in [ScheduledViews -> 0..Cap]
    BY DEF Older
  <2> QED
    BY <1>2, <2>1 DEF WakeUp, ReadSchedule
<1>3. CASE PassOver \/ StartCall \/ Exit \/ Stop
  BY <1>3 DEF PassOver, StartCall, Exit, Stop
<1>4. CASE EndCycle
  BY <1>0, <1>4 DEF EndCycle
<1>5. CASE EndCall
  <2>1. Head(agenda) \in Views
    BY <1>5 DEF EndCall, BackoffInv
  <2>2. Ancestors[Head(agenda)] \in Seq(Views) /\ Descendants[Head(agenda)] \in Seq(Views)
    BY <2>1 DEF WalksInOrder
  <2>3. \A q \in Seq(Views) : ToSet(q) \subseteq Views
    BY DEF ToSet
  <2>4. Covered(Head(agenda)) \subseteq Views
    BY <2>1, <2>2, <2>3 DEF Covered
  <2> QED
    BY <1>5, <2>4 DEF EndCall
<1>6. ASSUME NEW w \in Callers, Refreshed(w)
      PROVE  DaemonTypes'
  <2>1. age' \in [ScheduledViews -> 0..Cap]
    <3>1. CASE Subject(w) \notin ScheduledViews
      BY <1>6, <3>1 DEF Refreshed
    <3>2. CASE Subject(w) \in ScheduledViews
      <4>1. PICK a \in {0, age[Subject(w)]} : age' = [age EXCEPT ![Subject(w)] = a]
        BY <1>6, <3>2 DEF Refreshed
      <4>2. a \in 0..Cap
        BY <1>0, <3>2, <4>1
      <4> QED
        BY <4>1, <4>2
    <3> QED
      BY <3>1, <3>2
  <2> QED
    BY <1>6, <2>1 DEF Refreshed
<1> QED
  BY <1>1, <1>2, <1>3, <1>4, <1>5, <1>6 DEF Next, DaemonStep, Work, UserCall, vars

\* Type correctness of the daemon and of the calls.
THEOREM DaemonTypesHold ==
    ASSUME WalksInOrder
    PROVE  Spec => []TypeOK
<1>0. 0 \in 0..Cap
  BY DaemonAssumption
<1>1. Init => DaemonTypes /\ CallInv /\ BackoffInv
  BY <1>0, CallInit, BackoffInit DEF Init, DaemonTypes
<1>2. DaemonTypes /\ CallInv /\ BackoffInv /\ [Next]_vars
         => (DaemonTypes /\ CallInv /\ BackoffInv)'
  BY DaemonTypesStep, CallStep, BackoffStep
<1>3. DaemonTypes /\ CallInv /\ BackoffInv => TypeOK
  BY DEF DaemonTypes, CallInv, BackoffInv, TypeOK
<1> QED
  BY <1>1, <1>2, <1>3, PTL DEF Spec
=============================================================================
