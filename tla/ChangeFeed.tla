----------------------------- MODULE ChangeFeed -----------------------------
(***************************************************************************)
(* What delta capture and refresh together promise to a view: every row    *)
(* change captured on a table the view reads is delivered to the view's    *)
(* data table once, and a refresh that delivers anything delivers all that *)
(* had been captured by the time it committed.  Nothing here mentions      *)
(* timestamps, cursors, locks or transactions; RefreshProtocol shows how   *)
(* the code keeps the promise with them.                                   *)
(***************************************************************************)

CONSTANTS Views,      \* the materialized views the promise is made to
          Changes,    \* the row changes that may be captured
          Subscribes  \* Subscribes[v] is the set of changes on v's own tables

VARIABLES captured,   \* the changes captured so far
          delivered   \* delivered[v] is the set of changes v's data reflects

feedVars == <<captured, delivered>>

Init ==
    /\ captured = {}
    /\ delivered = [v \in Views |-> {}]

Capture(c) ==
    /\ c \notin captured
    /\ captured' = captured \union {c}
    /\ UNCHANGED delivered

Deliver(v) ==
    /\ delivered' = [delivered EXCEPT ![v] = captured \intersect Subscribes[v]]
    /\ UNCHANGED captured

Next ==
    \/ \E c \in Changes : Capture(c)
    \/ \E v \in Views : Deliver(v)

Spec == Init /\ [][Next]_feedVars
=============================================================================
