----------------------------- MODULE MCDaemon -----------------------------
(***************************************************************************)
(* An instance of RefreshDaemon for TLC: P reads t1, Q reads P and t1, and *)
(* S reads Q and P.  In the order of names S comes before Q.               *)
(***************************************************************************)
EXTENDS RefreshDaemon

CONSTANTS t1, P, Q, S, U, D

MCSourceRows == [v \in Views |-> IF v = P THEN <<t1>>
                                 ELSE IF v = Q THEN <<P, t1>> ELSE <<Q, P>>]
MCNameOrder == <<P, S, Q>>
MCModeOf == [w \in Callers |-> IF w = U THEN "both" ELSE "upstream"]
MCDownstream == [w \in Callers |-> "downstream"]
MCHookOf == [v \in Views |-> IF v = P THEN "after" ELSE "none"]
MCScheduled == <<Q, S>>
MCInterval == [v \in {Q, S} |-> 1]
=============================================================================
