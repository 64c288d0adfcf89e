----------------------------- MODULE MCRefresh -----------------------------
(***************************************************************************)
(* Instances of RefreshProtocol for TLC.                                   *)
(*   Shared:  A and B both read t1 and t2.                                 *)
(*   Chained: U reads t1; D reads U and t2.                                *)
(***************************************************************************)
EXTENDS RefreshProtocol, TLC

CONSTANTS t1, t2, A, B, c1, c2, c3

\* Two changes of t1 and one of t2, as many of them as the instance has.
MCTableOf == [c \in Changes |-> IF c = c2 THEN t2 ELSE t1]

SharedSources == [v \in Views |-> {t1, t2}]
SharedOrigin == [n \in Nodes |-> IF n \in Tables THEN {n} ELSE {t1, t2}]
SharedRank == [n \in Nodes |-> IF n = t1 THEN 1 ELSE IF n = t2 THEN 2 ELSE 3]

\* A is the upstream view and B its reader.  In sorted order the delta table
\* of t2 comes first.
ChainedSources == [v \in Views |-> IF v = A THEN {t1} ELSE {A, t2}]
ChainedOrigin == [n \in Nodes |-> IF n \in Tables THEN {n}
                                  ELSE IF n = A THEN {t1} ELSE {t1, t2}]
ChainedRank == [n \in Nodes |-> IF n = t2 THEN 1 ELSE IF n = A THEN 2 ELSE 3]

Symmetry == Permutations(Workers) \union Permutations(Sessions)

\* Where the bound on the clock is reached, the instance is over.
OutOfTime ==
    /\ ~Spare
    /\ \A w \in Workers : pc[w] = "idle"
    /\ \A x \in Sessions : writing[x] = None /\ tx[x] = {}
    /\ UNCHANGED vars

BoundedSpec == Init /\ [][Next \/ OutOfTime]_vars
=============================================================================
