----------------------------- MODULE MCDuckLake -----------------------------
(***************************************************************************)
(* Instances of DuckLakeRefresh for TLC: A reads t1 and t2, B reads t1.    *)
(***************************************************************************)
EXTENDS DuckLakeRefresh

CONSTANTS t1, t2, A, B, c1, c2, c3

MCSources == [v \in Views |-> IF v = A THEN {t1, t2} ELSE {t1}]
MCTableOf == [c \in Changes |-> IF c = c2 THEN t2 ELSE t1]
=============================================================================
