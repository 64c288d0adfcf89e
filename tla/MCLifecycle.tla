---------------------------- MODULE MCLifecycle ----------------------------
(***************************************************************************)
(* Small instances of ViewLifecycle.                                       *)
(***************************************************************************)
EXTENDS ViewLifecycle

CONSTANTS t, v1, v2

\* Two views read one table.
SharedTable == [v \in Views |-> Tables]
=============================================================================
