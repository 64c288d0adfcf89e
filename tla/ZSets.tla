------------------------------- MODULE ZSets -------------------------------
(***************************************************************************)
(* Relations with signed multiplicities, as delta tables and delta views   *)
(* store them (a row and its openivm_multiplicity).  A relation maps rows   *)
(* to integers.  A row of weight 0 was written and cancelled: it changes   *)
(* nothing, but it is there for SQL that does not sum the weights first.   *)
(***************************************************************************)
EXTENDS Integers, Sequences, FiniteSets, SequencesExt, TLC

Empty == [x \in {} |-> 0]
At(R, x) == IF x \in DOMAIN R THEN R[x] ELSE 0
Total(R, S) == MapThenSumSet(LAMBDA x : R[x], S)

Only(R, P(_)) == [x \in {y \in DOMAIN R : P(y)} |-> R[x]]
Plus(R, S) == [x \in DOMAIN R \union DOMAIN S |-> At(R, x) + At(S, x)]
Times(n, R) == [x \in DOMAIN R |-> n * R[x]]
Minus(R, S) == Plus(R, Times(-1, S))
Single(x) == (x :> 1)
Once(S) == [x \in S |-> 1]

\* The image under F: rows that become equal add up.
Image(R, F(_)) ==
    LET at == [x \in DOMAIN R |-> F(x)]
    IN [y \in {at[x] : x \in DOMAIN R} |-> Total(R, {x \in DOMAIN R : at[x] = y})]

\* The pairs that match, with the product of their weights.
Pairs(R, S, On(_, _)) ==
    LET both == {p \in (DOMAIN R) \X (DOMAIN S) : On(p[1], p[2])}
    IN [x \in {p[1] \o p[2] : p \in both} |->
            LET p == CHOOSE q \in both : q[1] \o q[2] = x IN R[p[1]] * S[p[2]]]

\* What a relation amounts to.
Net(R) == Only(R, LAMBDA x : R[x] # 0)
Same(R, S) == Net(R) = Net(S)
=============================================================================
