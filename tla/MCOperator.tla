------------------------------ MODULE MCOperator ------------------------------
(***************************************************************************)
(* Instances of the operator: which criteria each rule has.                *)
(***************************************************************************)
EXTENDS Operator, TLC

CONSTANTS c1, c2, r1

\* c1 alone, none; and c1 for rule r1 with c2 for the other one.
OnlyC1  == [r \in Rules |-> {c1}]
NoneOf  == [r \in Rules |-> {}]
C1ForR1 == [r \in Rules |-> IF r = r1 THEN {c1} ELSE {}]
C2ForR2 == [r \in Rules |-> IF r = r1 THEN {} ELSE {c2}]

=============================================================================
