------------------------------ MODULE MCQueryRuns ------------------------------
(* Instances of QueryRuns for TLC.                                          *)
EXTENDS QueryRuns, TLC

Symmetry == Permutations(Workers)

TwoPages == [c \in Connectors |-> 2]
TwoThenOne == [c \in Connectors |-> IF c = 1 THEN 2 ELSE 1]
OnePage == [c \in Connectors |-> 1]
=============================================================================
