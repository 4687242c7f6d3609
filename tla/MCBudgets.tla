------------------------------- MODULE MCBudgets -------------------------------
(* Two budgets: the case's, per period, and one execution's. *)
EXTENDS Budgets, TLC

Symmetry == Permutations(Collectors) \cup Permutations(Tickets)
OneExecution == {2}
HttpRequest == [b \in Budgets |-> 1]
EngineRequest == [b \in Budgets |-> IF b = 1 THEN 2 ELSE 0]
Both == {HttpRequest, EngineRequest}
Engine == {EngineRequest}
TwoAndTwo == [b \in Budgets |-> 2]
OneOrNone == {1, NoLimit}
================================================================================
