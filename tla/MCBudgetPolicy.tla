--------------------------- MODULE MCBudgetPolicy ---------------------------
(* The model values the configuration of BudgetPolicy is built from. *)
EXTENDS BudgetPolicy

CONSTANTS p1, p2, c1, c2, c3, t1, t2

\* Two calls of one process, one of another.
McProcOf == [c \in Calls |-> IF c = c3 THEN p2 ELSE p1]
=============================================================================
