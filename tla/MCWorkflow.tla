----------------------------- MODULE MCWorkflow -----------------------------
(* The graphs the configurations of Workflow run.                          *)
EXTENDS Workflow

CONSTANTS x0, x1

\* Fan-out from 1 to 2 and 3, fan-in at 4, which depends on 1 as well.
Diamond == [n \in Nodes |-> CASE n = 1 -> {} [] n = 2 -> {1} [] n = 3 -> {1}
                              [] n = 4 -> {1, 2, 3}]
=============================================================================
