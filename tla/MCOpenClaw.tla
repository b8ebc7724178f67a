----------------------------- MODULE MCOpenClaw -----------------------------
(* The model values the configurations of OpenClaw are built from. *)
EXTENDS OpenClaw

CONSTANTS e1, e2
=============================================================================
