---------------------------- MODULE MCVAPipeline ----------------------------
(* The model values the configurations of VAPipeline are built from.       *)
EXTENDS VAPipeline

CONSTANTS q1, q2, j1, t1, t2
=============================================================================
