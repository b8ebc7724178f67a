----------------------------- MODULE MCAutoDev -----------------------------
(* The model values the configurations of AutoDev are built from. *)
EXTENDS AutoDev, TLC

CONSTANTS a1, a2, a3

\* Run ids are interchangeable.
RunSymmetry == Permutations(Runs)
=============================================================================
