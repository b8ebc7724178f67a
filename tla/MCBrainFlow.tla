---------------------------- MODULE MCBrainFlow ----------------------------
(* The model values the configurations of BrainFlow are built from. *)
EXTENDS BrainFlow

CONSTANTS m1, m2, m3, k1, k2, k3

\* Messages are interchangeable, and so are conversation ids.
CallSymmetry == Permutations(Messages) \cup Permutations(Convs)
=============================================================================
