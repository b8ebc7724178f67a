------------------------- MODULE MCConfirmationGate -------------------------
(* The model values the configurations of ConfirmationGate are built from. *)
EXTENDS ConfirmationGate

CONSTANTS r1, r2, r3, t1, t2, c1, c2
=============================================================================
