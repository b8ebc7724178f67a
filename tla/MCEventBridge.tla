--------------------------- MODULE MCEventBridge ---------------------------
(* The model values the configuration of EventBridge is built from. *)
EXTENDS EventBridge

CONSTANTS m1, m2, m3
=============================================================================
