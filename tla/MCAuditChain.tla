---------------------------- MODULE MCAuditChain ----------------------------
(* The model values the configurations of AuditChain are built from. *)
EXTENDS AuditChain

CONSTANTS a1, a2, v1
=============================================================================
