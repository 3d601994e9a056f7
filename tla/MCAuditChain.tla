---------------------------- MODULE MCAuditChain ----------------------------
(***************************************************************************)
(* Small instances of AuditChain: two writers, on either backend.          *)
(***************************************************************************)
EXTENDS AuditChain

CONSTANTS p1, p2
=============================================================================
