--------------------------- MODULE MCApprovalHost ---------------------------
(***************************************************************************)
(* ApprovalHost with two operators and one dangerous action;  *)
(* the requests and the policy are those of MCControlPlane.                *)
(***************************************************************************)
EXTENDS MCControlPlane, ApprovalHost

HostRequests == {Off("p1")}
=============================================================================
