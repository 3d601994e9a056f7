--------------------------- MODULE MCApprovalQueue ---------------------------
\* ApprovalQueue with two requests, used by an agent's and an operator's process.
EXTENDS ApprovalQueue
CONSTANTS r1, r2, agent, operator
=============================================================================
