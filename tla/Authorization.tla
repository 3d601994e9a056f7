--------------------------- MODULE Authorization ---------------------------
(***************************************************************************)
(* What ControlPlane promises those who own the machines                   *)
(* (docs/operator-approval.md): authorities are given and never taken      *)
(* back, and every effect on a machine is one the policy allows outright   *)
(* or an authority given before covers; a use that is to be single is      *)
(* spent by the effect it had.                                             *)
(***************************************************************************)
EXTENDS Integers

CONSTANT Never      \* the expiry of an authority that never says when it ends
VARIABLES given,    \* authorities: [kind, ref, bind, expires]
          effects   \* [call, nth, verdict, kind, ref, does, at, once, spends]

\* The authority a is of the kind and by the answer the effect names, for that
\* very action, and not yet over.
Covers(a, e) ==
  /\ a.kind = e.kind /\ a.ref = e.ref
  /\ a.bind = e.does
  /\ a.expires # Never /\ e.at < a.expires

Permitted(e) ==
  \/ e.verdict = "allowed"
  \/ e.verdict = "gated" /\ \E a \in given : Covers(a, e)

Unspent(e) == ~\E f \in effects : e.once /\ f.once /\ f.spends = e.spends

Init == effects = {}

Give == given \subseteq given' /\ UNCHANGED effects

Act(e) ==
  /\ Permitted(e) /\ Unspent(e)
  /\ \A f \in effects : f.call # e.call
  /\ effects' = effects \cup {e}
  /\ UNCHANGED given

Next == Give \/ \E e \in effects' : Act(e)

Spec == Init /\ [][Next]_<<given, effects>>
=============================================================================
