--------------------------- MODULE MCControlPlane ---------------------------
(***************************************************************************)
(* Small instances of ControlPlane: the local channel with the approval    *)
(* store and signed grants, and the mobile channel with the tower.         *)
(***************************************************************************)
EXTENDS ControlPlane

CONSTANTS mock, pikvm, alice, bob, key, stray, g1, g2, g3, x1

MCPol ==
  [mode |-> "Supervised",
   targets |-> [allow |-> {}, deny |-> {"t9"}],
   sessions |-> [allow |-> {}, deny |-> {}],
   real_hardware |-> FALSE,
   rules |-> [c \in {"session.disable_audit", "secrets.raw_reveal"} |->
                IF c = "secrets.raw_reveal" THEN "ask_each_time" ELSE "allow"]]

Request(cap, target, params) ==
  [cap |-> cap, session |-> "s1", target |-> target, params |-> params,
   cred |-> None, reqid |-> NoId, signed |-> NoGrant]

Off(params) == Request("power.force_off", "t1", params)
Disable == Request("session.disable_audit", "t1", "p1")
Look == Request("observe.status", "t1", "p1")
Reveal == [Request("secrets.raw_reveal", "t1", "p1") EXCEPT !.cred = "c1"]

\* Signed grants: a one-time grant, one for a blocked capability, and a
\* reusable one by a stray signer.
\* Disable asks for what only the policy's rule allows.
Grant(id, r, one_time) ==
  [id |-> id, request |-> x1, cap |-> r.cap, session |-> r.session,
   target |-> r.target, provider |-> mock, params |-> r.params,
   family |-> FamilyOf(r.cap), expires |-> 1, signer |-> key,
   signature_valid |-> TRUE, one_time |-> one_time, consumed_at |-> FALSE,
   channel |-> "mobile"]
OneTime == Grant(g1, Off("p1"), TRUE)
Secret == Grant(g3, Reveal, TRUE)
Stray == [Grant(g2, Off("p1"), FALSE) EXCEPT !.signer = stray]
SignedSet == {OneTime, Secret, Stray}
With(r, g) == [r EXCEPT !.reqid = x1, !.signed = g]

\* The local channel: one dangerous action, again under other parameters, one
\* that approval may not resume, and one hard-denied.  A request whose signed
\* grant is refused goes on to the approval store like any other.
LocalRequests ==
  {Off("p1"), With(Off("p1"), OneTime), With(Off("p2"), OneTime),
   With(Off("p1"), Stray), With(Reveal, Secret), Disable}

\* The tower: two actions under ids handle mints, and one under the caller's
\* id, its own for a first call and, for a second, the one the first was given.
ActRequests == {Off("p1"), Off("p2"), [Off("p1") EXCEPT !.reqid = 1], Look}

NoGrants == {}
=============================================================================
