----------------------- MODULE ControlPlaneEffectProofs -----------------------
(***************************************************************************)
(* What handle has a provider do, for every value of its constants: that   *)
(* it was authorised (HardInvariants, Authorised), logged before           *)
(* (AuditBeforeEffect) and reported as it was (ResultMatchesEffect).       *)
(***************************************************************************)
EXTENDS ControlPlaneProofs

-----------------------------------------------------------------------------
(***************************************************************************)
(* What may run, and on whose word.                                        *)
(*                                                                         *)
(* The policy decision is taken once, in Receive, and the provider is      *)
(* reached many steps later.  In between the position in handle is what    *)
(* remembers the decision: the invariants say of each label what the       *)
(* request that stands there was found to be.                              *)
(***************************************************************************)
\* The labels past the policy's refusals, and those a decision that requires
\* approval leads to.
PastPolicy == pc \in Labels \ {"idle", "refuse"}
InApproval == pc \in {"signed", "stored", "clearance", "waiting"}
Runnable == pc \in {"execute", "provider"}

-----------------------------------------------------------------------------
(***************************************************************************)
(* The capabilities no approval opens.                                     *)
(***************************************************************************)
\* What may be done by provider p for request r on basis b.
Harmless(r, p, b) ==
  /\ r.cap \notin HardDenyCapabilities
  /\ r.cap \in BlockedCapabilities => b.kind \notin {"grant", "signed"}
  /\ p \in RealHardware => Pol.real_hardware

Admitted ==
  PastPolicy => /\ Decision(req) # "deny"
                /\ plane.provider \in RealHardware => Pol.real_hardware

NoBlockedGrant == \A i \in DOMAIN store : store[i].cap \notin BlockedCapabilities

HardInv ==
  /\ Admitted /\ NoBlockedGrant
  /\ Runnable => Harmless(req, plane.provider, basis)
  /\ HardInvariants

LEMMA HardDenied ==
  ASSUME NEW r, r.cap \in HardDenyCapabilities
  PROVE  Decision(r) = "deny"
BY DEF Decision, DecisionFor, Refused

LEMMA RouteAdmits ==
  ASSUME NEW r, Route(r) # "refuse"
  PROVE  /\ Decision(r) # "deny"
         /\ plane.provider \in RealHardware => Pol.real_hardware
         /\ Route(r) = "execute" <=> ~RequiresApproval(Decision(r))
BY DEF Route

LEMMA HardInit == Init => HardInv
BY DEF Init, HardInv, Admitted, PastPolicy, NoBlockedGrant, Runnable, HardInvariants

\* A step that stays in its call and runs nothing: it keeps the basis or finds
\* one that is harmless.
LEMMA HardFrame ==
  ASSUME HardInv, UNCHANGED <<req, plane, store, executed>>,
         PastPolicy' => PastPolicy,
         Runnable' => (Runnable /\ basis' = basis) \/ Harmless(req, plane.provider, basis')
  PROVE  HardInv'
<1>1. Admitted' /\ NoBlockedGrant' /\ HardInvariants'
  BY DEF HardInv, Admitted, NoBlockedGrant, HardInvariants, Decision
<1>2. (Runnable => Harmless(req, plane.provider, basis))'
  BY DEF HardInv, Harmless
<1>. QED  BY <1>1, <1>2 DEF HardInv

LEMMA HardReceive ==
  ASSUME HardInv, NEW r \in Requests, Receive(r)
  PROVE  HardInv'
<1>1. /\ req' = r /\ basis' = PolicyBasis
      /\ pc' \in {Route(r), "idle"}
      /\ UNCHANGED <<plane, store, executed>>
  BY DEF Receive, heap, EmitThen, AuditRaises, Return
<1>2. ASSUME PastPolicy' PROVE pc' = Route(r) /\ Route(r) # "refuse"
  BY <1>1, <1>2 DEF PastPolicy
<1>3. Admitted'
  BY <1>1, <1>2, RouteAdmits DEF Admitted, Decision
<1>4. (Runnable => Harmless(req, plane.provider, basis))'
  BY <1>1, <1>3, HardDenied DEF Runnable, Harmless, Admitted, PastPolicy, Labels, PolicyBasis, Decision
<1>5. NoBlockedGrant' /\ HardInvariants'
  BY <1>1 DEF HardInv, NoBlockedGrant, HardInvariants
<1>. QED  BY <1>3, <1>4, <1>5 DEF HardInv

\* A grant of either kind names the request's capability, and none names a
\* blocked one: ApprovalGrant refuses it, and so does the verifier.
LEMMA HardGranted ==
  ASSUME HardInv, VerifySignedGrant \/ UseStoredGrant
  PROVE  HardInv'
<1>1. /\ UNCHANGED <<req, plane, store, executed>> /\ PastPolicy
      /\ req.cap \notin HardDenyCapabilities
      /\ plane.provider \in RealHardware => Pol.real_hardware
  <2>1. PastPolicy /\ UNCHANGED <<req, plane, store, executed>>
    BY DEF VerifySignedGrant, UseStoredGrant, PastPolicy, Labels
  <2>. QED  BY <2>1, HardDenied DEF HardInv, Admitted
<1>2. ASSUME Runnable' PROVE req.cap \notin BlockedCapabilities
  <2>1. CASE VerifySignedGrant
    BY <1>2, <2>1 DEF VerifySignedGrant, Runnable, EmitThen, AuditRaises, Return,
                      AcceptsSigned, VerifiesSigned, Matches, Binding
  <2>2. CASE UseStoredGrant
    BY <2>2 DEF UseStoredGrant, Usable, Matches, Binding, HardInv, NoBlockedGrant
  <2>. QED  BY <2>1, <2>2
<1>. QED  BY <1>1, <1>2, HardFrame DEF Harmless

LEMMA HardInvokeProvider ==
  ASSUME HardInv, InvokeProvider
  PROVE  HardInv'
<1>1. /\ pc = "provider" /\ pc' \in {"completed", "failed", "idle"}
      /\ UNCHANGED <<req, plane, basis, store>>
      /\ \A e \in executed' : e \in executed \/ (e.req = req /\ e.provider = plane.provider
                                                 /\ e.basis = basis)
  BY DEF InvokeProvider, heap, Return
<1>2. Admitted' /\ NoBlockedGrant' /\ ~Runnable'
  BY <1>1 DEF HardInv, Admitted, PastPolicy, Labels, NoBlockedGrant, Runnable, Decision
<1>3. HardInvariants'
  BY <1>1 DEF HardInv, HardInvariants, Harmless, Runnable
<1>. QED  BY <1>2, <1>3 DEF HardInv

LEMMA HardAround ==
  ASSUME TypeInv, HardInv,
         \/ \E a \in asked, op \in Operators, scope \in {"one_time", "session"} :
              GrantFromResponse(a, op, scope)
         \/ \E p \in Providers : NewControlPlane(p)
         \/ Restart
  PROVE  HardInv'
<1>1. ~PastPolicy' /\ ~Runnable' /\ UNCHANGED executed
  BY DEF GrantFromResponse, NewControlPlane, Restart, Return, PastPolicy, Runnable
<1>2. NoBlockedGrant'
  <2>1. ASSUME NEW a \in asked, NEW op, NEW scope, GrantFromResponse(a, op, scope)
        PROVE  NoBlockedGrant'
    <3>1. PICK g : store' = Append(store, g) /\ g.cap \notin BlockedCapabilities
      BY <2>1 DEF GrantFromResponse, AddActionGrant
    <3>. QED  BY <3>1 DEF HardInv, NoBlockedGrant, TypeInv, StoreOK
  <2>2. CASE Restart
    BY <2>2 DEF Restart, NoBlockedGrant
  <2>3. ASSUME NEW p \in Providers, NewControlPlane(p) PROVE NoBlockedGrant'
    BY <2>3 DEF NewControlPlane, HardInv, NoBlockedGrant
  <2>. QED  BY <2>1, <2>2, <2>3
<1>. QED  BY <1>1, <1>2 DEF HardInv, Admitted, HardInvariants

\* The other steps of a call: a clearance may open a blocked capability, but
\* not one the policy denies.
LEMMA HardOther ==
  ASSUME HardInv,
         \/ Refuse \/ AskOperator \/ RequestClearance
         \/ \E a \in Answers : ClearanceAnswered(a)
         \/ StartExecution \/ FinishExecution \/ Tick
  PROVE  HardInv'
<1>1. UNCHANGED <<req, plane, store, executed>>
  BY DEF Refuse, AskOperator, RequestClearance, ClearanceAnswered, StartExecution,
         FinishExecution, Tick, heap
<1>2. PastPolicy' => PastPolicy
  BY DEF Refuse, AskOperator, RequestClearance, ClearanceAnswered, StartExecution,
         FinishExecution, Tick, EmitThen, EmitAndReturn, AuditRaises, Return, PastPolicy, Labels
<1>3. ASSUME Runnable' PROVE (Runnable /\ basis' = basis) \/ basis'.kind = "clearance"
  BY <1>3 DEF Refuse, AskOperator, RequestClearance, ClearanceAnswered, StartExecution,
         FinishExecution, Tick, EmitThen, EmitAndReturn, AuditRaises, Return, Runnable, On
<1>4. PastPolicy => /\ req.cap \notin HardDenyCapabilities
                    /\ plane.provider \in RealHardware => Pol.real_hardware
  BY HardDenied DEF HardInv, Admitted
<1>5. Runnable' => PastPolicy'
  BY DEF Runnable, PastPolicy, Labels
<1>. QED  BY <1>1, <1>2, <1>3, <1>4, <1>5, HardFrame DEF Harmless

THEOREM HardInductive == TypeInv /\ HardInv /\ [Next]_vars => HardInv'
<1>. SUFFICES ASSUME TypeInv, HardInv, [Next]_vars PROVE HardInv'
  OBVIOUS
<1>1. CASE UNCHANGED vars
  BY <1>1, HardFrame DEF vars, heap, PastPolicy, Runnable
<1>2. CASE Next
  BY <1>2, HardReceive, HardGranted, HardInvokeProvider, HardAround, HardOther DEF Next, Step
<1>. QED  BY <1>1, <1>2

\* No rule, grant, signature or clearance makes a hard-denied capability run,
\* no operator's word a blocked one, and no call touches a real machine the
\* policy keeps closed.
THEOREM HardInvariantsHold == Spec => []HardInvariants
<1>1. HardInv => HardInvariants
  BY DEF HardInv
<1>. QED
  BY <1>1, HardInit, HardInductive, TypeInvInvariant, PTL DEF Spec

-----------------------------------------------------------------------------
(***************************************************************************)
(* The authority behind what runs.                                         *)
(***************************************************************************)
\* Authorised, of one request r run by provider p on basis b.
Backed(r, p, b) ==
  LET d == Decision(r) IN
  /\ d # "deny"
  /\ RequiresApproval(d) <=> b.kind # "policy"
  /\ RequiresApproval(d) =>
       \E a \in Authorities :
         /\ a.kind = b.kind /\ a.ref = b.ref
         /\ a.bind = (IF b.kind = "clearance" THEN ClearanceBinding(Binding(r, p))
                                              ELSE Binding(r, p))
         /\ a.expires # NoId
         /\ (IF b.kind = "clearance" THEN b.began ELSE b.since) < a.expires

\* The approval a grant in the store was made from.
ApprovalOf(g) ==
  [kind |-> "grant", ref |-> g.response, expires |-> g.expires,
   bind |-> [cap |-> g.cap, session |-> g.session, target |-> g.target,
             provider |-> g.provider, params |-> g.params]]

StoreApproved == \A i \in DOMAIN store : ApprovalOf(store[i]) \in approvals

\* The time a clearance will be compared with was read after the call began.
ReadInTime == basis.began <= clock /\ (pc = "waiting" => basis.began <= now)

AuthInv ==
  /\ InApproval => RequiresApproval(Decision(req))
  /\ StoreApproved /\ ReadInTime
  /\ Runnable => Backed(req, plane.provider, basis)
  /\ Authorised

LEMMA AuthInit == Init => AuthInv
BY DEF Init, AuthInv, InApproval, StoreApproved, ReadInTime, Runnable, Authorised, PolicyBasis

\* What was authorised stays so: approvals are never taken back.
LEMMA BackedStays ==
  ASSUME NEW r, NEW p, NEW b, Backed(r, p, b), approvals \subseteq approvals'
  PROVE  Backed(r, p, b)'
BY DEF Backed, Authorities, Decision

LEMMA AuthorisedStays ==
  ASSUME Authorised, approvals \subseteq approvals',
         \A e \in executed' : e \in executed \/ Backed(e.req, e.provider, e.basis)
  PROVE  Authorised'
<1>1. ASSUME NEW e \in executed' PROVE Backed(e.req, e.provider, e.basis)
  BY <1>1 DEF Authorised, Backed, Done, InForceAt
<1>2. ASSUME NEW e \in executed' PROVE Backed(e.req, e.provider, e.basis)'
  BY <1>1, <1>2, BackedStays
<1>. QED  BY <1>2 DEF Authorised, Backed, Done, InForceAt

\* A step that stays in its call and runs nothing.
LEMMA AuthFrame ==
  ASSUME AuthInv, UNCHANGED <<req, plane, store, executed>>, approvals \subseteq approvals',
         InApproval' => InApproval, ReadInTime',
         Runnable' => (Runnable /\ basis' = basis) \/ Backed(req, plane.provider, basis)'
  PROVE  AuthInv'
<1>1. (InApproval => RequiresApproval(Decision(req)))'
  BY DEF AuthInv, Decision
<1>2. StoreApproved'
  BY DEF AuthInv, StoreApproved
<1>3. (Runnable => Backed(req, plane.provider, basis))'
  <2>1. CASE Runnable /\ basis' = basis
    BY <2>1 DEF AuthInv, Backed, Authorities, Decision
  <2>. QED  BY <2>1
<1>4. Authorised'
  BY AuthorisedStays DEF AuthInv
<1>. QED  BY <1>1, <1>2, <1>3, <1>4 DEF AuthInv

LEMMA AuthReceive ==
  ASSUME TypeInv, AuthInv, HardInv, NEW r \in Requests, Receive(r)
  PROVE  AuthInv'
<1>1. /\ req' = r /\ basis' = PolicyBasis /\ pc' \in {Route(r), "idle"}
      /\ UNCHANGED <<clock, now, plane, store, approvals, executed>>
  BY DEF Receive, heap, EmitThen, AuditRaises, Return
<1>2. Route(r) # "waiting"
  BY RouteLabels
<1>3. /\ InApproval' => RequiresApproval(Decision(r))
      /\ Runnable' => Decision(r) # "deny" /\ ~RequiresApproval(Decision(r))
  BY <1>1, RouteAdmits, RouteLabels DEF InApproval, Runnable
<1>4. (InApproval => RequiresApproval(Decision(req)))'
  BY <1>1, <1>3 DEF Decision
<1>5. (Runnable => Backed(req, plane.provider, basis))'
  BY <1>1, <1>3 DEF Backed, PolicyBasis, Decision
<1>6. StoreApproved' /\ ReadInTime'
  BY <1>1, <1>2 DEF AuthInv, StoreApproved, ReadInTime, PolicyBasis, TypeInv, LocalsOK
<1>7. Authorised'
  BY <1>1, AuthorisedStays DEF AuthInv
<1>. QED  BY <1>4, <1>5, <1>6, <1>7 DEF AuthInv

\* What a grant must show to back the call in flight.
LEMMA BackedByGrant ==
  ASSUME AuthInv, HardInv, InApproval, UNCHANGED <<req, plane>>, approvals \subseteq approvals',
         basis'.kind # "policy",
         NEW a \in Authorities', a.kind = basis'.kind, a.ref = basis'.ref,
         a.bind = (IF basis'.kind = "clearance"
                     THEN ClearanceBinding(Binding(req, plane.provider))
                     ELSE Binding(req, plane.provider)),
         a.expires # NoId,
         (IF basis'.kind = "clearance" THEN basis'.began ELSE basis'.since) < a.expires
  PROVE  Backed(req, plane.provider, basis)'
<1>1. Decision(req) # "deny" /\ RequiresApproval(Decision(req))
  BY DEF HardInv, Admitted, PastPolicy, InApproval, Labels, AuthInv
<1>. QED  BY <1>1 DEF Backed, Decision

\* No step of a call changes when it began.
LEMMA BeganStays ==
  VerifySignedGrant \/ UseStoredGrant \/ (\E a \in Answers : ClearanceAnswered(a))
    => basis'.began = basis.began
BY DEF VerifySignedGrant, UseStoredGrant, ClearanceAnswered, On

\* A signed grant that the verifier accepts is by a trusted signer, for the
\* action, and in time.
LEMMA AuthVerifySignedGrant ==
  ASSUME TypeInv, HardInv, AuthInv, VerifySignedGrant
  PROVE  AuthInv'
<1>1. /\ pc = "signed" /\ pc' \in {"stored", "execute", "idle"}
      /\ UNCHANGED <<clock, now, req, plane, store, approvals, executed>>
  BY DEF VerifySignedGrant, EmitThen, AuditRaises, Return
<1>. DEFINE g == req.signed
            a == [kind |-> "signed", ref |-> <<g.id, NoId>>, expires |-> g.expires,
                  bind |-> [cap |-> g.cap, session |-> g.session, target |-> g.target,
                            provider |-> g.provider, params |-> g.params]]
<1>2. ASSUME Runnable' PROVE Backed(req, plane.provider, basis)'
  <2>1. /\ g # NoGrant /\ AcceptsSigned(g, req, Binding(req, plane.provider), clock)
        /\ basis' = On("signed", <<g.id, NoId>>, g.one_time)
    BY <1>2 DEF VerifySignedGrant, Runnable, EmitThen, AuditRaises, Return
  <2>2. g \in SignedGrants
    BY <2>1, RequestsAssumption DEF TypeInv, LocalsOK
  <2>3. a.bind = Binding(req, plane.provider) /\ clock < g.expires
    BY <2>1 DEF AcceptsSigned, VerifiesSigned, Matches, Binding
  <2>4. a \in Authorities'
    BY <2>1, <2>2 DEF Authorities, AcceptsSigned, VerifiesSigned
  <2>5. /\ a.expires # NoId /\ basis'.since < a.expires
        /\ basis'.kind = a.kind /\ basis'.ref = a.ref
    BY <2>1, <2>2, <2>3, ExpiryAssumption DEF On
  <2>. QED
    BY <1>1, <2>3, <2>4, <2>5, BackedByGrant DEF InApproval
<1>3. ReadInTime'
  BY <1>1, BeganStays DEF AuthInv, ReadInTime
<1>. QED
  BY <1>1, <1>2, <1>3, AuthFrame DEF InApproval

LEMMA AuthUseStoredGrant ==
  ASSUME TypeInv, HardInv, AuthInv, UseStoredGrant
  PROVE  AuthInv'
<1>1. /\ pc = "stored" /\ pc' \in {"execute", "idle"}
      /\ UNCHANGED <<clock, now, req, plane, store, approvals, executed>>
  BY DEF UseStoredGrant, EmitThen, AuditRaises, Return
<1>2. PICK i \in DOMAIN store :
        /\ Matches(store[i], Binding(req, plane.provider), clock)
        /\ basis' = On("grant", store[i].response, ~Reusable(store[i]))
  BY DEF UseStoredGrant, Usable
<1>. DEFINE a == ApprovalOf(store[i])
<1>3. a \in Authorities'
  BY <1>1 DEF AuthInv, StoreApproved, Authorities
<1>4. a.bind = Binding(req, plane.provider)
  BY <1>2 DEF Matches, Binding, ApprovalOf
<1>5. store[i].expires \in Nat /\ clock \in Nat /\ clock < store[i].expires
  <2>1. \A x \in Asks : x.expires \in Nat
    BY BoundsAssumption DEF Asks
  <2>. QED  BY <1>2, <2>1 DEF TypeInv, LocalsOK, StoreOK, Grants, Matches
<1>6. Backed(req, plane.provider, basis)'
  <2>1. /\ basis'.kind = a.kind /\ basis'.ref = a.ref /\ a.kind = "grant"
        /\ a.expires # NoId /\ basis'.since < a.expires
    BY <1>2, <1>5, ExpiryAssumption DEF ApprovalOf, On
  <2>. QED
    BY <1>1, <1>3, <1>4, <2>1, BackedByGrant DEF InApproval
<1>7. ReadInTime'
  BY <1>1, BeganStays DEF AuthInv, ReadInTime
<1>. QED
  BY <1>1, <1>6, <1>7, AuthFrame DEF InApproval

\* The clearance is compared with the time at which the tower was asked, which
\* is after the call began.
LEMMA AuthClearanceAnswered ==
  ASSUME TypeInv, HardInv, AuthInv, NEW x \in Answers, ClearanceAnswered(x)
  PROVE  AuthInv'
<1>1. /\ pc = "waiting" /\ pc' \in {"execute", "idle"} /\ approvals \subseteq approvals'
      /\ UNCHANGED <<clock, now, req, plane, store, executed>>
  BY DEF ClearanceAnswered, EmitThen, EmitAndReturn, AuditRaises, Return
<1>2. ASSUME Runnable' PROVE Backed(req, plane.provider, basis)'
  <2>1. /\ x.status = "cleared"
        /\ VerifiesClearance(x, ClearanceId, Binding(req, plane.provider), now)
        /\ basis' = On("clearance", <<x.request, NoId>>, FALSE)
        /\ approvals' = IF Given(x) THEN approvals \cup {Clearance(x)} ELSE approvals
    BY <1>2 DEF ClearanceAnswered, EmitAndReturn, AuditRaises, Return, Runnable
  <2>2. Clearance(x) \in Authorities'
    BY <2>1 DEF Given, VerifiesClearance, Authorities
  <2>3. x.expires \in Nat
    BY <2>1, BoundsAssumption DEF Answers, VerifiesClearance
  <2>4. basis.began < x.expires
    BY <1>1, <2>1, <2>3, BoundsAssumption
       DEF AuthInv, ReadInTime, VerifiesClearance, TypeInv, LocalsOK, BasisOK
  <2>5. /\ basis'.kind = "clearance" /\ basis'.ref = <<x.request, NoId>>
        /\ basis'.began < x.expires
    BY <2>1, <2>4 DEF On
  <2>. QED
    BY <1>1, <2>1, <2>2, <2>5, BackedByGrant DEF InApproval, Clearance, VerifiesClearance
<1>3. ReadInTime'
  BY <1>1, BeganStays DEF AuthInv, ReadInTime
<1>. QED
  BY <1>1, <1>2, <1>3, AuthFrame DEF InApproval

LEMMA AuthInvokeProvider ==
  ASSUME AuthInv, InvokeProvider
  PROVE  AuthInv'
<1>1. /\ pc = "provider" /\ pc' \in {"completed", "failed", "idle"}
      /\ UNCHANGED <<clock, now, req, plane, store, approvals, basis>>
      /\ \A e \in executed' : e \in executed \/ (e.req = req /\ e.provider = plane.provider
                                                 /\ e.basis = basis)
  BY DEF InvokeProvider, heap, Return
<1>2. Authorised'
  BY <1>1, AuthorisedStays DEF AuthInv, Runnable
<1>. QED
  BY <1>1, <1>2 DEF AuthInv, InApproval, StoreApproved, ReadInTime, Runnable

LEMMA AuthAround ==
  ASSUME TypeInv, AuthInv,
         \/ \E a \in asked, op \in Operators, scope \in {"one_time", "session"} :
              GrantFromResponse(a, op, scope)
         \/ \E p \in Providers : NewControlPlane(p)
         \/ Restart
  PROVE  AuthInv'
<1>1. /\ pc' = "idle" /\ UNCHANGED executed /\ approvals \subseteq approvals'
  BY DEF GrantFromResponse, AddActionGrant, NewControlPlane, Restart, Return
<1>2. StoreApproved'
  <2>1. ASSUME NEW a \in asked, NEW op \in Operators, NEW scope \in {"one_time", "session"},
               GrantFromResponse(a, op, scope)
        PROVE  StoreApproved'
    <3>. DEFINE g == [response |-> <<a.id, op>>, cap |-> a.bind.cap, session |-> a.bind.session,
                      target |-> a.bind.target, provider |-> a.bind.provider,
                      params |-> a.bind.params, expires |-> a.expires, scope |-> scope]
    <3>1. store' = Append(store, g) /\ store \in Seq(Grants)
      BY <2>1 DEF GrantFromResponse, AddActionGrant, TypeInv, StoreOK
    <3>2. a.bind = [cap |-> a.bind.cap, session |-> a.bind.session, target |-> a.bind.target,
                    provider |-> a.bind.provider, params |-> a.bind.params]
      BY DEF TypeInv, StoreOK, Asks, Binding
    <3>3. ApprovalOf(g) = [kind |-> "grant", ref |-> <<a.id, op>>, bind |-> a.bind,
                           expires |-> a.expires]
      BY <3>2 DEF ApprovalOf
    <3>4. ApprovalOf(g) \in approvals' /\ approvals \subseteq approvals'
      BY <2>1, <3>3 DEF GrantFromResponse, AddActionGrant
    <3>5. ASSUME NEW i \in DOMAIN store' PROVE ApprovalOf(store'[i]) \in approvals'
      BY <3>1, <3>4, <3>5 DEF AuthInv, StoreApproved
    <3>. QED  BY <3>5 DEF StoreApproved, ApprovalOf
  <2>2. CASE Restart
    BY <2>2 DEF Restart, StoreApproved
  <2>3. ASSUME NEW p \in Providers, NewControlPlane(p) PROVE StoreApproved'
    BY <2>3 DEF NewControlPlane, AuthInv, StoreApproved
  <2>. QED  BY <2>1, <2>2, <2>3
<1>3. Authorised'
  BY <1>1, AuthorisedStays DEF AuthInv
<1>4. ReadInTime'
  BY <1>1 DEF AuthInv, ReadInTime, GrantFromResponse, NewControlPlane, Restart, Return
<1>. QED
  BY <1>1, <1>2, <1>3, <1>4 DEF AuthInv, InApproval, Runnable

LEMMA AuthOther ==
  ASSUME TypeInv, AuthInv,
         Refuse \/ AskOperator \/ RequestClearance \/ StartExecution \/ FinishExecution \/ Tick
  PROVE  AuthInv'
<1>1. UNCHANGED <<req, plane, store, approvals, executed>>
  BY DEF Refuse, AskOperator, RequestClearance, StartExecution, FinishExecution, Tick, heap
<1>2. /\ InApproval' => InApproval
      /\ Runnable' => Runnable /\ basis' = basis
  BY DEF Refuse, AskOperator, RequestClearance, StartExecution, FinishExecution, Tick,
         EmitThen, EmitAndReturn, AuditRaises, Return, InApproval, Runnable
<1>3. ReadInTime'
  <2>1. CASE RequestClearance
    BY <2>1 DEF RequestClearance, ReadInTime, AuthInv
  <2>2. CASE Tick
    BY <2>2 DEF Tick, ReadInTime, AuthInv, TypeInv, LocalsOK, BasisOK
  <2>3. CASE Refuse \/ AskOperator \/ StartExecution \/ FinishExecution
    BY <2>3 DEF Refuse, AskOperator, StartExecution, FinishExecution,
                EmitThen, EmitAndReturn, AuditRaises, Return, ReadInTime, AuthInv
  <2>. QED  BY <2>1, <2>2, <2>3
<1>. QED  BY <1>1, <1>2, <1>3, AuthFrame

THEOREM AuthInductive == TypeInv /\ HardInv /\ AuthInv /\ [Next]_vars => AuthInv'
<1>. SUFFICES ASSUME TypeInv, HardInv, AuthInv, [Next]_vars PROVE AuthInv'
  OBVIOUS
<1>1. CASE UNCHANGED vars
  BY <1>1, AuthFrame DEF vars, heap, InApproval, ReadInTime, Runnable, AuthInv
<1>2. CASE Next
  BY <1>2, AuthReceive, AuthVerifySignedGrant, AuthUseStoredGrant, AuthClearanceAnswered,
     AuthInvokeProvider, AuthAround, AuthOther DEF Next, Step
<1>. QED  BY <1>1, <1>2

\* Whatever reaches a provider was allowed outright, or approved: that very
\* action, by an operator, a trusted signer or the tower, and in time.
THEOREM AuthorisedHolds == Spec => []Authorised
<1>1. AuthInv => Authorised
  BY DEF AuthInv
<1>. QED
  BY <1>1, AuthInit, AuthInductive, HardInit, HardInductive, TypeInvInvariant, PTL DEF Spec

-----------------------------------------------------------------------------
(***************************************************************************)
(* The audit log and the result against what was done.                     *)
(*                                                                         *)
(* Every step of handle ends in a sink that may raise after some of its    *)
(* events.  The position in handle says which events the call must have    *)
(* behind it, and whether its provider has been invoked.                   *)
(***************************************************************************)
Started == {"request_received", "policy_decision"}
Ended == {"provider_execution_completed", "provider_execution_failed"}

\* The trail of an event set that has the authority b in it.
ShowsAuthority(b, shown) ==
  /\ b.kind = "grant" => "approval_consumed" \in shown
  /\ b.kind \in {"signed", "clearance"} => "approval_verified" \in shown
  /\ b.kind = "signed" /\ b.one_time => "approval_consumed" \in shown

RunsAreLogged ==
  \A e \in executed :
    /\ e.call \in 1..n /\ e.call \in Calls
    /\ Started \cup {"provider_execution_started"} \subseteq trail[e.call]
    /\ ShowsAuthority(e.basis, trail[e.call])

AuditInv ==
  /\ RunsAreLogged
  /\ pc # "idle" => Started \subseteq trail[n]
  /\ pc \in {"execute", "provider"} => ShowsAuthority(basis, trail[n])
  /\ pc = "provider" => "provider_execution_started" \in trail[n]

-----------------------------------------------------------------------------
(***************************************************************************)
(* The log grows.                                                          *)
(***************************************************************************)
TrailGrows == \A c \in Calls : trail[c] \subseteq trail'[c]

LEMMA EmitGrows ==
  ASSUME HistoryOK, NEW STATE c, NEW STATE es, NEW STATE label, NEW STATE status,
         \/ Emit(c, es) \/ AuditRaises(c, es)
         \/ EmitThen(c, es, label) \/ EmitAndReturn(c, es, status)
  PROVE  TrailGrows
BY DEF Emit, AuditRaises, EmitThen, EmitAndReturn, HistoryOK, TrailGrows

LEMMA StepGrowsTrail ==
  ASSUME TypeInv, [Next]_vars
  PROVE  TrailGrows
<1>. USE EmitGrows DEF TypeInv
<1>1. CASE UNCHANGED trail
  BY <1>1 DEF TrailGrows
<1>2. ASSUME NEW r \in Requests, Receive(r) PROVE TrailGrows
  BY <1>2 DEF Receive
<1>3. CASE Refuse
  BY <1>3 DEF Refuse
<1>4. CASE VerifySignedGrant
  BY <1>4, <1>1 DEF VerifySignedGrant
<1>5. CASE UseStoredGrant
  BY <1>5 DEF UseStoredGrant
<1>6. CASE AskOperator
  BY <1>6 DEF AskOperator
<1>7. CASE RequestClearance
  BY <1>7 DEF RequestClearance
<1>8. ASSUME NEW a \in Answers, ClearanceAnswered(a) PROVE TrailGrows
  BY <1>8 DEF ClearanceAnswered
<1>9. CASE StartExecution \/ FinishExecution
  BY <1>9 DEF StartExecution, FinishExecution
<1>10. ASSUME ~UNCHANGED trail
       PROVE  ~InvokeProvider /\ ~Restart /\ ~Tick /\ ~UNCHANGED vars
              /\ (\A p \in Providers : ~NewControlPlane(p))
              /\ (\A a \in asked, op \in Operators, scope \in {"one_time", "session"} :
                    ~GrantFromResponse(a, op, scope))
  BY <1>10 DEF InvokeProvider, Restart, Tick, NewControlPlane, GrantFromResponse, vars
<1>. QED
  BY <1>1, <1>2, <1>3, <1>4, <1>5, <1>6, <1>7, <1>8, <1>9, <1>10 DEF Next, Step

-----------------------------------------------------------------------------
(***************************************************************************)
(* The log precedes the effect.                                            *)
(***************************************************************************)
LEMMA AuditInit == Init => AuditInv
BY DEF Init, AuditInv, RunsAreLogged

\* What is in the log stays in the log.
LEMMA LogStays ==
  ASSUME RunsAreLogged, TrailGrows, TypeInv,
         n' >= n, n' \in Nat, UNCHANGED executed
  PROVE  RunsAreLogged'
BY DEF RunsAreLogged, TrailGrows, ShowsAuthority, TypeInv, LocalsOK

\* A step of a call that goes on with the authority it has.
LEMMA AuditFrame ==
  ASSUME TypeInv, AuditInv, TrailGrows, UNCHANGED <<n, executed>>,
         pc' # "idle" => pc # "idle",
         pc' \in {"execute", "provider"} =>
           (pc \in {"execute", "provider"} /\ basis' = basis) \/ ShowsAuthority(basis', trail'[n]),
         pc' = "provider" => pc = "provider" \/ "provider_execution_started" \in trail'[n]
  PROVE  AuditInv'
<1>1. RunsAreLogged'
  BY LogStays DEF AuditInv, TypeInv, LocalsOK
<1>2. pc # "idle" => trail[n] \subseteq trail'[n]
  BY DEF TrailGrows, TypeInv, LocalsOK
<1>. QED  BY <1>1, <1>2 DEF AuditInv, ShowsAuthority

LEMMA AuditReceive ==
  ASSUME TypeInv, AuditInv, TrailGrows, NEW r \in Requests, Receive(r)
  PROVE  AuditInv'
<1>. DEFINE es == <<"request_received",
         IF r.cap \in KnownCaps THEN "capability_resolved" ELSE "capability_unknown_denied",
         "policy_decision">>
<1>1. /\ n + 1 \in Calls /\ es \in Seq(EventTypes) /\ EmitThen(n + 1, es, Route(r))
      /\ n' = n + 1 /\ basis' = PolicyBasis /\ UNCHANGED executed
  BY EventTriple, BoundsAssumption DEF TypeInv, LocalsOK, Receive, Calls, EventTypes
<1>2. pc' # "idle" => pc' = Route(r) /\ \A i \in 1..Len(es) : es[i] \in trail'[n + 1]
  BY <1>1, EmitThenOK DEF TypeInv
<1>3. pc' # "idle" => Started \subseteq trail'[n']
  <2>1. Len(es) = 3 /\ es[1] = "request_received" /\ es[3] = "policy_decision"
    OBVIOUS
  <2>. QED  BY <1>1, <1>2, <2>1 DEF Started
<1>4. RunsAreLogged'
  BY <1>1, LogStays DEF AuditInv, TypeInv, LocalsOK
<1>. QED
  BY <1>1, <1>2, <1>3, <1>4, RouteLabels DEF AuditInv, ShowsAuthority, PolicyBasis

\* One event is in the log when a step goes on after emitting it.
LEMMA EmittedOne ==
  ASSUME TypeInv, pc # "idle", NEW x \in EventTypes, NEW STATE label,
         EmitThen(n, <<x>>, label), pc' # "idle"
  PROVE  x \in trail'[n] /\ pc' = label
<1>1. n \in Calls /\ <<x>> \in Seq(EventTypes)
  BY EventPair DEF TypeInv, LocalsOK
<1>2. \A i \in 1..Len(<<x>>) : <<x>>[i] \in trail'[n]
  BY <1>1, EmitThenOK DEF TypeInv
<1>3. Len(<<x>>) = 1 /\ <<x>>[1] = x
  OBVIOUS
<1>4. pc' = label
  BY DEF EmitThen, AuditRaises, Return
<1>. QED  BY <1>2, <1>3, <1>4

LEMMA AuditVerifySignedGrant ==
  ASSUME TypeInv, AuditInv, TrailGrows, VerifySignedGrant
  PROVE  AuditInv'
<1>1. pc = "signed" /\ n \in Calls /\ UNCHANGED <<n, executed>>
  BY DEF VerifySignedGrant, TypeInv, LocalsOK
<1>2. pc' # "provider"
  BY DEF VerifySignedGrant, EmitThen, AuditRaises, Return
<1>3. ASSUME pc' = "execute" PROVE ShowsAuthority(basis', trail'[n])
  <2>. DEFINE both == <<"approval_verified", "approval_consumed">>
  <2>1. /\ basis'.kind = "signed"
        /\ \/ Emit(n, both)
           \/ Emit(n, <<"approval_verified">>) /\ ~basis'.one_time
    BY <1>3 DEF VerifySignedGrant, EmitThen, AuditRaises, Return, On
  <2>2. trail \in [Calls -> SUBSET EventTypes]
    BY DEF TypeInv, HistoryOK
  <2>3. CASE Emit(n, both)
    <3>1. both[1] = "approval_verified" /\ both[2] = "approval_consumed" /\ DOMAIN both = 1..2
      OBVIOUS
    <3>2. "approval_verified" \in trail'[n] /\ "approval_consumed" \in trail'[n]
      BY <1>1, <2>2, <2>3, <3>1 DEF Emit
    <3>. QED  BY <2>1, <3>2 DEF ShowsAuthority
  <2>4. CASE Emit(n, <<"approval_verified">>) /\ ~basis'.one_time
    <3>1. "approval_verified" \in trail'[n]
      BY <1>1, <2>2, <2>4 DEF Emit
    <3>. QED  BY <2>1, <2>4, <3>1 DEF ShowsAuthority
  <2>. QED  BY <2>1, <2>3, <2>4
<1>. QED
  BY <1>1, <1>2, <1>3, AuditFrame

LEMMA AuditOneEvent ==
  ASSUME TypeInv, AuditInv, TrailGrows,
         \/ UseStoredGrant \/ RequestClearance
         \/ \E a \in Answers : ClearanceAnswered(a)
         \/ StartExecution
  PROVE  AuditInv'
<1>1. pc # "idle" /\ UNCHANGED <<n, executed>>
  BY DEF UseStoredGrant, RequestClearance, ClearanceAnswered, StartExecution
<1>. USE EmittedOne, AuditFrame DEF EventTypes
<1>2. CASE UseStoredGrant
  <2>1. EmitThen(n, <<"approval_consumed">>, "execute") /\ basis'.kind = "grant"
    BY <1>2 DEF UseStoredGrant, On
  <2>2. pc' # "idle" => "approval_consumed" \in trail'[n] /\ pc' = "execute"
    BY <1>1, <2>1
  <2>. QED  BY <1>1, <2>1, <2>2 DEF ShowsAuthority
<1>3. CASE RequestClearance
  <2>1. pc' \in {"idle", "waiting"}
    BY <1>3 DEF RequestClearance, EmitThen, AuditRaises, Return
  <2>. QED  BY <1>1, <2>1
<1>4. ASSUME NEW a \in Answers, ClearanceAnswered(a) PROVE AuditInv'
  <2>1. \/ pc' = "idle"
        \/ EmitThen(n, <<"approval_verified">>, "execute") /\ basis'.kind = "clearance"
    BY <1>4 DEF ClearanceAnswered, EmitAndReturn, AuditRaises, Return, On
  <2>2. pc' # "idle" => "approval_verified" \in trail'[n] /\ pc' = "execute"
    BY <1>1, <2>1
  <2>. QED  BY <1>1, <2>1, <2>2 DEF ShowsAuthority
<1>5. CASE StartExecution
  <2>1. pc = "execute" /\ basis' = basis /\ EmitThen(n, <<"provider_execution_started">>, "provider")
    BY <1>5 DEF StartExecution
  <2>2. pc' # "idle" => "provider_execution_started" \in trail'[n] /\ pc' = "provider"
    BY <1>1, <2>1
  <2>. QED  BY <1>1, <2>1, <2>2
<1>. QED  BY <1>2, <1>3, <1>4, <1>5

LEMMA AuditInvokeProvider ==
  ASSUME TypeInv, AuditInv, TrailGrows, InvokeProvider
  PROVE  AuditInv'
<1>1. /\ pc = "provider" /\ pc' \in {"completed", "failed", "idle"}
      /\ n \in Calls /\ n \in 1..n /\ UNCHANGED <<n, trail, basis>>
      /\ \A e \in executed' : e \in executed \/ (e.call = n /\ e.basis = basis)
  BY DEF InvokeProvider, heap, Return, TypeInv, LocalsOK, Calls
<1>2. RunsAreLogged'
  BY <1>1 DEF AuditInv, RunsAreLogged
<1>. QED
  BY <1>1, <1>2 DEF AuditInv

LEMMA AuditOther ==
  ASSUME TypeInv, AuditInv, TrailGrows,
         \/ Refuse \/ AskOperator \/ FinishExecution
         \/ \E a \in asked, op \in Operators, scope \in {"one_time", "session"} :
              GrantFromResponse(a, op, scope)
         \/ \E p \in Providers : NewControlPlane(p)
         \/ Restart \/ Tick
  PROVE  AuditInv'
<1>1. UNCHANGED <<n, executed>>
  BY DEF Refuse, AskOperator, FinishExecution, GrantFromResponse, NewControlPlane, Restart, Tick
<1>2. pc' = "idle" \/ (pc' = pc /\ basis' = basis)
  BY DEF Refuse, AskOperator, FinishExecution, GrantFromResponse, NewControlPlane, Restart, Tick,
         EmitAndReturn, AuditRaises, Return
<1>. QED  BY <1>1, <1>2, AuditFrame

THEOREM AuditInductive == TypeInv /\ AuditInv /\ [Next]_vars => AuditInv'
<1>. SUFFICES ASSUME TypeInv, AuditInv, [Next]_vars PROVE AuditInv'
  OBVIOUS
<1>1. TrailGrows
  BY StepGrowsTrail
<1>2. CASE UNCHANGED vars
  BY <1>1, <1>2, AuditFrame DEF vars
<1>3. CASE Next
  BY <1>1, <1>3, AuditReceive, AuditVerifySignedGrant, AuditOneEvent, AuditInvokeProvider,
     AuditOther DEF Next, Step
<1>. QED  BY <1>2, <1>3

\* Nothing is done to a machine whose decision, authority and start are not in
\* the audit log, whichever emit raised on the way.
THEOREM AuditBeforeEffectHolds == Spec => []AuditBeforeEffect
<1>1. AuditInv => AuditBeforeEffect
  BY DEF AuditInv, RunsAreLogged, ShowsAuthority, AuditBeforeEffect, Started
<1>. QED
  BY <1>1, AuditInit, AuditInductive, TypeInvInvariant, PTL DEF Spec

-----------------------------------------------------------------------------
(***************************************************************************)
(* The result tells what was done.                                         *)
(***************************************************************************)
Ran(c) == \E e \in executed : e.call = c
Refusals == {"denied", "approval_required", "clearance_required"}

\* Between calls, and in one, what the next step may still say of the call.
CallState ==
  /\ pc # "idle" => result[n] = "none"
  /\ pc \in {"completed", "failed"} => Ran(n)
  /\ pc \notin {"idle", "completed", "failed"} => ~Ran(n)

ResultInv ==
  /\ \A e \in executed : e.call \in 1..n
  /\ \A e, f \in executed : e.call = f.call => e = f
  /\ \A c \in Calls :
       /\ result[c] \in {"completed", "failed"} \/ Ended \cap trail[c] # {} => Ran(c)
       /\ result[c] \in Refusals => ~Ran(c)
       /\ c > n => result[c] = "none"
  /\ CallState

LEMMA ResultInit == Init => ResultInv
BY DEF Init, ResultInv, CallState, Ran, Refusals

\* A step that does not tell how an execution ended.
Quiet == \A c \in Calls : Ended \cap trail'[c] \subseteq trail[c]

LEMMA EmitQuiet ==
  ASSUME HistoryOK, NEW STATE c, NEW STATE es, es \in Seq(EventTypes \ Ended),
         NEW STATE label, NEW STATE status,
         \/ Emit(c, es) \/ AuditRaises(c, es)
         \/ EmitThen(c, es, label) \/ EmitAndReturn(c, es, status)
  PROVE  Quiet
<1>1. ASSUME NEW STATE s, s \in Seq(EventTypes \ Ended), Emit(c, s) PROVE Quiet
  BY <1>1 DEF Emit, HistoryOK, Quiet
<1>2. \A k \in 0..Len(es) : SubSeq(es, 1, k) \in Seq(EventTypes \ Ended)
  OBVIOUS
<1>3. CASE AuditRaises(c, es)
  <2>1. PICK k \in 0..Len(es) : Emit(c, SubSeq(es, 1, k))
    BY <1>3 DEF AuditRaises
  <2>. QED  BY <1>1, <1>2, <2>1
<1>. QED
  BY <1>1, <1>3 DEF EmitThen, EmitAndReturn

LEMMA QuietEvents ==
  /\ \A x \in EventTypes \ Ended : <<x>> \in Seq(EventTypes \ Ended)
  /\ \A x, y \in EventTypes \ Ended : <<x, y>> \in Seq(EventTypes \ Ended)
  /\ \A x, y, z \in EventTypes \ Ended : <<x, y, z>> \in Seq(EventTypes \ Ended)
OBVIOUS

\* A step of a call that has not reached its provider goes on or comes back
\* with anything but completed or failed.
LEMMA ResultFrame ==
  ASSUME TypeInv, ResultInv, Quiet, UNCHANGED <<n, executed>>,
         pc \notin {"idle", "completed", "failed"},
         \/ pc' \notin {"idle", "completed", "failed"} /\ UNCHANGED result
         \/ /\ pc' = "idle"
            /\ \E s \in Results \ {"completed", "failed"} : result' = [result EXCEPT ![n] = s]
  PROVE  ResultInv'
<1>1. n \in Calls /\ result \in [Calls -> Results] /\ ~Ran(n)
  BY DEF TypeInv, LocalsOK, HistoryOK, ResultInv, CallState
<1>2. \A c \in Calls : Ran(c)' <=> Ran(c)
  BY DEF Ran
<1>3. ASSUME NEW c \in Calls
      PROVE  /\ result'[c] \in {"completed", "failed"} \/ Ended \cap trail'[c] # {} => Ran(c)
             /\ result'[c] \in Refusals => ~Ran(c)
             /\ c > n => result'[c] = "none"
  <2>1. Ended \cap trail'[c] # {} => Ended \cap trail[c] # {}
    BY DEF Quiet
  <2>2. result'[c] = result[c] \/ (c = n /\ result'[c] \notin {"completed", "failed"})
    BY <1>1
  <2>3. c > n => c # n
    BY <1>1 DEF Calls
  <2>. QED  BY <1>1, <2>1, <2>2, <2>3 DEF ResultInv
<1>4. CallState'
  BY <1>1, <1>2 DEF CallState, ResultInv
<1>. QED
  BY <1>2, <1>3, <1>4 DEF ResultInv

LEMMA ResultReceive ==
  ASSUME TypeInv, ResultInv, NEW r \in Requests, Receive(r)
  PROVE  ResultInv'
<1>. DEFINE es == <<"request_received",
         IF r.cap \in KnownCaps THEN "capability_resolved" ELSE "capability_unknown_denied",
         "policy_decision">>
<1>1. /\ n \in Nat /\ n + 1 \in Calls /\ n' = n + 1 /\ UNCHANGED executed
      /\ EmitThen(n + 1, es, Route(r)) /\ result \in [Calls -> Results]
  BY BoundsAssumption DEF TypeInv, LocalsOK, HistoryOK, Receive, Calls
<1>2. Quiet
  <2>1. es \in Seq(EventTypes \ Ended)
    BY QuietEvents DEF EventTypes, Ended
  <2>. QED  BY <1>1, <2>1, EmitQuiet DEF TypeInv
<1>3. ~Ran(n + 1) /\ \A c \in Calls : Ran(c)' <=> Ran(c)
  BY <1>1 DEF Ran, ResultInv
<1>4. \/ pc' \in {"refuse", "execute", "clearance", "signed"} /\ UNCHANGED result
      \/ pc' = "idle" /\ result' = [result EXCEPT ![n + 1] = "raised"]
  BY <1>1, RouteLabels DEF EmitThen, AuditRaises, Return
<1>5. ASSUME NEW c \in Calls
      PROVE  /\ result'[c] \in {"completed", "failed"} \/ Ended \cap trail'[c] # {} => Ran(c)
             /\ result'[c] \in Refusals => ~Ran(c)
             /\ c > n + 1 => result'[c] = "none"
  <2>1. Ended \cap trail'[c] # {} => Ended \cap trail[c] # {}
    BY <1>2 DEF Quiet
  <2>2. result'[c] = result[c] \/ (c = n + 1 /\ result'[c] = "raised")
    BY <1>1, <1>4
  <2>3. c > n + 1 => c > n /\ c # n + 1
    BY <1>1 DEF Calls
  <2>. QED  BY <2>1, <2>2, <2>3 DEF ResultInv, Refusals
<1>6. CallState'
  <2>1. result[n + 1] = "none"
    <3>1. n + 1 > n
      BY <1>1
    <3>. QED  BY <1>1, <3>1 DEF ResultInv
  <2>. QED  BY <1>1, <1>3, <1>4, <2>1 DEF CallState, ResultInv
<1>. QED
  BY <1>1, <1>3, <1>5, <1>6 DEF ResultInv

LEMMA ResultBeforeProvider ==
  ASSUME TypeInv, ResultInv,
         \/ Refuse \/ VerifySignedGrant \/ UseStoredGrant \/ AskOperator
         \/ RequestClearance \/ \E a \in Answers : ClearanceAnswered(a)
         \/ StartExecution
  PROVE  ResultInv'
<1>1. UNCHANGED <<n, executed>> /\ pc \notin {"idle", "completed", "failed"}
  BY DEF Refuse, VerifySignedGrant, UseStoredGrant, AskOperator, RequestClearance,
         ClearanceAnswered, StartExecution
<1>2. \/ pc' \notin {"idle", "completed", "failed"} /\ UNCHANGED result
      \/ /\ pc' = "idle"
         /\ \E s \in Results \ {"completed", "failed"} : result' = [result EXCEPT ![n] = s]
  BY DEF Refuse, VerifySignedGrant, UseStoredGrant, AskOperator, RequestClearance,
         ClearanceAnswered, StartExecution, EmitThen, EmitAndReturn, AuditRaises, Return, Results
<1>3. Quiet
  <2>. USE EmitQuiet, QuietEvents DEF EventTypes, Ended, TypeInv
  <2>1. CASE UNCHANGED trail
    BY <2>1 DEF Quiet
  <2>2. CASE Refuse
    BY <2>2 DEF Refuse
  <2>3. CASE VerifySignedGrant
    BY <2>1, <2>3 DEF VerifySignedGrant
  <2>4. CASE UseStoredGrant
    BY <2>4 DEF UseStoredGrant
  <2>5. CASE AskOperator
    BY <2>5 DEF AskOperator
  <2>6. CASE RequestClearance \/ StartExecution
    BY <2>6 DEF RequestClearance, StartExecution
  <2>7. ASSUME NEW a \in Answers, ClearanceAnswered(a) PROVE Quiet
    BY <2>7 DEF ClearanceAnswered
  <2>. QED  BY <2>2, <2>3, <2>4, <2>5, <2>6, <2>7
<1>. QED  BY <1>1, <1>2, <1>3, ResultFrame

LEMMA ResultInvokeProvider ==
  ASSUME TypeInv, ResultInv, InvokeProvider
  PROVE  ResultInv'
<1>. DEFINE run == [nth |-> Cardinality(executed) + 1, call |-> n,
                    plane |-> plane.id, req |-> req,
                    provider |-> plane.provider, basis |-> basis]
<1>1. /\ pc = "provider" /\ n \in Calls /\ n \in 1..n /\ UNCHANGED <<n, trail>>
      /\ executed' = executed \cup {run} /\ run.call = n
      /\ result \in [Calls -> Results]
      /\ \/ pc' \in {"completed", "failed"} /\ UNCHANGED result
         \/ pc' = "idle" /\ result' = [result EXCEPT ![n] = "raised"]
  BY DEF InvokeProvider, heap, Return, TypeInv, LocalsOK, HistoryOK, Calls
<1>2. /\ ~Ran(n) /\ Ran(n)'
      /\ \A c \in Calls : Ran(c)' <=> c = n \/ Ran(c)
  BY <1>1 DEF ResultInv, CallState, Ran
<1>3. \A e, f \in executed' : e.call = f.call => e = f
  BY <1>1, <1>2 DEF ResultInv, Ran
<1>4. ASSUME NEW c \in Calls
      PROVE  /\ result'[c] \in {"completed", "failed"} \/ Ended \cap trail'[c] # {} => Ran(c)'
             /\ result'[c] \in Refusals => ~Ran(c)'
             /\ c > n => result'[c] = "none"
  <2>1. CASE c = n
    <3>1. result[n] = "none"
      BY <1>1 DEF ResultInv, CallState
    <3>2. result'[c] \in {"none", "raised"}
      BY <1>1, <2>1, <3>1
    <3>3. ~(c > n)
      BY <1>1, <2>1 DEF Calls
    <3>4. result'[c] \notin Refusals
      BY <3>2 DEF Refusals
    <3>. QED  BY <1>2, <2>1, <3>3, <3>4
  <2>2. CASE c # n
    <3>1. result'[c] = result[c] /\ trail'[c] = trail[c]
      BY <1>1, <2>2
    <3>. QED  BY <1>2, <2>2, <3>1 DEF ResultInv
  <2>. QED  BY <2>1, <2>2
<1>5. CallState'
  BY <1>1, <1>2 DEF CallState, ResultInv
<1>. QED
  BY <1>1, <1>3, <1>4, <1>5 DEF ResultInv

\* After its provider a call comes back with how it ended, or raises.
LEMMA ResultFinishExecution ==
  ASSUME TypeInv, ResultInv, FinishExecution
  PROVE  ResultInv'
<1>1. /\ pc \in {"completed", "failed"} /\ pc' = "idle" /\ n \in Calls
      /\ UNCHANGED <<n, executed>> /\ trail \in [Calls -> SUBSET EventTypes]
      /\ \E s \in {"completed", "failed", "raised"} : result' = [result EXCEPT ![n] = s]
      /\ \A c \in Calls : c # n => trail'[c] = trail[c]
      /\ result \in [Calls -> Results]
  BY DEF FinishExecution, EmitAndReturn, AuditRaises, Return, Emit, TypeInv, LocalsOK, HistoryOK
<1>2. Ran(n) /\ \A c \in Calls : Ran(c)' <=> Ran(c)
  BY <1>1 DEF ResultInv, CallState, Ran
<1>3. ASSUME NEW c \in Calls
      PROVE  /\ result'[c] \in {"completed", "failed"} \/ Ended \cap trail'[c] # {} => Ran(c)
             /\ result'[c] \in Refusals => ~Ran(c)
             /\ c > n => result'[c] = "none"
  <2>1. CASE c = n
    <3>1. result'[c] \notin Refusals /\ ~(c > n)
      BY <1>1, <2>1 DEF Refusals, Calls
    <3>. QED  BY <1>2, <2>1, <3>1
  <2>2. CASE c # n
    <3>1. result'[c] = result[c] /\ trail'[c] = trail[c]
      BY <1>1, <2>2
    <3>. QED  BY <3>1 DEF ResultInv
  <2>. QED  BY <2>1, <2>2
<1>. QED
  BY <1>1, <1>2, <1>3 DEF ResultInv, CallState

LEMMA ResultAround ==
  ASSUME TypeInv, ResultInv,
         \/ \E a \in asked, op \in Operators, scope \in {"one_time", "session"} :
              GrantFromResponse(a, op, scope)
         \/ \E p \in Providers : NewControlPlane(p)
         \/ Restart \/ Tick
  PROVE  ResultInv'
<1>1. /\ UNCHANGED <<n, executed, trail>> /\ result \in [Calls -> Results]
      /\ pc # "idle" => n \in Calls
      /\ \/ UNCHANGED <<pc, result>>
         \/ pc # "idle" /\ pc' = "idle" /\ result' = [result EXCEPT ![n] = "lost"]
  BY DEF GrantFromResponse, NewControlPlane, Restart, Tick, Return, TypeInv, LocalsOK, HistoryOK
<1>2. \A c \in Calls : Ran(c)' <=> Ran(c)
  BY <1>1 DEF Ran
<1>3. ASSUME NEW c \in Calls
      PROVE  /\ result'[c] \in {"completed", "failed"} \/ Ended \cap trail'[c] # {} => Ran(c)
             /\ result'[c] \in Refusals => ~Ran(c)
             /\ c > n => result'[c] = "none"
  <2>1. result'[c] = result[c] \/ (c = n /\ n \in Calls /\ result'[c] = "lost")
    BY <1>1
  <2>2. n \in Calls => ~(n > n)
    BY DEF Calls
  <2>. QED  BY <1>1, <2>1, <2>2 DEF ResultInv, Refusals
<1>4. CallState'
  BY <1>1 DEF ResultInv, CallState, Ran
<1>. QED
  BY <1>1, <1>2, <1>3, <1>4 DEF ResultInv

THEOREM ResultInductive == TypeInv /\ ResultInv /\ [Next]_vars => ResultInv'
<1>. SUFFICES ASSUME TypeInv, ResultInv, [Next]_vars PROVE ResultInv'
  OBVIOUS
<1>1. CASE UNCHANGED vars
  BY <1>1 DEF vars, ResultInv, CallState, Ran
<1>2. CASE Next
  BY <1>2, ResultReceive, ResultBeforeProvider, ResultInvokeProvider, ResultFinishExecution,
     ResultAround DEF Next, Step
<1>. QED  BY <1>1, <1>2

\* The status a caller gets, and the log, tell whether a provider was invoked,
\* and no call invokes two.
THEOREM ResultMatchesEffectHolds == Spec => []ResultMatchesEffect
<1>1. ResultInv => ResultMatchesEffect
  BY DEF ResultInv, ResultMatchesEffect, Ran, Ended, Refusals
<1>. QED
  BY <1>1, ResultInit, ResultInductive, TypeInvInvariant, PTL DEF Spec
=============================================================================
