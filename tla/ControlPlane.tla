---------------------------- MODULE ControlPlane ----------------------------
(***************************************************************************)
(* ControlPlane.handle (control_plane/engine.py), the only path from a     *)
(* capability request to a provider, together with the ApprovalStore       *)
(* (control_plane/approvals.py) it takes operator grants from, the signed  *)
(* grant verifier (approval_broker.py) and the clearance verifier          *)
(* (act_client.py).                                                        *)
(*                                                                         *)
(* The code is single threaded: one call of handle is in flight at a time. *)
(* What happens between its steps is that time passes, that an audit sink  *)
(* or a provider raises (the exception leaves handle), that the tower      *)
(* answers or does not, and that the process stops.  Every block between   *)
(* two such points is one action.                                          *)
(***************************************************************************)
EXTENDS Policy, Integers, Sequences, FiniteSets

CONSTANTS
  Requests,            \* the CapabilityRequests callers may present
  SignedGrants,        \* the signed grants they may carry, NoGrant excepted
  NoGrant,             \* request.signed_approval_grant is None
  NoId,                \* request.approval_request_id is None; also "no operator"
  Providers,           \* provider ids a ControlPlane may be built around
  RealHardware,        \* those whose provider.is_real_hardware is true
  Operators,           \* operators who answer approval requests
  TrustedSigners,      \* signer keys the grant verifier holds
  Tower,               \* tower_id the clearance verifier expects
  Pol,                 \* the runtime's policy
  AuthChannel,         \* "mobile_signed" or "local_terminal"
  ClearanceClient,     \* a clearance client is wired
  ClearanceVerifier,   \* a clearance verifier is wired
  GrantVerifier,       \* an approval grant verifier is wired
  ActParity,           \* act_parity_fingerprint: fingerprint what the tower sees
  ApprovalTtl,         \* build_approval_request's ttl, in clock units
  MaxCalls, MaxPlanes, MaxGrants, MaxClock   \* bounds of the model

\* A request names capability, session, target, parameters, credential; the
\* caller may attach an approval request id and a signed grant.
ASSUME RequestsAssumption ==
  /\ Requests # {}
  /\ \A r \in Requests : r.signed \in SignedGrants \cup {NoGrant}
  /\ NoGrant \notin SignedGrants
  /\ \A g \in SignedGrants : g.one_time \in BOOLEAN
\* Expiry is always a time; only a clearance may come without one.
ASSUME ExpiryAssumption ==
  NoId \notin Nat /\ \A g \in SignedGrants : g.expires \in Nat
ASSUME BoundsAssumption ==
  /\ {ApprovalTtl, MaxPlanes} \subseteq Nat \ {0}
  /\ {MaxCalls, MaxGrants, MaxClock} \subseteq Nat
ASSUME WiringAssumption ==
  /\ {ClearanceClient, ClearanceVerifier, GrantVerifier, ActParity} \subseteq BOOLEAN
  /\ AuthChannel \in {"mobile_signed", "local_terminal"}
  /\ Providers # {}

VARIABLES
  clock,      \* now_factory()
  n,          \* calls of handle so far; the number of the current call
  pc,         \* where the current call is, "idle" between calls
  req,        \* the request of the current call
  now,        \* the local `now` of _handle_act_clearance
  basis,      \* what authorises the current call once it may execute
  plane,      \* the ControlPlane object in use: [id, provider]
  signedUsed, \* its _consumed_signed_grant_ids
  store,      \* ApprovalStore._action_grants
  consumed,   \* ApprovalStore._consumed_response_ids
  asked,      \* approval requests handed back to callers of this process
  \* History, read by the properties only.
  approvals,  \* every approval an operator gave, every clearance accepted
  trail,      \* per call, the audit events emitted for it
  executed,   \* provider invocations
  result      \* per call, what the caller got

heap == <<plane, signedUsed, store, consumed, asked, approvals>>
vars == <<clock, n, pc, req, now, basis, heap, trail, executed, result>>

Calls == 1..MaxCalls

-----------------------------------------------------------------------------
(***************************************************************************)
(* Grants.                                                                 *)
(***************************************************************************)
\* The exact action a grant or a clearance is bound to.
Binding(r, provider) ==
  [cap |-> r.cap, session |-> r.session, target |-> r.target,
   provider |-> provider, params |-> r.params]

Matches_AnyParameters(g, b, t) ==
  /\ <<b.cap, b.session, b.target, b.provider>> = <<g.cap, g.session, g.target, g.provider>>
  /\ t < g.expires

\* ApprovalGrant.matches
Matches(g, b, t) ==
  /\ b.cap = g.cap
  /\ b.session = g.session
  /\ b.target = g.target
  /\ b.provider = g.provider
  /\ b.params = g.params
  /\ t < g.expires

Reusable(g) == g.scope = "session"

Usable_Respent(g, b, t) == Matches(g, b, t)

\* The loop body of ApprovalStore.find_action_grant.
Usable(g, b, t) ==
  /\ Reusable(g) \/ g.response \notin consumed
  /\ Matches(g, b, t)

\* ApprovalGrantVerifier.verify for a grant that is present.
VerifiesSigned(g, r, b, t) ==
  /\ g.signer \in TrustedSigners
  /\ g.signature_valid
  /\ g.request = r.reqid
  /\ Matches(g, b, t)
  /\ g.family = FamilyOf(b.cap)
  /\ g.cap \notin BlockedCapabilities
  /\ ~(g.one_time /\ g.consumed_at)
  /\ g.channel = "conversational" => g.family \in {"observe", "runtime"}

AcceptsSigned_NoReplayCheck(g, r, b, t) ==
  GrantVerifier /\ r.reqid # NoId /\ VerifiesSigned(g, r, b, t)

\* The checks _verify_signed_approval_grant makes on the way to a verdict.
AcceptsSigned(g, r, b, t) ==
  /\ GrantVerifier
  /\ r.reqid # NoId
  /\ g.id \notin signedUsed
  /\ VerifiesSigned(g, r, b, t)

\* The binding a clearance request carries: with act_parity the fingerprint
\* covers the redacted payload sent to the tower, which has no parameters.
ClearanceBinding(b) == IF ActParity THEN [b EXCEPT !.params = NoId] ELSE b

VerifiesClearance_AnyAction(a, id, b, t) ==
  a.tower = Tower /\ a.request = id /\ a.expires # NoId /\ t < a.expires /\ a.proof
VerifiesClearance_AnyRequest(a, id, b, t) ==
  a.tower = Tower /\ a.bind = ClearanceBinding(b) /\ a.expires # NoId /\ t < a.expires /\ a.proof

\* ACTClearanceVerifier.verify for a response whose status is cleared.  The
\* short code is a hash of the request id and the fingerprint, and the
\* correlation id comes with the caller's id: both follow the two compared.
VerifiesClearance(a, id, b, t) ==
  /\ a.tower = Tower
  /\ a.request = id
  /\ a.bind = ClearanceBinding(b)
  /\ a.expires # NoId
  /\ t < a.expires
  /\ a.proof

-----------------------------------------------------------------------------
(***************************************************************************)
(* Leaving handle.  Emitting is appending to the audit sink; a sink that   *)
(* raises has recorded some of the events, and the exception ends the call. *)
(***************************************************************************)
Emit(c, es) == trail' = [trail EXCEPT ![c] = @ \cup {es[i] : i \in DOMAIN es}]

Return(c, status) == pc' = "idle" /\ result' = [result EXCEPT ![c] = status]

AuditRaises_Stays(c, es) ==
  /\ \E k \in 0..Len(es) : Emit(c, SubSeq(es, 1, k))
  /\ pc' = "raised" /\ result' = [result EXCEPT ![c] = "raised"]
AuditRaises(c, es) ==
  /\ \E k \in 0..Len(es) : Emit(c, SubSeq(es, 1, k))
  /\ Return(c, "raised")

EmitThen_Swallows(c, es, next) ==
  /\ \E k \in 0..Len(es) : Emit(c, SubSeq(es, 1, k))
  /\ pc' = next /\ UNCHANGED result

\* Emit es, then go on at label next.
EmitThen(c, es, next) ==
  \/ Emit(c, es) /\ pc' = next /\ UNCHANGED result
  \/ AuditRaises(c, es)

\* Emit es, then return status.
EmitAndReturn(c, es, status) ==
  \/ Emit(c, es) /\ Return(c, status)
  \/ AuditRaises(c, es)

-----------------------------------------------------------------------------
Decision(r) == DecisionFor(Pol, r.cap, r.target, r.session, r.cred)

\* handle, from the policy decision to the branch it selects.
Route(r) ==
  IF \/ Decision(r) = "deny"
     \/ plane.provider \in RealHardware /\ ~Pol.real_hardware
    THEN "refuse"
  ELSE IF ~RequiresApproval(Decision(r)) THEN "execute"
  ELSE IF AuthChannel = "mobile_signed" /\ ClearanceClient THEN "clearance"
  ELSE "signed"

\* What a call stands on: at first the policy alone, then the authority it was
\* accepted with, and since when.
PolicyBasis == [kind |-> "policy", ref |-> <<NoId, NoId>>, one_time |-> FALSE,
                began |-> clock, since |-> clock]
On(kind, ref, one_time) ==
  [kind |-> kind, ref |-> ref, one_time |-> one_time, began |-> basis.began, since |-> clock]

\* A caller enters handle: the decision is taken and three events are emitted.
Receive(r) ==
  /\ pc = "idle" /\ n < MaxCalls
  /\ n' = n + 1
  /\ req' = r
  /\ basis' = PolicyBasis
  /\ EmitThen(n + 1,
       <<"request_received",
         IF r.cap \in KnownCaps THEN "capability_resolved" ELSE "capability_unknown_denied",
         "policy_decision">>,
       Route(r))
  /\ UNCHANGED <<clock, now, heap, executed>>

\* The two DENIED returns of handle.
Refuse ==
  /\ pc = "refuse"
  /\ EmitAndReturn(n, <<"result_returned">>, "denied")
  /\ UNCHANGED <<clock, n, req, now, basis, heap, executed>>

\* _verify_signed_approval_grant.  A one-time grant is spent between the
\* two events, so an exception from the second finds it spent.
VerifySignedGrant ==
  /\ pc = "signed"
  /\ LET g == req.signed
         accepted == /\ g # NoGrant
                     /\ AcceptsSigned(g, req, Binding(req, plane.provider), clock)
     IN
     \/ /\ g = NoGrant
        /\ pc' = "stored"
        /\ UNCHANGED <<basis, signedUsed, trail, result>>
     \/ /\ g # NoGrant /\ ~accepted
        /\ EmitThen(n, <<"approval_rejected">>, "stored")
        /\ UNCHANGED <<basis, signedUsed>>
     \/ /\ accepted
        /\ basis' = On("signed", <<g.id, NoId>>, g.one_time)
        /\ \/ AuditRaises(n, <<"approval_verified">>) /\ UNCHANGED signedUsed
           \/ /\ g.one_time
              /\ signedUsed' = signedUsed \cup {g.id}
              /\ \/ Emit(n, <<"approval_verified", "approval_consumed">>)
                    /\ pc' = "execute" /\ UNCHANGED result
                 \/ /\ Emit(n, <<"approval_verified">>) \/ Emit(n, <<"approval_verified", "approval_consumed">>)
                    /\ Return(n, "raised")
           \/ /\ ~g.one_time
              /\ Emit(n, <<"approval_verified">>)
              /\ pc' = "execute" /\ UNCHANGED <<signedUsed, result>>
  /\ UNCHANGED <<clock, n, req, now, plane, store, consumed, asked, approvals, executed>>

\* _matching_approval_grant finds the first usable grant; handle consumes it
\* before it says so in the audit log.
UseStoredGrant ==
  /\ pc = "stored"
  /\ \E i \in DOMAIN store :
       LET b == Binding(req, plane.provider)
           g == store[i]
       IN
       /\ Usable(g, b, clock)
       /\ \A j \in 1..(i - 1) : ~Usable(store[j], b, clock)
       /\ consumed' = IF Reusable(g) THEN consumed ELSE consumed \cup {g.response}
       /\ basis' = On("grant", g.response, ~Reusable(g))
       /\ EmitThen(n, <<"approval_consumed">>, "execute")
  /\ UNCHANGED <<clock, n, req, now, plane, signedUsed, store, asked, approvals, executed>>

\* No grant: build_approval_request, and hand the request back.
AskOperator ==
  /\ pc = "stored"
  /\ LET b == Binding(req, plane.provider)
         es == <<"approval_requested", "result_returned">>
     IN
     /\ \A i \in DOMAIN store : ~Usable(store[i], b, clock)
     /\ \/ /\ Emit(n, es) /\ Return(n, "approval_required")
           /\ asked' = asked \cup {[id |-> n, req |-> req, bind |-> b,
                                   expires |-> clock + ApprovalTtl]}
        \/ AuditRaises(n, es) /\ UNCHANGED asked
  /\ UNCHANGED <<clock, n, req, now, basis, plane, signedUsed, store, consumed,
                 approvals, executed>>

-----------------------------------------------------------------------------
(***************************************************************************)
(* The ACT branch, _handle_act_clearance.                                  *)
(***************************************************************************)
\* The id of the clearance request: the caller's, or a fresh one.
ClearanceId == IF req.reqid = NoId THEN n ELSE req.reqid

RequestClearance ==
  /\ pc = "clearance"
  /\ now' = clock
  /\ EmitThen(n, <<"approval_requested">>, "waiting")
  /\ UNCHANGED <<clock, n, req, basis, heap, executed>>

Answers_NoTimeout == {}

\* What the tower, or the client on its behalf, may answer: no clearance, or
\* one for this request or another, of any expiry, proven or not.
Answers ==
  [status : {"denied", "clearance_required", "expired", "tower_unavailable"}]
  \cup
  [status : {"cleared"},
   tower : {Tower, NoId},
   request : 1..n \cup {r.reqid : r \in Requests},
   bind : {ClearanceBinding(Binding(r, plane.provider)) : r \in Requests},
   expires : (1..MaxClock) \cup {NoId},
   proof : BOOLEAN]

\* A clearance the tower did give.
Given(a) == a.status = "cleared" /\ a.tower = Tower /\ a.proof
Clearance(a) == [kind |-> "clearance", ref |-> <<a.request, NoId>>,
                 bind |-> a.bind, expires |-> a.expires]

\* client.request_clearance returns answer a.  The verifier is given the
\* `now` read before the client was called.
ClearanceAnswered(a) ==
  /\ pc = "waiting"
  /\ LET b == Binding(req, plane.provider)
         valid == ClearanceVerifier /\ VerifiesClearance(a, ClearanceId, b, now)
     IN
     \/ /\ a.status = "cleared" /\ valid
        /\ basis' = On("clearance", <<a.request, NoId>>, FALSE)
        /\ approvals' = IF Given(a) THEN approvals \cup {Clearance(a)} ELSE approvals
        /\ EmitThen(n, <<"approval_verified">>, "execute")
     \/ /\ \/ a.status = "cleared" /\ ~valid
           \/ a.status = "denied"
        /\ UNCHANGED <<basis, approvals>>
        /\ EmitAndReturn(n, <<"approval_rejected", "result_returned">>, "denied")
     \/ /\ a.status \notin {"cleared", "denied"}
        /\ UNCHANGED <<basis, approvals>>
        /\ EmitAndReturn(n, <<"result_returned">>, "clearance_required")
  /\ UNCHANGED <<clock, n, req, now, plane, signedUsed, store, consumed, asked, executed>>

-----------------------------------------------------------------------------
(***************************************************************************)
(* _execute_provider.                                                      *)
(***************************************************************************)
StartExecution ==
  /\ pc = "execute"
  /\ EmitThen(n, <<"provider_execution_started">>, "provider")
  /\ UNCHANGED <<clock, n, req, now, basis, heap, executed>>

\* provider.execute_authorized returns a good or a bad result, or raises.
InvokeProvider ==
  /\ pc = "provider"
  /\ executed' = executed \cup
       {[nth |-> Cardinality(executed) + 1, call |-> n, plane |-> plane.id, req |-> req,
         provider |-> plane.provider, basis |-> basis]}
  /\ \/ pc' \in {"completed", "failed"} /\ UNCHANGED result
     \/ Return(n, "raised")
  /\ UNCHANGED <<clock, n, req, now, basis, heap, trail>>

FinishExecution_TriesAgain ==
  \/ /\ pc = "failed" /\ pc' = "provider"
     /\ UNCHANGED <<clock, n, req, now, basis, heap, executed, trail, result>>
  \/ /\ pc = "completed"
     /\ EmitAndReturn(n, <<"provider_execution_completed", "result_returned">>, pc)
     /\ UNCHANGED <<clock, n, req, now, basis, heap, executed>>
FinishExecution_FailedIsDenied ==
  /\ pc \in {"completed", "failed"}
  /\ EmitAndReturn(n, <<"result_returned">>, IF pc = "failed" THEN "denied" ELSE pc)
  /\ UNCHANGED <<clock, n, req, now, basis, heap, executed>>
FinishExecution ==
  /\ pc \in {"completed", "failed"}
  /\ EmitAndReturn(n,
       <<IF pc = "completed" THEN "provider_execution_completed"
                             ELSE "provider_execution_failed",
         "result_returned">>,
       pc)
  /\ UNCHANGED <<clock, n, req, now, basis, heap, executed>>

-----------------------------------------------------------------------------
(***************************************************************************)
(* Around handle.                                                          *)
(***************************************************************************)
\* ApprovalStore.add_action_grant of the ApprovalGrant operator op gives to
\* request a.  A response is identified by the request and the operator.
AddActionGrant(a, op, scope) ==
  /\ store' = Append(store,
       [response |-> <<a.id, op>>, cap |-> a.bind.cap, session |-> a.bind.session,
        target |-> a.bind.target, provider |-> a.bind.provider,
        params |-> a.bind.params, expires |-> a.expires, scope |-> scope])
  /\ approvals' = approvals \cup
       {[kind |-> "grant", ref |-> <<a.id, op>>, bind |-> a.bind, expires |-> a.expires]}

GrantFromResponse_AnyCapability(a, op, scope) ==
  /\ pc = "idle" /\ Len(store) < MaxGrants
  /\ AddActionGrant(a, op, scope)
  /\ UNCHANGED <<clock, n, pc, req, now, basis, plane, signedUsed, consumed, asked,
                 trail, executed, result>>

\* ApprovalStore.grant_from_response for a granted response to a request that
\* was handed back.  ApprovalGrant refuses a blocked capability.
GrantFromResponse(a, op, scope) ==
  /\ pc = "idle" /\ Len(store) < MaxGrants
  /\ a.bind.cap \notin BlockedCapabilities
  /\ AddActionGrant(a, op, scope)
  /\ UNCHANGED <<clock, n, pc, req, now, basis, plane, signedUsed, consumed, asked,
                 trail, executed, result>>

\* MCPRouter builds a ControlPlane around the resolved provider for every
\* request; the approval store is the runtime's and stays.
NewControlPlane(p) ==
  /\ pc = "idle" /\ plane.id < MaxPlanes
  /\ plane' = [id |-> plane.id + 1, provider |-> p]
  /\ signedUsed' = {}
  /\ UNCHANGED <<clock, n, pc, req, now, basis, store, consumed, asked, approvals,
                 trail, executed, result>>

\* The process stops, wherever it is, and starts again: only the audit log
\* and what was done to the machines survive.
Restart ==
  /\ plane.id < MaxPlanes
  /\ plane' = [plane EXCEPT !.id = @ + 1]
  /\ signedUsed' = {}
  /\ store' = <<>> /\ consumed' = {} /\ asked' = {}
  /\ IF pc = "idle" THEN UNCHANGED <<pc, result>> ELSE Return(n, "lost")
  /\ UNCHANGED <<clock, n, req, now, basis, approvals, trail, executed>>

\* Time passes, also while the tower is waited for: the client's timeout is one
\* of each read from the socket and bounds no exchange as a whole.
Tick ==
  /\ clock < MaxClock
  /\ clock' = clock + 1
  /\ UNCHANGED <<n, pc, req, now, basis, heap, trail, executed, result>>

-----------------------------------------------------------------------------
Init ==
  /\ clock = 0 /\ n = 0 /\ pc = "idle" /\ now = 0
  /\ req = CHOOSE r \in Requests : TRUE
  /\ basis = PolicyBasis
  /\ plane \in [id : {1}, provider : Providers]
  /\ signedUsed = {} /\ store = <<>> /\ consumed = {} /\ asked = {}
  /\ approvals = {} /\ executed = {}
  /\ trail = [c \in Calls |-> {}]
  /\ result = [c \in Calls |-> "none"]

\* One step of the call in flight.
Step ==
  \/ Refuse
  \/ VerifySignedGrant \/ UseStoredGrant \/ AskOperator
  \/ RequestClearance \/ \E a \in Answers : ClearanceAnswered(a)
  \/ StartExecution \/ InvokeProvider \/ FinishExecution

Next ==
  \/ \E r \in Requests : Receive(r)
  \/ Step
  \/ \E a \in asked, op \in Operators, scope \in {"one_time", "session"} :
       GrantFromResponse(a, op, scope)
  \/ \E p \in Providers : NewControlPlane(p)
  \/ Restart
  \/ Tick

Spec == Init /\ [][Next]_vars

\* handle is sequential code whose only wait is the client's: a call that can
\* take a step takes it.  Of the tower this asks that it answers, closes or
\* falls silent for the timeout, and does not go on sending for ever.
FairSpec == Spec /\ WF_vars(Step)

-----------------------------------------------------------------------------
(***************************************************************************)
(* Properties.                                                             *)
(***************************************************************************)
Labels == {"idle", "refuse", "signed", "stored", "clearance", "waiting",
           "execute", "provider", "completed", "failed"}
Results == {"none", "denied", "approval_required", "clearance_required",
            "completed", "failed", "raised", "lost"}
Kinds == {"policy", "signed", "grant", "clearance"}
\* The AuditEventTypes handle emits.
EventTypes ==
  {"request_received", "capability_resolved", "capability_unknown_denied",
   "policy_decision", "approval_requested", "approval_verified",
   "approval_consumed", "approval_rejected", "provider_execution_started",
   "provider_execution_completed", "provider_execution_failed", "result_returned"}

\* The types of what handle keeps in locals, in the ControlPlane object and in
\* the approval store.
TypeOK ==
  /\ clock \in 0..MaxClock /\ n \in 0..MaxCalls /\ now \in 0..MaxClock
  /\ pc \in Labels /\ req \in Requests
  /\ basis.kind \in Kinds /\ basis.one_time \in BOOLEAN
  /\ {basis.began, basis.since} \subseteq 0..MaxClock
  /\ plane \in [id : 1..MaxPlanes, provider : Providers]
  /\ signedUsed \subseteq {g.id : g \in SignedGrants}
  /\ Len(store) \in 0..MaxGrants
  /\ \A c \in Calls : trail[c] \subseteq EventTypes /\ result[c] \in Results

Authorities ==
  approvals \cup
  {[kind |-> "signed", ref |-> <<g.id, NoId>>, expires |-> g.expires,
    bind |-> [cap |-> g.cap, session |-> g.session, target |-> g.target,
              provider |-> g.provider, params |-> g.params]] :
     g \in {h \in SignedGrants : h.signer \in TrustedSigners /\ h.signature_valid}}

\* What execution e did, in the terms the authority of its kind was shown.
Done(e) ==
  LET b == Binding(e.req, e.provider)
  IN IF e.basis.kind = "clearance" THEN ClearanceBinding(b) ELSE b

\* When the authority of execution e had to be in force: as it was accepted, but
\* a clearance only as the call began, for it is compared with the time read
\* before the tower was asked, engine.py:317 and 379-383.
InForceAt(e) == IF e.basis.kind = "clearance" THEN e.basis.began ELSE e.basis.since

\* Whatever reaches a provider was either allowed outright by policy, or an
\* operator, a trusted signer or the tower approved that very action, and the
\* approval had not expired when handle accepted it; a clearance, though, may
\* have done so since the call began.
Authorised ==
  \A e \in executed :
    LET d == Decision(e.req) IN
    /\ d # "deny"
    /\ RequiresApproval(d) <=> e.basis.kind # "policy"
    /\ RequiresApproval(d) =>
         \E a \in Authorities :
           /\ a.kind = e.basis.kind /\ a.ref = e.basis.ref
           /\ a.bind = Done(e)
           /\ a.expires # NoId
           /\ InForceAt(e) < a.expires

\* A one-time approval of an operator is good for one provider invocation,
\* whatever fails between consume() and the provider, whichever ControlPlane
\* object it happens in, and over restarts that forget _consumed_response_ids.
OneTimeOnce ==
  \A e, f \in executed :
    /\ e.basis.kind = "grant" /\ f.basis.kind = "grant"
    /\ e.basis.one_time /\ f.basis.one_time
    /\ e.basis.ref = f.basis.ref
    => e = f

\* A one-time signed grant is good for one provider invocation of one
\* ControlPlane object, even when the audit sink fails half way.
SignedOncePerPlane ==
  \A e, f \in executed :
    /\ e.basis.kind = "signed" /\ f.basis.kind = "signed"
    /\ e.basis.one_time /\ f.basis.one_time
    /\ e.basis.ref = f.basis.ref /\ e.plane = f.plane
    => e = f

\* A clearance asked under an id handle minted is good for the call that asked:
\* an answer replayed to a later call clears nothing, unless its caller names
\* that id itself (request.approval_request_id).
ClearanceOnce ==
  \A e, f \in executed :
    /\ e.basis.kind = "clearance" /\ f.basis.kind = "clearance"
    /\ e.req.reqid = NoId /\ f.req.reqid = NoId
    /\ e.basis.ref = f.basis.ref
    => e = f

\* Whatever a provider was made to do is preceded in the audit log by the
\* policy decision, by the event of the authority it ran on, and by
\* provider_execution_started; a sink that raises stops the call before.
AuditBeforeEffect ==
  \A e \in executed :
    /\ {"request_received", "policy_decision", "provider_execution_started"}
         \subseteq trail[e.call]
    /\ e.basis.kind = "grant" => "approval_consumed" \in trail[e.call]
    /\ e.basis.kind \in {"signed", "clearance"} => "approval_verified" \in trail[e.call]
    /\ e.basis.kind = "signed" /\ e.basis.one_time
         => "approval_consumed" \in trail[e.call]

\* The status a caller gets tells what happened: completed and failed mean one
\* provider invocation, the refusals mean none, and no call makes two.
ResultMatchesEffect ==
  /\ \A c \in Calls :
       LET done == {e \in executed : e.call = c} IN
       /\ result[c] \in {"completed", "failed"} => done # {}
       /\ result[c] \in {"denied", "approval_required", "clearance_required"} => done = {}
       /\ {"provider_execution_completed", "provider_execution_failed"} \cap trail[c] # {}
            => done # {}
  /\ \A e, f \in executed : e.call = f.call => e = f

\* No rule, approval, signature or clearance makes a hard-denied capability
\* run, a blocked one is never run on an operator's word, and a real machine
\* is touched only if the policy's scope says so.
HardInvariants ==
  \A e \in executed :
    /\ e.req.cap \notin HardDenyCapabilities
    /\ e.req.cap \in BlockedCapabilities => e.basis.kind \notin {"grant", "signed"}
    /\ e.provider \in RealHardware => Pol.real_hardware

\* What execution e is to those who give authority: which one it is, by which
\* verdict of the policy it was open, on whose word, and which single use it spends.
EffectOf(e) ==
  [call |-> e.call, nth |-> e.nth,
   verdict |-> CASE Decision(e.req) = "deny" -> "refused"
                 [] RequiresApproval(Decision(e.req)) -> "gated"
                 [] OTHER -> "allowed",
   kind |-> e.basis.kind, ref |-> e.basis.ref, does |-> Done(e),
   at |-> InForceAt(e),
   once |-> \/ e.basis.kind = "clearance" /\ e.req.reqid = NoId
            \/ e.basis.kind \in {"grant", "signed"} /\ e.basis.one_time,
   spends |-> <<e.basis.kind, e.basis.ref, IF e.basis.kind = "signed" THEN e.plane ELSE 0>>]

Owners == INSTANCE Authorization
            WITH Never <- NoId, given <- Authorities, effects <- {EffectOf(e) : e \in executed}

\* handle, with everything that fails around it, implements Authorization:
\* authorities are only added, before their use, never withdrawn or changed,
\* every effect is a step of its own that one of them covers, and none spends a
\* single use twice or follows another of its call.
ImplementsAuthorization == Owners!Spec

\* Every call of handle comes back: nothing waits for an operator, and the
\* tower's exchange ends.
CallsTerminate == pc # "idle" ~> pc = "idle"

\* docs/operator-approval.md:74-76 of ask_each_time, "The operator must approve
\* every matching request": no two executions stand on one approval.
EachTimeApproved ==
  \A e, f \in executed :
    /\ Decision(e.req) = "ask_each_time" /\ Decision(f.req) = "ask_each_time"
    /\ e.basis.kind = "grant" /\ f.basis.kind = "grant"
    /\ e.basis.ref = f.basis.ref
    => e = f

\* The verifier's "clearance expired" (act_client.py:169-175): a clearance that
\* has expired is not accepted.
NoExpiredClearance ==
  \A e \in executed :
    e.basis.kind = "clearance" =>
      \E a \in approvals : /\ a.kind = "clearance" /\ a.ref = e.basis.ref
                           /\ a.bind = Done(e) /\ a.expires # NoId
                           /\ e.basis.since < a.expires
=============================================================================
