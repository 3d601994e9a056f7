---------------------------- MODULE ApprovalHost ----------------------------
(***************************************************************************)
(* MCPHostCompatibilityLayer (mcp_sdk/host.py): a host keeps the approval  *)
(* requests its tool calls were answered with, takes operators' responses  *)
(* to them, and resumes a call on request.  It stands on ControlPlane with *)
(* the local channel, which it reaches through the SDK adapter and the MCP *)
(* router; its _pending_approvals are ControlPlane's asked.                *)
(*                                                                         *)
(* A host call and a submission are sequential code on one thread, so a    *)
(* response is handled between calls.                                      *)
(***************************************************************************)
EXTENDS ControlPlane

CONSTANT MaxAnswers  \* bound on the approval events of a run
ASSUME AnswersAssumption == MaxAnswers \in Nat

VARIABLES
  states,  \* _approval_states
  events   \* the approval events the host put in the audit log

hostVars == <<states, events>>
allVars == <<vars, hostVars>>

Statuses == {"none", "granted", "denied", "expired", "validation_error"}
Decided == {"granted", "denied", "expired"}

Event(type, a, op) == [type |-> type, id |-> a.id, op |-> op]

-----------------------------------------------------------------------------
\* call_tool
CallTool(r) == Receive(r) /\ UNCHANGED hostVars

\* The call in flight goes on; AskOperator is where a request becomes pending.
CallGoesOn == Step /\ UNCHANGED hostVars

\* The status a submission ends in: _approval_mismatch first, then expiry by
\* the response's own decided_at, then the operator's decision.
Verdict(a, decision, at, matching) ==
  CASE ~matching -> "validation_error"
    [] matching /\ (decision = "expired" \/ at >= a.expires) -> "expired"
    [] OTHER -> decision

\* The event each verdict is audited as: a mismatch is logged as a denial.
EventOf(verdict) ==
  [validation_error |-> "approval_denied", expired |-> "approval_expired",
   denied |-> "approval_denied", granted |-> "approval_granted"][verdict]

Settle_StoreFirst(a, op, verdict, scope) ==
  /\ states' = [states EXCEPT ![a.id] = verdict]
  /\ IF verdict = "granted" THEN AddActionGrant(a, op, scope) ELSE UNCHANGED <<store, approvals>>
  /\ events' \in {events, events \cup {Event(EventOf(verdict), a, op)}}

\* The event is emitted before the state and the store change; a sink that
\* raises, having recorded it or not, leaves both alone.
Settle(a, op, verdict, scope) ==
  /\ events' = events \cup {Event(EventOf(verdict), a, op)}
  /\ \/ /\ states' = [states EXCEPT ![a.id] = verdict]
        /\ IF verdict = "granted" THEN AddActionGrant(a, op, scope)
                                  ELSE UNCHANGED <<store, approvals>>
     \/ UNCHANGED <<states, store, approvals>>

\* submit_approval_response to a pending request.  An exception on the way,
\* from the sink or from the ApprovalGrant of a blocked capability, becomes a
\* validation_error result that leaves _approval_states alone.
Submit(a, op, decision, scope, at, matching) ==
  /\ pc = "idle" /\ Cardinality(events) < MaxAnswers
  /\ LET verdict == Verdict(a, decision, at, matching) IN
     /\ verdict = "granted" => a.bind.cap \notin BlockedCapabilities /\ Len(store) < MaxGrants
     /\ Settle(a, op, verdict, scope)
  /\ UNCHANGED <<clock, n, pc, req, now, basis, plane, signedUsed, consumed, asked,
                 trail, executed, result>>

\* resume_approved_tool calls the pending tool again, unless the request's
\* state is a refusal; without a matching grant the call is just asked again.
Resume(a) ==
  /\ states[a.id] \notin {"denied", "expired", "validation_error"}
  /\ Receive(a.req)
  /\ UNCHANGED hostVars

\* The host process restarts: its two dictionaries go, the audit log stays.
HostRestart ==
  /\ Restart
  /\ states' = [c \in Calls |-> "none"]
  /\ UNCHANGED events

HostTick == Tick /\ UNCHANGED hostVars

-----------------------------------------------------------------------------
HostInit == Init /\ states = [c \in Calls |-> "none"] /\ events = {}

HostNext ==
  \/ \E r \in Requests : CallTool(r)
  \/ CallGoesOn
  \/ \E a \in asked, op \in Operators, decision \in Decided,
        scope \in {"one_time", "session"}, at \in 0..clock, matching \in BOOLEAN :
       Submit(a, op, decision, scope, at, matching)
  \/ \E a \in asked : Resume(a)
  \/ HostRestart
  \/ HostTick

HostSpec == HostInit /\ [][HostNext]_allVars

-----------------------------------------------------------------------------
(***************************************************************************)
(* Properties.                                                             *)
(***************************************************************************)
\* Approval grants are stored only after the approval-granted event is in the
\* audit log, docs/operator-approval.md:165-168; so whatever runs on a grant
\* runs on an operator's answer that is in the log.
RunsOnLoggedAnswer ==
  LET granted == {<<v.id, v.op>> : v \in {w \in events : w.type = "approval_granted"}} IN
  /\ \A i \in DOMAIN store : store[i].response \in granted
  /\ \A e \in executed : e.basis.kind = "grant" => e.basis.ref \in granted

\* specs/006-mcp-sdk-adapter/contracts/host-approval-lifecycle.md:69, "denied
\* approval fails closed": nothing runs on a request whose last answer is a denial.
DeniedFailsClosed ==
  [][\A e \in executed' \ executed :
       e.basis.kind = "grant" => states[e.basis.ref[1]] # "denied"]_allVars
=============================================================================
