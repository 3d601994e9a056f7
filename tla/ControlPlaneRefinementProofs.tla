------------------- MODULE ControlPlaneRefinementProofs -------------------
(***************************************************************************)
(* ControlPlane implements Authorization, for every value of its           *)
(* constants.                                                              *)
(*                                                                         *)
(* Only InvokeProvider has an effect, and what it adds is covered and      *)
(* unspent because the invariants that say so of what was executed hold    *)
(* after the step too.  Two of them are proved here: a signed grant is     *)
(* spent once per ControlPlane object, a clearance asked under an id       *)
(* handle minted is good for its own call.                                 *)
(***************************************************************************)
EXTENDS ApprovalHost, ControlPlaneEffectProofs

SignedRuns == {e \in executed : e.basis.kind = "signed" /\ e.basis.one_time}

\* The verifier has spent the signed grant that ref names.
Spent(ref) == \E id \in signedUsed : ref = <<id, NoId>>

\* The call in flight is about to run on a one-time signed grant.
OnSigned == Runnable /\ basis.kind = "signed" /\ basis.one_time

SignedNow ==
  OnSigned =>
    /\ Spent(basis.ref)
    /\ \A e \in SignedRuns : e.plane = plane.id => e.basis.ref # basis.ref

\* _consumed_signed_grant_ids is of this ControlPlane object: runs of earlier
\* ones bear a smaller number.
SignedBefore ==
  \A e \in SignedRuns :
    /\ e.plane \in 1..plane.id
    /\ e.plane = plane.id => Spent(e.basis.ref)

SignedInv == SignedNow /\ SignedBefore /\ SignedOncePerPlane

-----------------------------------------------------------------------------
LEMMA SignedInit == Init => SignedInv
BY DEF Init, SignedInv, SignedNow, SignedBefore, SignedOncePerPlane, SignedRuns,
       OnSigned, Runnable

\* A step that neither spends a signed grant nor runs anything keeps the
\* invariant, unless it puts a one-time signed grant before the provider.
LEMMA SignedFrame ==
  ASSUME SignedInv, UNCHANGED <<plane, signedUsed, executed>>,
         OnSigned' => OnSigned /\ basis' = basis
  PROVE  SignedInv'
BY DEF SignedInv, SignedNow, SignedBefore, SignedOncePerPlane, SignedRuns, Spent

\* The verdict asks that the id is not spent, and spends it before the call
\* goes on.
LEMMA SignedVerify ==
  ASSUME TypeInv, SignedInv, VerifySignedGrant
  PROVE  SignedInv'
<1>. DEFINE g == req.signed
<1>1. pc = "signed" /\ UNCHANGED <<plane, executed>>
  BY DEF VerifySignedGrant
<1>2. signedUsed \subseteq signedUsed'
  BY DEF VerifySignedGrant
<1>3. ASSUME OnSigned'
      PROVE  /\ g.id \notin signedUsed /\ g.id \in signedUsed'
             /\ basis'.ref = <<g.id, NoId>>
  <2>1. /\ g # NoGrant /\ AcceptsSigned(g, req, Binding(req, plane.provider), clock)
        /\ basis' = On("signed", <<g.id, NoId>>, g.one_time)
        /\ g.one_time => signedUsed' = signedUsed \cup {g.id}
    BY <1>3 DEF VerifySignedGrant, OnSigned, Runnable, EmitThen, AuditRaises, Return
  <2>2. g.one_time /\ basis'.ref = <<g.id, NoId>>
    BY <1>3, <2>1 DEF OnSigned, On
  <2>. QED  BY <2>1, <2>2 DEF AcceptsSigned
<1>4. SignedNow'
  BY <1>1, <1>3 DEF SignedInv, SignedNow, SignedBefore, SignedRuns, Spent
<1>5. SignedBefore' /\ SignedOncePerPlane'
  BY <1>1, <1>2 DEF SignedInv, SignedBefore, SignedOncePerPlane, SignedRuns, Spent
<1>. QED  BY <1>4, <1>5 DEF SignedInv

LEMMA SignedInvokeProvider ==
  ASSUME TypeInv, SignedInv, InvokeProvider
  PROVE  SignedInv'
<1>. DEFINE run == [nth |-> Cardinality(executed) + 1, call |-> n,
                    plane |-> plane.id, req |-> req,
                    provider |-> plane.provider, basis |-> basis]
<1>1. /\ pc = "provider" /\ ~Runnable'
      /\ executed' = executed \cup {run}
      /\ UNCHANGED <<plane, signedUsed, basis>>
  BY DEF InvokeProvider, heap, Return, Runnable
<1>2. /\ run.plane = plane.id /\ run.basis = basis
      /\ run \in SignedRuns' => OnSigned
      /\ SignedRuns' \subseteq SignedRuns \cup {run}
  BY <1>1 DEF SignedRuns, OnSigned, Runnable
<1>3. SignedNow'
  BY <1>1 DEF SignedNow, OnSigned
<1>4. SignedBefore'
  BY <1>1, <1>2 DEF SignedInv, SignedBefore, SignedNow, Spent, TypeInv, PlaneOK
<1>5. SignedOncePerPlane'
  <2>1. ASSUME NEW e \in SignedRuns', NEW f \in SignedRuns',
               e.basis.ref = f.basis.ref, e.plane = f.plane
        PROVE  e = f
    BY <1>2, <2>1 DEF SignedInv, SignedNow, SignedOncePerPlane, SignedRuns
  <2>. QED  BY <2>1 DEF SignedOncePerPlane, SignedRuns
<1>. QED  BY <1>3, <1>4, <1>5 DEF SignedInv

\* A new ControlPlane object remembers no signed grant, and nothing has run on
\* it yet.
LEMMA SignedNewPlane ==
  ASSUME TypeInv, SignedInv, Restart \/ \E p \in Providers : NewControlPlane(p)
  PROVE  SignedInv'
<1>1. /\ pc' = "idle" /\ UNCHANGED executed
      /\ plane.id \in Nat /\ plane'.id = plane.id + 1
  BY DEF Restart, NewControlPlane, Return, TypeInv, PlaneOK
<1>2. SignedBefore'
  BY <1>1 DEF SignedInv, SignedBefore, SignedRuns
<1>. QED
  BY <1>1, <1>2 DEF SignedInv, SignedNow, SignedOncePerPlane, OnSigned, Runnable

LEMMA SignedOther ==
  ASSUME TypeInv, SignedInv,
         \/ \E r \in Requests : Receive(r)
         \/ Refuse \/ UseStoredGrant \/ AskOperator \/ RequestClearance
         \/ \E a \in Answers : ClearanceAnswered(a)
         \/ StartExecution \/ FinishExecution
         \/ \E a \in asked, op \in Operators, scope \in {"one_time", "session"} :
              GrantFromResponse(a, op, scope)
         \/ Tick
  PROVE  SignedInv'
<1>1. UNCHANGED <<plane, signedUsed, executed>>
  BY DEF Receive, Refuse, UseStoredGrant, AskOperator, RequestClearance, ClearanceAnswered,
         StartExecution, FinishExecution, GrantFromResponse, Tick, heap
<1>2. OnSigned' => OnSigned /\ basis' = basis
  <2>1. CASE Refuse \/ AskOperator \/ FinishExecution
    BY <2>1 DEF Refuse, AskOperator, FinishExecution, EmitAndReturn, AuditRaises, Return,
                OnSigned, Runnable
  <2>2. CASE RequestClearance
    BY <2>2 DEF RequestClearance, EmitThen, AuditRaises, Return, OnSigned, Runnable
  <2>3. ASSUME NEW r \in Requests, Receive(r) PROVE ~OnSigned'
    BY <2>3 DEF Receive, PolicyBasis, OnSigned
  <2>4. CASE UseStoredGrant
    BY <2>4 DEF UseStoredGrant, OnSigned, On
  <2>5. ASSUME NEW a \in Answers, ClearanceAnswered(a) PROVE ~OnSigned'
    BY <2>5 DEF ClearanceAnswered, EmitAndReturn, AuditRaises, Return, OnSigned, Runnable, On
  <2>6. CASE StartExecution
    BY <2>6 DEF StartExecution, OnSigned, Runnable
  <2>7. CASE \/ \E a \in asked, op \in Operators, scope \in {"one_time", "session"} :
                  GrantFromResponse(a, op, scope)
             \/ Tick
    BY <2>7 DEF GrantFromResponse, Tick, OnSigned, Runnable
  <2>. QED  BY <2>1, <2>2, <2>3, <2>4, <2>5, <2>6, <2>7
<1>. QED  BY <1>1, <1>2, SignedFrame

THEOREM SignedInductive == TypeInv /\ SignedInv /\ [Next]_vars => SignedInv'
<1>. SUFFICES ASSUME TypeInv, SignedInv, [Next]_vars PROVE SignedInv'
  OBVIOUS
<1>1. CASE UNCHANGED vars
  BY <1>1, SignedFrame DEF vars, heap, OnSigned, Runnable
<1>2. CASE Next
  BY <1>2, SignedVerify, SignedInvokeProvider, SignedNewPlane, SignedOther DEF Next, Step
<1>. QED  BY <1>1, <1>2

\* A one-time signed grant is spent by at most one provider invocation of one
\* ControlPlane object, also when its events cannot be written.
THEOREM SignedOncePerPlaneHolds == Spec => []SignedOncePerPlane
<1>1. SignedInv => SignedOncePerPlane
  BY DEF SignedInv
<1>. QED
  BY <1>1, SignedInit, SignedInductive, TypeInvInvariant, PTL DEF Spec

-----------------------------------------------------------------------------
(***************************************************************************)
(* Clearances.                                                             *)
(***************************************************************************)
\* What a clearance for request r of call c says when handle minted its id.
MintedFor(r, b, c) == b.kind = "clearance" /\ r.reqid = NoId => b.ref = <<c, NoId>>

ClearInv ==
  /\ Runnable => MintedFor(req, basis, n)
  /\ \A e \in executed : MintedFor(e.req, e.basis, e.call)

LEMMA ClearInit == Init => ClearInv
BY DEF Init, ClearInv, Runnable

LEMMA ClearFrame ==
  ASSUME ClearInv, UNCHANGED executed,
         Runnable' => \/ basis'.kind # "clearance"
                      \/ Runnable /\ UNCHANGED <<req, basis, n>>
  PROVE  ClearInv'
BY DEF ClearInv, MintedFor

LEMMA ClearAnswered ==
  ASSUME ClearInv, NEW a \in Answers, ClearanceAnswered(a)
  PROVE  ClearInv'
<1>1. UNCHANGED <<executed, req, n>>
  BY DEF ClearanceAnswered
<1>2. ASSUME Runnable' PROVE MintedFor(req, basis', n)
  <2>1. /\ VerifiesClearance(a, ClearanceId, Binding(req, plane.provider), now)
        /\ basis'.ref = <<a.request, NoId>>
    BY <1>2 DEF ClearanceAnswered, EmitAndReturn, AuditRaises, Return, Runnable, On
  <2>. QED  BY <2>1 DEF VerifiesClearance, ClearanceId, MintedFor
<1>. QED  BY <1>1, <1>2 DEF ClearInv, MintedFor

LEMMA ClearInvokeProvider ==
  ASSUME ClearInv, InvokeProvider
  PROVE  ClearInv'
<1>. DEFINE run == [nth |-> Cardinality(executed) + 1, call |-> n,
                    plane |-> plane.id, req |-> req,
                    provider |-> plane.provider, basis |-> basis]
<1>1. ~Runnable' /\ Runnable /\ executed' = executed \cup {run}
  BY DEF InvokeProvider, Return, Runnable
<1>2. run.req = req /\ run.basis = basis /\ run.call = n
  OBVIOUS
<1>. QED  BY <1>1, <1>2 DEF ClearInv, MintedFor

LEMMA ClearOther ==
  ASSUME ClearInv, Next, ~InvokeProvider, \A a \in Answers : ~ClearanceAnswered(a)
  PROVE  ClearInv'
<1>1. ASSUME NEW r \in Requests, Receive(r) PROVE ClearInv'
  <2>1. UNCHANGED executed /\ basis'.kind # "clearance"
    BY <1>1 DEF Receive, PolicyBasis
  <2>. QED  BY <2>1, ClearFrame
<1>2. CASE Refuse \/ AskOperator \/ RequestClearance \/ FinishExecution
  <2>1. UNCHANGED executed /\ ~Runnable'
    BY <1>2 DEF Refuse, AskOperator, RequestClearance, FinishExecution, EmitThen,
                EmitAndReturn, AuditRaises, Return, Runnable
  <2>. QED  BY <2>1, ClearFrame
<1>3. CASE VerifySignedGrant
  <2>1. UNCHANGED executed /\ (Runnable' => basis'.kind # "clearance")
    BY <1>3 DEF VerifySignedGrant, EmitThen, AuditRaises, Return, Runnable, On
  <2>. QED  BY <2>1, ClearFrame
<1>4. CASE UseStoredGrant
  <2>1. UNCHANGED executed /\ basis'.kind # "clearance"
    BY <1>4 DEF UseStoredGrant, On
  <2>. QED  BY <2>1, ClearFrame
<1>5. CASE StartExecution
  <2>1. UNCHANGED <<executed, req, basis, n>> /\ Runnable
    BY <1>5 DEF StartExecution, Runnable
  <2>. QED  BY <2>1, ClearFrame
<1>6. CASE \/ \E a \in asked, op \in Operators, scope \in {"one_time", "session"} :
                GrantFromResponse(a, op, scope)
           \/ \E p \in Providers : NewControlPlane(p)
           \/ Tick
  <2>1. UNCHANGED <<executed, req, basis, n, pc>>
    BY <1>6 DEF GrantFromResponse, NewControlPlane, Tick
  <2>. QED  BY <2>1, ClearFrame DEF Runnable
<1>7. CASE Restart
  <2>1. UNCHANGED executed /\ ~Runnable'
    BY <1>7 DEF Restart, Return, Runnable
  <2>. QED  BY <2>1, ClearFrame
<1>. QED  BY <1>1, <1>2, <1>3, <1>4, <1>5, <1>6, <1>7 DEF Next, Step

THEOREM ClearInductive == ClearInv /\ [Next]_vars => ClearInv'
<1>. SUFFICES ASSUME ClearInv, [Next]_vars PROVE ClearInv'
  OBVIOUS
<1>1. CASE UNCHANGED vars
  BY <1>1, ClearFrame DEF vars, heap, Runnable
<1>2. CASE Next
  BY <1>2, ClearAnswered, ClearInvokeProvider, ClearOther
<1>. QED  BY <1>1, <1>2

LEMMA ClearanceOfOneCall ==
  ASSUME ClearInv, ResultInv
  PROVE  ClearanceOnce
<1>. SUFFICES ASSUME NEW e \in executed, NEW f \in executed,
                     e.basis.kind = "clearance", f.basis.kind = "clearance",
                     e.req.reqid = NoId, f.req.reqid = NoId, e.basis.ref = f.basis.ref
              PROVE  e = f
  BY DEF ClearanceOnce
<1>1. e.call = f.call
  BY DEF ClearInv, MintedFor
<1>. QED  BY <1>1 DEF ResultInv

\* A clearance asked under an id handle minted runs its own call's action and
\* no other's, however the tower's answers are kept, swapped or replayed.
THEOREM ClearanceOnceHolds == Spec => []ClearanceOnce
<1>. QED
  BY ClearInit, ClearInductive, ClearanceOfOneCall, ResultInit, ResultInductive,
     TypeInvInvariant, PTL DEF Spec

-----------------------------------------------------------------------------
(***************************************************************************)
(* The refinement.                                                         *)
(***************************************************************************)
Effects == {EffectOf(e) : e \in executed}

RefineInv == TypeInv /\ AuthInv /\ OnceInv /\ SignedInv /\ ClearInv /\ ResultInv

\* An effect depends on the execution alone.
LEMMA EffectIsRigid ==
  ASSUME NEW e
  PROVE  EffectOf(e)' = EffectOf(e)
BY DEF EffectOf, Done, Binding, ClearanceBinding, InForceAt, Decision

LEMMA EffectsOfExecuted ==
  ASSUME UNCHANGED executed
  PROVE  UNCHANGED Effects
BY EffectIsRigid DEF Effects

\* No step forgets an approval.
LEMMA AuthoritiesGrow ==
  ASSUME [Next]_vars
  PROVE  Authorities \subseteq Authorities'
<1>1. approvals \subseteq approvals'
  BY DEF Next, Step, Receive, Refuse, VerifySignedGrant, UseStoredGrant, AskOperator,
         RequestClearance, ClearanceAnswered, StartExecution, InvokeProvider,
         FinishExecution, GrantFromResponse, AddActionGrant, NewControlPlane, Restart,
         Tick, vars, heap
<1>. QED  BY <1>1 DEF Authorities

\* A step that runs nothing gives.
LEMMA QuietStepGives ==
  ASSUME [Next]_vars, UNCHANGED executed
  PROVE  Owners!Give
BY EffectsOfExecuted, AuthoritiesGrow DEF Owners!Give, Effects

\* What the call in flight is about to do is permitted by what was given.
LEMMA RunPermitted ==
  ASSUME RefineInv, Runnable,
         NEW run, run.req = req, run.provider = plane.provider, run.basis = basis
  PROVE  Owners!Permitted(EffectOf(run))
<1>. DEFINE d == Decision(run.req)
<1>1. Backed(run.req, run.provider, run.basis)
  BY DEF RefineInv, AuthInv
<1>2. CASE ~RequiresApproval(d)
  BY <1>1, <1>2 DEF Owners!Permitted, EffectOf, Backed
<1>3. CASE RequiresApproval(d)
  <2>1. PICK a \in Authorities :
          /\ a.kind = run.basis.kind /\ a.ref = run.basis.ref
          /\ a.bind = Done(run)
          /\ a.expires # NoId
          /\ InForceAt(run) < a.expires
    BY <1>1, <1>3 DEF Backed, Done, InForceAt
  <2>2. Owners!Covers(a, EffectOf(run))
    BY <2>1 DEF Owners!Covers, EffectOf
  <2>. QED  BY <1>1, <1>3, <2>1, <2>2 DEF Owners!Permitted, EffectOf, Backed
<1>. QED  BY <1>2, <1>3

\* It spends no single use that an execution has spent.
LEMMA RunUnspent ==
  ASSUME RefineInv, pc = "provider", NEW x \in executed,
         NEW run, run.call = n, run.plane = plane.id, run.req = req, run.basis = basis,
         EffectOf(run).once, EffectOf(x).once
  PROVE  EffectOf(x).spends # EffectOf(run).spends
<1>. SUFFICES ASSUME EffectOf(x).spends = EffectOf(run).spends PROVE FALSE
  OBVIOUS
<1>1. x.basis.kind = basis.kind /\ x.basis.ref = basis.ref
  BY DEF EffectOf
<1>2. CASE basis.kind = "grant"
  BY <1>1, <1>2
     DEF EffectOf, RefineInv, OnceInv, SpentNow, AboutToRun, OneTimeRuns
<1>3. CASE basis.kind = "signed"
  <2>1. x.plane = plane.id
    BY <1>1, <1>3 DEF EffectOf
  <2>. QED
    BY <1>1, <1>3, <2>1
       DEF EffectOf, RefineInv, SignedInv, SignedNow, OnSigned, Runnable, SignedRuns
<1>4. CASE basis.kind = "clearance"
  <2>1. x.basis.ref = <<x.call, NoId>> /\ basis.ref = <<n, NoId>>
    BY <1>1, <1>4 DEF EffectOf, RefineInv, ClearInv, MintedFor, Runnable
  <2>2. <<x.call, NoId>>[1] = <<n, NoId>>[1]
    BY <1>1, <2>1, Zenon
  <2>3. x.call = n
    BY <2>2
  <2>. QED  BY <2>3 DEF RefineInv, TypeInv, LocalsOK, ResultInv, CallState, Ran
<1>. QED  BY <1>2, <1>3, <1>4 DEF EffectOf

\* The provider's step is the abstract one: what it adds is permitted, belongs
\* to a call that had no effect yet, and spends nothing that is spent.
LEMMA InvokeProviderActs ==
  ASSUME RefineInv, InvokeProvider
  PROVE  \E e \in Effects' : Owners!Act(e)
<1>1. PICK run :
        /\ run.call = n /\ run.plane = plane.id /\ run.req = req
        /\ run.provider = plane.provider /\ run.basis = basis
        /\ executed' = executed \cup {run}
  BY DEF InvokeProvider
<1>2. pc = "provider" /\ Runnable /\ UNCHANGED approvals
  BY DEF InvokeProvider, heap, Runnable
<1>. DEFINE e == EffectOf(run)
<1>3. UNCHANGED Authorities
  BY <1>2 DEF Authorities
<1>4. Effects' = Effects \cup {e}
  BY <1>1, EffectIsRigid DEF Effects
<1>5. Owners!Permitted(e)
  BY <1>1, <1>2, RunPermitted
<1>6. \A f \in Effects : f.call # e.call
  <2>1. \A x \in executed : x.call # n
    BY <1>2 DEF RefineInv, TypeInv, LocalsOK, ResultInv, CallState, Ran
  <2>. QED  BY <1>1, <2>1 DEF Effects, EffectOf
<1>7. Owners!Unspent(e)
  BY <1>1, <1>2, RunUnspent DEF Owners!Unspent, Effects
<1>. QED  BY <1>3, <1>4, <1>5, <1>6, <1>7 DEF Owners!Act, Effects

\* handle implements Authorization: whatever fails around it, a machine is
\* made to do only what the policy allows or a given authority covers, one
\* effect per call, and no single use is spent twice.
THEOREM AuthorizationImplemented == Spec => ImplementsAuthorization
<1>1. Init => Owners!Init
  BY DEF Init, Owners!Init
<1>2. ASSUME RefineInv, [Next]_vars
      PROVE  [Owners!Next]_<<Authorities, Effects>>
  <2>1. CASE InvokeProvider
    BY <1>2, <2>1, InvokeProviderActs DEF Owners!Next, Effects
  <2>2. CASE ~InvokeProvider
    <3>1. UNCHANGED executed
      BY <1>2, <2>2
         DEF Next, Step, Receive, Refuse, VerifySignedGrant, UseStoredGrant, AskOperator,
             RequestClearance, ClearanceAnswered, StartExecution, FinishExecution,
             GrantFromResponse, NewControlPlane, Restart, Tick, vars, heap
    <3>. QED  BY <1>2, <3>1, QuietStepGives DEF Owners!Next
  <2>. QED  BY <2>1, <2>2
<1>. QED
  BY <1>1, <1>2, TypeInvInvariant, HardInit, HardInductive, AuthInit, AuthInductive,
     OnceInit, OnceInductive, SignedInit, SignedInductive, ClearInit, ClearInductive,
     ResultInit, ResultInductive, PTL
     DEF Spec, ImplementsAuthorization, Owners!Spec, RefineInv, Effects

-----------------------------------------------------------------------------
(***************************************************************************)
(* The host around it.  A submission is GrantFromResponse or leaves the    *)
(* control plane alone, so a host is a ControlPlane and every theorem      *)
(* about one is about the other.                                           *)
(***************************************************************************)
LEMMA SubmitIsGrant ==
  ASSUME NEW a \in asked, NEW op \in Operators, NEW decision \in Decided,
         NEW scope \in {"one_time", "session"}, NEW at, NEW matching \in BOOLEAN,
         Submit(a, op, decision, scope, at, matching)
  PROVE  GrantFromResponse(a, op, scope) \/ UNCHANGED vars
<1>1. CASE UNCHANGED <<store, approvals>>
  BY <1>1 DEF Submit, vars, heap
<1>2. CASE /\ Verdict(a, decision, at, matching) = "granted"
           /\ AddActionGrant(a, op, scope)
  BY <1>2 DEF Submit, GrantFromResponse
<1>. QED  BY <1>1, <1>2 DEF Submit, Settle

LEMMA HostStepIsStep == TypeInv /\ [HostNext]_allVars => [Next]_vars
<1>. SUFFICES ASSUME TypeInv, [HostNext]_allVars PROVE [Next]_vars
  OBVIOUS
<1>1. ASSUME NEW a \in asked, Resume(a) PROVE Next
  <2>1. a.req \in Requests
    BY DEF TypeInv, StoreOK, Asks
  <2>. QED  BY <1>1, <2>1 DEF Resume, Next
<1>2. ASSUME NEW a \in asked, NEW op \in Operators, NEW decision \in Decided,
             NEW scope \in {"one_time", "session"}, NEW at, NEW matching \in BOOLEAN,
             Submit(a, op, decision, scope, at, matching)
      PROVE  [Next]_vars
  BY <1>2, SubmitIsGrant DEF Next
<1>3. CASE \/ \E r \in Requests : CallTool(r)
           \/ CallGoesOn \/ HostRestart \/ HostTick
  BY <1>3 DEF CallTool, CallGoesOn, HostRestart, HostTick, Next
<1>4. CASE UNCHANGED allVars
  BY <1>4 DEF allVars
<1>. QED  BY <1>1, <1>2, <1>3, <1>4 DEF HostNext

\* The MCP host, with its pending calls, its answers and its restarts, is a
\* ControlPlane: what is proved of handle holds of it.
THEOREM HostIsControlPlane == HostSpec => Spec
<1>1. HostInit => Init
  BY DEF HostInit
<1>2. TypeInv /\ [HostNext]_allVars => TypeInv' /\ [Next]_vars
  BY HostStepIsStep, TypeInvInductive
<1>3. Init => TypeInv
  BY TypeInvInit
<1>. QED  BY <1>1, <1>2, <1>3, PTL DEF HostSpec, Spec

\* The answers the audit log knows as grants.
GrantedAnswers == {<<v.id, v.op>> : v \in {w \in events : w.type = "approval_granted"}}

LoggedInv ==
  /\ \A i \in DOMAIN store : store[i].response \in GrantedAnswers
  /\ Runnable /\ basis.kind = "grant" => basis.ref \in GrantedAnswers
  /\ \A e \in executed : e.basis.kind = "grant" => e.basis.ref \in GrantedAnswers

LEMMA LoggedFrame ==
  ASSUME LoggedInv, events \subseteq events', UNCHANGED executed,
         store' = store \/ store' = <<>>,
         Runnable' => \/ basis'.kind # "grant"
                      \/ Runnable /\ UNCHANGED basis
                      \/ basis'.ref \in GrantedAnswers
  PROVE  LoggedInv'
<1>1. GrantedAnswers \subseteq GrantedAnswers'
  BY DEF GrantedAnswers
<1>. QED  BY <1>1 DEF LoggedInv

\* A call finds grants in the store only, and those answer to the log.
LEMMA LoggedCall ==
  ASSUME LoggedInv, UNCHANGED events,
         Step \/ (\E r \in Requests : Receive(r)) \/ Restart \/ Tick
  PROVE  LoggedInv'
<1>1. CASE InvokeProvider
  <2>1. PICK run : run.basis = basis /\ executed' = executed \cup {run}
    BY <1>1 DEF InvokeProvider
  <2>2. Runnable /\ ~Runnable' /\ UNCHANGED store
    BY <1>1 DEF InvokeProvider, heap, Return, Runnable
  <2>. QED  BY <2>1, <2>2 DEF LoggedInv, GrantedAnswers
<1>2. CASE UseStoredGrant
  <2>1. UNCHANGED <<store, executed>> /\ \E i \in DOMAIN store : basis'.ref = store[i].response
    BY <1>2 DEF UseStoredGrant, On
  <2>. QED  BY <2>1, LoggedFrame DEF LoggedInv
<1>3. ASSUME NEW r \in Requests, Receive(r) PROVE LoggedInv'
  <2>1. UNCHANGED <<store, executed>> /\ basis'.kind # "grant"
    BY <1>3 DEF Receive, heap, PolicyBasis
  <2>. QED  BY <2>1, LoggedFrame
<1>4. CASE Refuse \/ AskOperator \/ RequestClearance \/ FinishExecution
  <2>1. UNCHANGED <<store, executed>> /\ ~Runnable'
    BY <1>4 DEF Refuse, AskOperator, RequestClearance, FinishExecution, EmitThen,
                EmitAndReturn, AuditRaises, Return, Runnable, heap
  <2>. QED  BY <2>1, LoggedFrame
<1>5. CASE VerifySignedGrant
  <2>1. UNCHANGED <<store, executed>> /\ (Runnable' => basis'.kind # "grant")
    BY <1>5 DEF VerifySignedGrant, EmitThen, AuditRaises, Return, Runnable, On
  <2>. QED  BY <2>1, LoggedFrame
<1>6. ASSUME NEW a \in Answers, ClearanceAnswered(a) PROVE LoggedInv'
  <2>1. UNCHANGED <<store, executed>> /\ (Runnable' => basis'.kind # "grant")
    BY <1>6 DEF ClearanceAnswered, EmitAndReturn, AuditRaises, Return, Runnable, On
  <2>. QED  BY <2>1, LoggedFrame
<1>7. CASE StartExecution
  <2>1. UNCHANGED <<store, executed, basis>> /\ Runnable
    BY <1>7 DEF StartExecution, Runnable, heap
  <2>. QED  BY <2>1, LoggedFrame
<1>8. CASE Restart
  <2>1. store' = <<>> /\ UNCHANGED executed /\ ~Runnable'
    BY <1>8 DEF Restart, Return, Runnable
  <2>. QED  BY <2>1, LoggedFrame
<1>9. CASE Tick
  <2>1. UNCHANGED <<store, executed, basis, pc>>
    BY <1>9 DEF Tick, heap
  <2>. QED  BY <2>1, LoggedFrame DEF Runnable
<1>. QED  BY <1>1, <1>2, <1>3, <1>4, <1>5, <1>6, <1>7, <1>8, <1>9 DEF Step

\* Settle emits the event before it touches the store.
LEMMA LoggedSubmit ==
  ASSUME TypeInv, LoggedInv,
         NEW a \in asked, NEW op \in Operators, NEW decision \in Decided,
         NEW scope \in {"one_time", "session"}, NEW at, NEW matching \in BOOLEAN,
         Submit(a, op, decision, scope, at, matching)
  PROVE  LoggedInv'
<1>. DEFINE verdict == Verdict(a, decision, at, matching)
<1>1. /\ UNCHANGED <<pc, basis, executed>>
      /\ events' = events \cup {Event(EventOf(verdict), a, op)}
      /\ \/ UNCHANGED store
         \/ verdict = "granted" /\ AddActionGrant(a, op, scope)
  BY DEF Submit, Settle
<1>2. CASE UNCHANGED store
  BY <1>1, <1>2, LoggedFrame DEF Runnable
<1>3. CASE verdict = "granted" /\ AddActionGrant(a, op, scope)
  <2>1. PICK g : store' = Append(store, g) /\ g.response = <<a.id, op>>
    BY <1>3 DEF AddActionGrant
  <2>2. <<a.id, op>> \in GrantedAnswers'
    <3>1. EventOf("granted") = "approval_granted"
      BY DEF EventOf
    <3>2. Event("approval_granted", a, op) \in events'
      BY <1>1, <1>3, <3>1
    <3>. QED  BY <3>2 DEF GrantedAnswers, Event
  <2>3. GrantedAnswers \subseteq GrantedAnswers'
    BY <1>1 DEF GrantedAnswers
  <2>4. \A i \in DOMAIN store' : store'[i].response \in GrantedAnswers'
    <3>1. ASSUME NEW i \in DOMAIN store'
          PROVE  store'[i] = g \/ (i \in DOMAIN store /\ store'[i] = store[i])
      BY <2>1 DEF TypeInv, StoreOK
    <3>. QED  BY <2>1, <2>2, <2>3, <3>1 DEF LoggedInv
  <2>. QED  BY <1>1, <2>3, <2>4 DEF LoggedInv, Runnable
<1>. QED  BY <1>1, <1>2, <1>3

LEMMA LoggedInductive == TypeInv /\ LoggedInv /\ [HostNext]_allVars => LoggedInv'
<1>. SUFFICES ASSUME TypeInv, LoggedInv, [HostNext]_allVars PROVE LoggedInv'
  OBVIOUS
<1>1. CASE UNCHANGED allVars
  BY <1>1, LoggedFrame DEF allVars, vars, heap, hostVars, Runnable
<1>2. CASE HostNext
  <2>1. ASSUME NEW a \in asked, Resume(a) PROVE LoggedInv'
    <3>1. a.req \in Requests
      BY DEF TypeInv, StoreOK, Asks
    <3>. QED  BY <2>1, <3>1, LoggedCall DEF Resume, hostVars
  <2>2. CASE \/ \E r \in Requests : CallTool(r)
             \/ CallGoesOn \/ HostRestart \/ HostTick
    BY <2>2, LoggedCall DEF CallTool, CallGoesOn, HostRestart, HostTick, hostVars
  <2>. QED  BY <1>2, <2>1, <2>2, LoggedSubmit DEF HostNext
<1>. QED  BY <1>1, <1>2

\* What runs on an operator's grant runs on an answer that is in the audit
\* log, and so does what waits in the store, whatever the sink does.
THEOREM RunsOnLoggedAnswerHolds == HostSpec => []RunsOnLoggedAnswer
<1>1. HostInit => TypeInv /\ LoggedInv
  BY TypeInvInit DEF HostInit, Init, LoggedInv, Runnable
<1>2. TypeInv /\ [HostNext]_allVars => TypeInv'
  BY HostStepIsStep, TypeInvInductive
<1>3. LoggedInv => RunsOnLoggedAnswer
  BY DEF LoggedInv, RunsOnLoggedAnswer, GrantedAnswers
<1>. QED  BY <1>1, <1>2, <1>3, LoggedInductive, PTL DEF HostSpec
=============================================================================
