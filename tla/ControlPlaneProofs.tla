-------------------------- MODULE ControlPlaneProofs --------------------------
(***************************************************************************)
(* Theorems about ControlPlane, for every value of its constants.          *)
(***************************************************************************)
EXTENDS ControlPlane, WellFoundedInduction, TLAPS

-----------------------------------------------------------------------------
(***************************************************************************)
(* Type correctness.  TypeOK is not inductive: what Append does to store   *)
(* and EXCEPT to trail and result must be known too.                       *)
(***************************************************************************)
\* The approval requests that can be handed back, and the grants that can
\* come of them.
Asks ==
  {[id |-> i, req |-> r, bind |-> Binding(r, p), expires |-> t] :
     i \in Calls, r \in Requests, p \in Providers, t \in 1..(MaxClock + ApprovalTtl)}

Grants ==
  {[response |-> <<a.id, op>>, cap |-> a.bind.cap, session |-> a.bind.session,
    target |-> a.bind.target, provider |-> a.bind.provider,
    params |-> a.bind.params, expires |-> a.expires, scope |-> s] :
     a \in Asks, op \in Operators, s \in {"one_time", "session"}}

LocalsOK ==
  /\ clock \in 0..MaxClock /\ n \in 0..MaxCalls /\ now \in 0..MaxClock
  /\ pc \in Labels /\ req \in Requests
  /\ pc # "idle" => n \in Calls

BasisOK ==
  /\ basis.kind \in Kinds /\ basis.one_time \in BOOLEAN
  /\ {basis.began, basis.since} \subseteq 0..MaxClock

PlaneOK ==
  /\ plane \in [id : 1..MaxPlanes, provider : Providers]
  /\ signedUsed \subseteq {g.id : g \in SignedGrants}

StoreOK == store \in Seq(Grants) /\ Len(store) <= MaxGrants /\ asked \subseteq Asks

HistoryOK == trail \in [Calls -> SUBSET EventTypes] /\ result \in [Calls -> Results]

TypeInv == LocalsOK /\ BasisOK /\ PlaneOK /\ StoreOK /\ HistoryOK

\* The labels the branches of handle start at.
LEMMA RouteLabels ==
  ASSUME NEW r
  PROVE  Route(r) \in {"refuse", "execute", "clearance", "signed"}
BY DEF Route

\* The sequences of events emitted in one step.
LEMMA EventPair ==
  ASSUME NEW x \in EventTypes, NEW y \in EventTypes
  PROVE  <<x>> \in Seq(EventTypes) /\ <<x, y>> \in Seq(EventTypes)
OBVIOUS

LEMMA EventTriple ==
  ASSUME NEW x \in EventTypes, NEW y \in EventTypes, NEW z \in EventTypes
  PROVE  <<x, y, z>> \in Seq(EventTypes)
OBVIOUS

\* What a step that emits es and goes on at label next, or raises, or returns
\* status, leaves of the two history variables and of pc.
LEMMA EmitOK ==
  ASSUME NEW STATE c, c \in Calls, NEW STATE es, es \in Seq(EventTypes), HistoryOK,
         Emit(c, es)
  PROVE  /\ trail' \in [Calls -> SUBSET EventTypes]
         /\ \A d \in Calls : trail[d] \subseteq trail'[d]
         /\ \A i \in 1..Len(es) : es[i] \in trail'[c]
BY DEF Emit, HistoryOK

LEMMA AuditRaisesOK ==
  ASSUME NEW STATE c, c \in Calls, NEW STATE es, es \in Seq(EventTypes), HistoryOK,
         AuditRaises(c, es)
  PROVE  /\ HistoryOK' /\ pc' = "idle"
         /\ \A d \in Calls : trail[d] \subseteq trail'[d]
         /\ result' = [result EXCEPT ![c] = "raised"]
<1>1. PICK k \in 0..Len(es) : Emit(c, SubSeq(es, 1, k))
  BY DEF AuditRaises
<1>2. SubSeq(es, 1, k) \in Seq(EventTypes)
  OBVIOUS
<1>3. QED
  BY <1>1, <1>2 DEF AuditRaises, Return, HistoryOK, Results, Emit

LEMMA EmitThenOK ==
  ASSUME NEW STATE c, c \in Calls, NEW STATE es, es \in Seq(EventTypes), HistoryOK,
         NEW STATE next, EmitThen(c, es, next)
  PROVE  /\ HistoryOK'
         /\ \A d \in Calls : trail[d] \subseteq trail'[d]
         /\ \/ /\ pc' = next /\ result' = result
               /\ \A i \in 1..Len(es) : es[i] \in trail'[c]
            \/ pc' = "idle" /\ result' = [result EXCEPT ![c] = "raised"]
<1>1. CASE Emit(c, es) /\ pc' = next /\ UNCHANGED result
  BY <1>1, EmitOK DEF HistoryOK
<1>2. CASE AuditRaises(c, es)
  BY <1>2, AuditRaisesOK
<1>3. QED
  BY <1>1, <1>2 DEF EmitThen

LEMMA EmitAndReturnOK ==
  ASSUME NEW STATE c, c \in Calls, NEW STATE es, es \in Seq(EventTypes), HistoryOK,
         NEW STATE status, status \in Results, EmitAndReturn(c, es, status)
  PROVE  /\ HistoryOK' /\ pc' = "idle"
         /\ \A d \in Calls : trail[d] \subseteq trail'[d]
         /\ \/ result' = [result EXCEPT ![c] = status]
            \/ result' = [result EXCEPT ![c] = "raised"]
<1>1. CASE Emit(c, es) /\ Return(c, status)
  BY <1>1, EmitOK DEF HistoryOK, Return
<1>2. CASE AuditRaises(c, es)
  BY <1>2, AuditRaisesOK
<1>3. QED
  BY <1>1, <1>2 DEF EmitAndReturn

LEMMA TypeInvReceive ==
  ASSUME TypeInv, NEW r \in Requests, Receive(r)
  PROVE  TypeInv'
<1>. DEFINE es == <<"request_received",
         IF r.cap \in KnownCaps THEN "capability_resolved" ELSE "capability_unknown_denied",
         "policy_decision">>
<1>1. n + 1 \in Calls
  BY BoundsAssumption DEF TypeInv, LocalsOK, Receive, Calls
<1>2. es \in Seq(EventTypes)
  BY EventTriple DEF EventTypes
<1>3. EmitThen(n + 1, es, Route(r))
  BY DEF Receive
<1>4. HistoryOK' /\ pc' \in {Route(r), "idle"}
  BY <1>1, <1>2, <1>3, EmitThenOK DEF TypeInv
<1>5. LocalsOK'
  BY <1>1, <1>4, RouteLabels DEF TypeInv, LocalsOK, Receive, Labels, Calls
<1>6. BasisOK' /\ PlaneOK' /\ StoreOK'
  BY BoundsAssumption DEF TypeInv, LocalsOK, BasisOK, PlaneOK, StoreOK, Receive, heap, PolicyBasis, Kinds
<1>. QED  BY <1>4, <1>5, <1>6 DEF TypeInv

LEMMA TypeInvVerifySignedGrant ==
  ASSUME TypeInv, VerifySignedGrant
  PROVE  TypeInv'
<1>. DEFINE g == req.signed
            both == <<"approval_verified", "approval_consumed">>
<1>1. n \in Calls
  BY DEF TypeInv, LocalsOK, VerifySignedGrant
<1>2. pc' \in {"stored", "execute", "idle"} => LocalsOK'
  BY <1>1 DEF TypeInv, LocalsOK, VerifySignedGrant, Labels
<1>3. /\ <<"approval_rejected">> \in Seq(EventTypes)
      /\ <<"approval_verified">> \in Seq(EventTypes)
      /\ both \in Seq(EventTypes)
  BY EventPair DEF EventTypes
<1>4. CASE g = NoGrant
  BY <1>4, <1>2, RequestsAssumption
     DEF TypeInv, LocalsOK, BasisOK, PlaneOK, StoreOK, HistoryOK, VerifySignedGrant
<1>5. CASE g # NoGrant /\ EmitThen(n, <<"approval_rejected">>, "stored")
             /\ UNCHANGED <<basis, signedUsed>>
  <2>1. HistoryOK' /\ pc' \in {"stored", "idle"}
    BY <1>1, <1>3, <1>5, EmitThenOK DEF TypeInv
  <2>. QED
    BY <2>1, <1>2, <1>5 DEF TypeInv, BasisOK, PlaneOK, StoreOK, VerifySignedGrant
<1>6. CASE /\ g # NoGrant
           /\ basis' = On("signed", <<g.id, NoId>>, g.one_time)
           /\ AuditRaises(n, <<"approval_verified">>) /\ UNCHANGED signedUsed
  <2>1. HistoryOK' /\ pc' = "idle"
    BY <1>1, <1>3, <1>6, AuditRaisesOK DEF TypeInv
  <2>2. BasisOK'
    BY <1>6, RequestsAssumption DEF TypeInv, LocalsOK, BasisOK, Kinds, On
  <2>. QED
    BY <2>1, <2>2, <1>2, <1>6 DEF TypeInv, PlaneOK, StoreOK, VerifySignedGrant
<1>7. CASE /\ g # NoGrant
           /\ basis' = On("signed", <<g.id, NoId>>, g.one_time)
           /\ signedUsed' \in {signedUsed, signedUsed \cup {g.id}}
           /\ \/ Emit(n, both) \/ Emit(n, <<"approval_verified">>)
           /\ \/ pc' = "execute" /\ UNCHANGED result
              \/ Return(n, "raised")
  <2>1. HistoryOK'
    <3>1. trail' \in [Calls -> SUBSET EventTypes]
      BY <1>1, <1>3, <1>7, EmitOK DEF TypeInv
    <3>. QED
      BY <3>1, <1>1, <1>7 DEF TypeInv, HistoryOK, Return, Results
  <2>2. pc' \in {"execute", "idle"}
    BY <1>7 DEF Return
  <2>3. BasisOK'
    BY <1>7, RequestsAssumption DEF TypeInv, LocalsOK, BasisOK, Kinds, On
  <2>4. PlaneOK'
    BY <1>7, RequestsAssumption DEF TypeInv, LocalsOK, PlaneOK, VerifySignedGrant
  <2>. QED
    BY <2>1, <2>2, <2>3, <2>4, <1>2 DEF TypeInv, StoreOK, VerifySignedGrant
<1>. QED
  BY <1>4, <1>5, <1>6, <1>7 DEF VerifySignedGrant

LEMMA TypeInvUseStoredGrant ==
  ASSUME TypeInv, UseStoredGrant
  PROVE  TypeInv'
<1>1. n \in Calls /\ <<"approval_consumed">> \in Seq(EventTypes)
  BY EventPair DEF TypeInv, LocalsOK, UseStoredGrant, EventTypes
<1>2. EmitThen(n, <<"approval_consumed">>, "execute")
  BY DEF UseStoredGrant
<1>3. HistoryOK' /\ pc' \in {"execute", "idle"}
  BY <1>1, <1>2, EmitThenOK DEF TypeInv
<1>4. BasisOK'
  BY DEF UseStoredGrant, BasisOK, Kinds, Reusable, TypeInv, LocalsOK, On
<1>. QED
  BY <1>1, <1>3, <1>4 DEF TypeInv, LocalsOK, PlaneOK, StoreOK, UseStoredGrant, Labels

LEMMA TypeInvAskOperator ==
  ASSUME TypeInv, AskOperator
  PROVE  TypeInv'
<1>. DEFINE es == <<"approval_requested", "result_returned">>
<1>1. n \in Calls /\ es \in Seq(EventTypes)
  BY EventPair DEF TypeInv, LocalsOK, AskOperator, EventTypes
<1>2. CASE AuditRaises(n, es) /\ UNCHANGED asked
  <2>1. HistoryOK' /\ pc' = "idle"
    BY <1>1, <1>2, AuditRaisesOK DEF TypeInv
  <2>. QED
    BY <1>2, <2>1 DEF TypeInv, LocalsOK, BasisOK, PlaneOK, StoreOK, AskOperator, Labels
<1>3. CASE /\ Emit(n, es) /\ Return(n, "approval_required")
           /\ asked' = asked \cup {[id |-> n, req |-> req,
                                   bind |-> Binding(req, plane.provider),
                                   expires |-> clock + ApprovalTtl]}
  <2>1. trail' \in [Calls -> SUBSET EventTypes]
    BY <1>1, <1>3, EmitOK DEF TypeInv
  <2>2. HistoryOK' /\ pc' = "idle"
    BY <1>1, <1>3, <2>1 DEF TypeInv, HistoryOK, Return, Results
  <2>3. clock + ApprovalTtl \in 1..(MaxClock + ApprovalTtl)
    BY BoundsAssumption DEF TypeInv, LocalsOK
  <2>4. asked' \subseteq Asks
    BY <1>1, <1>3, <2>3 DEF TypeInv, LocalsOK, PlaneOK, StoreOK, Asks
  <2>. QED
    BY <2>2, <2>4 DEF TypeInv, LocalsOK, BasisOK, PlaneOK, StoreOK, AskOperator, Labels
<1>. QED
  BY <1>2, <1>3 DEF AskOperator

LEMMA TypeInvClearance ==
  ASSUME TypeInv, RequestClearance \/ \E a \in Answers : ClearanceAnswered(a)
  PROVE  TypeInv'
<1>1. CASE RequestClearance
  <2>1. n \in Calls /\ <<"approval_requested">> \in Seq(EventTypes)
    BY <1>1, EventPair DEF TypeInv, LocalsOK, RequestClearance, EventTypes
  <2>2. HistoryOK' /\ pc' \in {"waiting", "idle"}
    BY <1>1, <2>1, EmitThenOK DEF TypeInv, RequestClearance
  <2>. QED
    BY <1>1, <2>1, <2>2
       DEF TypeInv, LocalsOK, BasisOK, PlaneOK, StoreOK, RequestClearance, heap, Labels
<1>2. ASSUME NEW a \in Answers, ClearanceAnswered(a) PROVE TypeInv'
  <2>1. /\ n \in Calls
        /\ <<"approval_verified">> \in Seq(EventTypes)
        /\ <<"result_returned">> \in Seq(EventTypes)
        /\ <<"approval_rejected", "result_returned">> \in Seq(EventTypes)
    BY <1>2, EventPair DEF TypeInv, LocalsOK, ClearanceAnswered, EventTypes
  <2>2. {"denied", "clearance_required"} \subseteq Results
    BY DEF Results
  <2>3. BasisOK'
    <3>1. \/ basis' = basis
          \/ basis' = On("clearance", <<a.request, NoId>>, FALSE)
      BY <1>2 DEF ClearanceAnswered
    <3>2. CASE basis' = basis
      BY <3>2 DEF TypeInv, BasisOK
    <3>3. CASE basis' = On("clearance", <<a.request, NoId>>, FALSE)
      BY <3>3 DEF TypeInv, LocalsOK, BasisOK, Kinds, On
    <3>. QED
      BY <3>1, <3>2, <3>3
  <2>4. HistoryOK' /\ pc' \in {"execute", "idle"}
    <3>1. CASE EmitThen(n, <<"approval_verified">>, "execute")
      BY <2>1, <3>1, EmitThenOK DEF TypeInv
    <3>2. CASE EmitAndReturn(n, <<"approval_rejected", "result_returned">>, "denied")
      BY <2>1, <2>2, <3>2, EmitAndReturnOK DEF TypeInv
    <3>3. CASE EmitAndReturn(n, <<"result_returned">>, "clearance_required")
      BY <2>1, <2>2, <3>3, EmitAndReturnOK DEF TypeInv
    <3>. QED
      BY <1>2, <3>1, <3>2, <3>3 DEF ClearanceAnswered
  <2>. QED
    BY <1>2, <2>1, <2>3, <2>4
       DEF TypeInv, LocalsOK, PlaneOK, StoreOK, ClearanceAnswered, Labels
<1>. QED
  BY <1>1, <1>2

LEMMA TypeInvExecution ==
  ASSUME TypeInv, Refuse \/ StartExecution \/ InvokeProvider \/ FinishExecution
  PROVE  TypeInv'
<1>1. /\ n \in Calls
      /\ <<"result_returned">> \in Seq(EventTypes)
      /\ <<"provider_execution_started">> \in Seq(EventTypes)
      /\ \A x \in EventTypes : <<x, "result_returned">> \in Seq(EventTypes)
  BY EventPair
     DEF TypeInv, LocalsOK, Refuse, StartExecution, InvokeProvider, FinishExecution, EventTypes
<1>2. {"denied", "raised", "completed", "failed"} \subseteq Results
  BY DEF Results
<1>3. CASE Refuse
  <2>1. HistoryOK' /\ pc' = "idle"
    BY <1>1, <1>2, <1>3, EmitAndReturnOK DEF TypeInv, Refuse
  <2>. QED
    BY <1>3, <2>1 DEF TypeInv, LocalsOK, BasisOK, PlaneOK, StoreOK, Refuse, heap, Labels
<1>4. CASE StartExecution
  <2>1. HistoryOK' /\ pc' \in {"provider", "idle"}
    BY <1>1, <1>4, EmitThenOK DEF TypeInv, StartExecution
  <2>. QED
    BY <1>1, <1>4, <2>1
       DEF TypeInv, LocalsOK, BasisOK, PlaneOK, StoreOK, StartExecution, heap, Labels
<1>5. CASE InvokeProvider
  <2>1. HistoryOK' /\ pc' \in {"completed", "failed", "idle"}
    BY <1>1, <1>2, <1>5 DEF TypeInv, HistoryOK, InvokeProvider, Return
  <2>. QED
    BY <1>1, <1>5, <2>1
       DEF TypeInv, LocalsOK, BasisOK, PlaneOK, StoreOK, InvokeProvider, heap, Labels
<1>6. CASE FinishExecution
  <2>. DEFINE ended == IF pc = "completed" THEN "provider_execution_completed"
                                          ELSE "provider_execution_failed"
  <2>1. <<ended, "result_returned">> \in Seq(EventTypes)
    BY <1>1 DEF EventTypes
  <2>2. pc \in Results
    BY <1>2, <1>6 DEF FinishExecution
  <2>3. HistoryOK' /\ pc' = "idle"
    BY <1>1, <1>6, <2>1, <2>2, EmitAndReturnOK DEF TypeInv, FinishExecution
  <2>. QED
    BY <1>6, <2>3
       DEF TypeInv, LocalsOK, BasisOK, PlaneOK, StoreOK, FinishExecution, heap, Labels
<1>. QED
  BY <1>3, <1>4, <1>5, <1>6

LEMMA TypeInvAround ==
  ASSUME TypeInv,
         \/ \E a \in asked, op \in Operators, scope \in {"one_time", "session"} :
              GrantFromResponse(a, op, scope)
         \/ \E p \in Providers : NewControlPlane(p)
         \/ Restart
         \/ Tick
  PROVE  TypeInv'
<1>1. ASSUME NEW a \in asked, NEW op \in Operators, NEW s \in {"one_time", "session"},
             GrantFromResponse(a, op, s)
      PROVE  TypeInv'
  <2>1. PICK g \in Grants : store' = Append(store, g)
    BY <1>1 DEF TypeInv, StoreOK, GrantFromResponse, AddActionGrant, Grants
  <2>2. StoreOK'
    BY <1>1, <2>1, BoundsAssumption DEF TypeInv, StoreOK, GrantFromResponse
  <2>. QED
    BY <1>1, <2>2
       DEF TypeInv, LocalsOK, BasisOK, PlaneOK, HistoryOK, GrantFromResponse
<1>2. ASSUME NEW p \in Providers, NewControlPlane(p) PROVE TypeInv'
  <2>1. PlaneOK'
    BY <1>2, BoundsAssumption DEF TypeInv, PlaneOK, NewControlPlane
  <2>. QED
    BY <1>2, <2>1
       DEF TypeInv, LocalsOK, BasisOK, StoreOK, HistoryOK, NewControlPlane
<1>3. CASE Restart
  <2>1. PlaneOK'
    BY <1>3, BoundsAssumption DEF TypeInv, PlaneOK, Restart
  <2>2. StoreOK'
    BY <1>3, BoundsAssumption DEF StoreOK, Restart
  <2>3. pc' = "idle" /\ HistoryOK'
    BY <1>3 DEF TypeInv, LocalsOK, HistoryOK, Restart, Return, Results
  <2>. QED
    BY <1>3, <2>1, <2>2, <2>3 DEF TypeInv, LocalsOK, BasisOK, Restart, Labels
<1>4. CASE Tick
  BY <1>4, BoundsAssumption
     DEF TypeInv, LocalsOK, BasisOK, PlaneOK, StoreOK, HistoryOK, Tick, heap
<1>. QED
  BY <1>1, <1>2, <1>3, <1>4

THEOREM TypeInvInductive ==
  TypeInv /\ [Next]_vars => TypeInv'
<1>. SUFFICES ASSUME TypeInv, [Next]_vars PROVE TypeInv'
  OBVIOUS
<1>1. CASE UNCHANGED vars
  BY <1>1 DEF vars, heap, TypeInv, LocalsOK, BasisOK, PlaneOK, StoreOK, HistoryOK
<1>2. CASE Next
  BY <1>2, TypeInvReceive, TypeInvVerifySignedGrant, TypeInvUseStoredGrant,
     TypeInvAskOperator, TypeInvClearance, TypeInvExecution, TypeInvAround
     DEF Next, Step
<1>. QED
  BY <1>1, <1>2

LEMMA TypeInvInit == Init => TypeInv
BY BoundsAssumption, RequestsAssumption
   DEF Init, TypeInv, LocalsOK, BasisOK, PlaneOK, StoreOK, HistoryOK, PolicyBasis,
       Labels, Kinds, Results, Calls

THEOREM TypeInvInvariant == Spec => []TypeInv
BY TypeInvInit, TypeInvInductive, PTL DEF Spec

\* Nothing handle, its grant store, its audit trail or the objects around it
\* hold ever leaves its type.
THEOREM TypeCorrect == Spec => []TypeOK
<1>1. TypeInv => TypeOK
  BY DEF TypeInv, LocalsOK, BasisOK, PlaneOK, StoreOK, HistoryOK, TypeOK
<1>. QED
  BY <1>1, TypeInvInvariant, PTL

-----------------------------------------------------------------------------
(***************************************************************************)
(* An operator's one-time approval is good for one provider invocation:    *)
(* OneTimeOnce.                                                            *)
(*                                                                         *)
(* _consumed_response_ids does not outlive the process, the log of what    *)
(* was executed does.  So the argument cannot be that a spent response is  *)
(* in consumed: it is there, or the request it answered was forgotten with *)
(* it, and no response to a forgotten request enters the store again.      *)
(***************************************************************************)
OneTimeRuns == {e \in executed : e.basis.kind = "grant" /\ e.basis.one_time}

\* A one-time grant has been consumed for the call in flight.
AboutToRun ==
  pc \in {"execute", "provider"} /\ basis.kind = "grant" /\ basis.one_time

\* A request handed back belongs to a call that is over.
AskedAreOver == \A a \in asked : a.id \in 1..n /\ (pc # "idle" => a.id < n)

StoreAnswersAsked ==
  \A i \in DOMAIN store : \E a \in asked : store[i].response[1] = a.id

SpentNow ==
  AboutToRun =>
    /\ basis.ref \in consumed /\ basis.ref[1] \in 1..(n - 1)
    /\ \A e \in OneTimeRuns : e.basis.ref # basis.ref

SpentBefore ==
  \A e \in OneTimeRuns :
    /\ e.basis.ref[1] \in 1..(n - 1)
    /\ e.basis.ref \in consumed \/ \A a \in asked : a.id # e.basis.ref[1]

OnceInv == AskedAreOver /\ StoreAnswersAsked /\ SpentNow /\ SpentBefore /\ OneTimeOnce

-----------------------------------------------------------------------------
LEMMA OnceInit == Init => OnceInv
BY DEF Init, OnceInv, AskedAreOver, StoreAnswersAsked, SpentNow, SpentBefore,
       OneTimeOnce, OneTimeRuns, AboutToRun

\* A step that touches neither the store nor what was executed keeps the
\* invariant, unless it brings a one-time grant to a call.
LEMMA OnceFrame ==
  ASSUME OnceInv, UNCHANGED <<n, store, consumed, asked, executed>>,
         pc' # "idle" => pc # "idle",
         AboutToRun' => AboutToRun /\ basis' = basis
  PROVE  OnceInv'
BY DEF OnceInv, AskedAreOver, StoreAnswersAsked, SpentNow, SpentBefore,
       OneTimeOnce, OneTimeRuns

LEMMA OnceReceive ==
  ASSUME TypeInv, OnceInv, NEW r \in Requests, Receive(r)
  PROVE  OnceInv'
<1>1. n' = n + 1 /\ n \in Nat /\ ~AboutToRun' /\ UNCHANGED <<store, consumed, asked, executed>>
  BY DEF Receive, heap, TypeInv, LocalsOK, AboutToRun, PolicyBasis
<1>2. AskedAreOver' /\ StoreAnswersAsked' /\ SpentNow'
  BY <1>1 DEF OnceInv, AskedAreOver, StoreAnswersAsked, SpentNow
<1>3. SpentBefore' /\ OneTimeOnce'
  BY <1>1 DEF OnceInv, SpentBefore, OneTimeOnce, OneTimeRuns
<1>. QED  BY <1>2, <1>3 DEF OnceInv

\* find_action_grant returns a grant whose response is not in consumed, and
\* consume puts it there before anything else happens.
LEMMA OnceUseStoredGrant ==
  ASSUME TypeInv, OnceInv, UseStoredGrant
  PROVE  OnceInv'
<1>1. PICK i \in DOMAIN store :
        /\ Reusable(store[i]) \/ store[i].response \notin consumed
        /\ consumed' = IF Reusable(store[i]) THEN consumed
                       ELSE consumed \cup {store[i].response}
        /\ basis' = On("grant", store[i].response, ~Reusable(store[i]))
        /\ EmitThen(n, <<"approval_consumed">>, "execute")
  BY DEF UseStoredGrant, Usable
<1>2. pc = "stored" /\ UNCHANGED <<n, store, asked, executed>>
  BY DEF UseStoredGrant
<1>3. PICK a \in asked : store[i].response[1] = a.id
  BY DEF OnceInv, StoreAnswersAsked
<1>4. n \in Nat /\ a.id \in 1..(n - 1)
  BY <1>2 DEF OnceInv, AskedAreOver, TypeInv, LocalsOK
<1>5. SpentNow'
  <2>1. ASSUME AboutToRun', NEW e \in OneTimeRuns PROVE e.basis.ref # store[i].response
    BY <1>1, <1>3, <2>1 DEF OnceInv, SpentBefore, AboutToRun, On
  <2>. QED
    BY <1>1, <1>2, <1>3, <1>4, <2>1 DEF SpentNow, AboutToRun, OneTimeRuns, On
<1>6. SpentBefore' /\ OneTimeOnce'
  BY <1>1, <1>2 DEF OnceInv, SpentBefore, OneTimeOnce, OneTimeRuns
<1>7. AskedAreOver' /\ StoreAnswersAsked'
  BY <1>2 DEF OnceInv, AskedAreOver, StoreAnswersAsked
<1>. QED  BY <1>5, <1>6, <1>7 DEF OnceInv

\* The request handed back carries the number of the call that ends: no
\* execution so far stands on an answer to it.
LEMMA OnceAskOperator ==
  ASSUME TypeInv, OnceInv, AskOperator
  PROVE  OnceInv'
<1>1. pc = "stored" /\ n \in Calls /\ UNCHANGED <<n, store, consumed, basis, executed>>
  BY DEF AskOperator, TypeInv, LocalsOK
<1>2. CASE UNCHANGED asked
  <2>1. pc' = "idle"
    BY <1>2 DEF AskOperator, AuditRaises, Return
  <2>. QED
    BY <1>1, <1>2, <2>1, OnceFrame DEF AboutToRun
<1>3. CASE asked' = asked \cup {[id |-> n, req |-> req,
                                bind |-> Binding(req, plane.provider),
                                expires |-> clock + ApprovalTtl]}
  <2>1. pc' = "idle"
    BY DEF AskOperator, AuditRaises, Return
  <2>2. AskedAreOver' /\ StoreAnswersAsked' /\ SpentNow'
    BY <1>1, <1>3, <2>1
       DEF OnceInv, AskedAreOver, StoreAnswersAsked, SpentNow, AboutToRun, Calls
  <2>3. SpentBefore' /\ OneTimeOnce'
    BY <1>1, <1>3 DEF OnceInv, SpentBefore, OneTimeOnce, OneTimeRuns, Calls
  <2>. QED  BY <2>2, <2>3 DEF OnceInv
<1>. QED  BY <1>2, <1>3 DEF AskOperator

LEMMA OnceInvokeProvider ==
  ASSUME TypeInv, OnceInv, InvokeProvider
  PROVE  OnceInv'
<1>. DEFINE run == [nth |-> Cardinality(executed) + 1, call |-> n,
                    plane |-> plane.id, req |-> req,
                    provider |-> plane.provider, basis |-> basis]
<1>1. /\ pc = "provider" /\ pc' \notin {"execute", "provider"}
      /\ executed' = executed \cup {run}
      /\ UNCHANGED <<n, store, consumed, asked, basis>>
  BY DEF InvokeProvider, heap, Return
<1>2. run \in OneTimeRuns' => AboutToRun
  BY <1>1 DEF OneTimeRuns, AboutToRun
<1>3. OneTimeRuns' \subseteq OneTimeRuns \cup {run} /\ run.basis = basis
  BY <1>1 DEF OneTimeRuns
<1>4. AskedAreOver' /\ StoreAnswersAsked' /\ SpentNow'
  BY <1>1 DEF OnceInv, AskedAreOver, StoreAnswersAsked, SpentNow, AboutToRun
<1>5. SpentBefore'
  BY <1>1, <1>2, <1>3 DEF OnceInv, SpentBefore, SpentNow
<1>6. OneTimeOnce'
  <2>1. ASSUME NEW e \in OneTimeRuns', NEW f \in OneTimeRuns', e.basis.ref = f.basis.ref
        PROVE  e = f
    BY <1>2, <1>3, <2>1 DEF OnceInv, SpentNow, OneTimeOnce, OneTimeRuns
  <2>. QED  BY <2>1 DEF OneTimeOnce, OneTimeRuns
<1>. QED  BY <1>4, <1>5, <1>6 DEF OnceInv

LEMMA OnceGrant ==
  ASSUME TypeInv, OnceInv, NEW a \in asked, NEW op, NEW scope,
         GrantFromResponse(a, op, scope)
  PROVE  OnceInv'
<1>1. PICK g : store' = Append(store, g) /\ g.response = <<a.id, op>>
  BY DEF GrantFromResponse, AddActionGrant
<1>2. pc = "idle" /\ UNCHANGED <<n, pc, basis, consumed, asked, executed>>
  BY DEF GrantFromResponse
<1>3. StoreAnswersAsked'
  BY <1>1, <1>2 DEF OnceInv, StoreAnswersAsked, TypeInv, StoreOK
<1>4. AskedAreOver' /\ SpentNow' /\ SpentBefore' /\ OneTimeOnce'
  BY <1>2
     DEF OnceInv, AskedAreOver, SpentNow, SpentBefore, OneTimeOnce, OneTimeRuns, AboutToRun
<1>. QED  BY <1>3, <1>4 DEF OnceInv

\* A restart forgets consumed, and with it the store and the requests.
LEMMA OnceRestart ==
  ASSUME TypeInv, OnceInv, Restart
  PROVE  OnceInv'
<1>1. /\ store' = <<>> /\ asked' = {} /\ pc' = "idle"
      /\ UNCHANGED <<n, executed>>
  BY DEF Restart, Return
<1>. QED
  BY <1>1 DEF OnceInv, AskedAreOver, StoreAnswersAsked, SpentNow, SpentBefore,
              OneTimeOnce, OneTimeRuns, AboutToRun

\* The remaining steps: none gives a call a one-time operator grant.
LEMMA OnceOther ==
  ASSUME TypeInv, OnceInv,
         \/ Refuse \/ VerifySignedGrant \/ RequestClearance
         \/ \E a \in Answers : ClearanceAnswered(a)
         \/ StartExecution \/ FinishExecution
         \/ \E p \in Providers : NewControlPlane(p)
         \/ Tick
  PROVE  OnceInv'
<1>1. UNCHANGED <<n, store, consumed, asked, executed>>
  BY DEF Refuse, VerifySignedGrant, RequestClearance, ClearanceAnswered, StartExecution,
         FinishExecution, NewControlPlane, Tick, heap
<1>2. pc' # "idle" => pc # "idle"
  BY DEF Refuse, VerifySignedGrant, RequestClearance, ClearanceAnswered, StartExecution,
         FinishExecution, NewControlPlane, Tick
<1>3. CASE Refuse \/ FinishExecution
  <2>1. pc' = "idle"
    BY <1>3 DEF Refuse, FinishExecution, EmitAndReturn, AuditRaises, Return
  <2>. QED  BY <1>1, <1>2, <2>1, OnceFrame DEF AboutToRun
<1>4. CASE VerifySignedGrant
  <2>1. pc' \notin {"execute", "provider"} \/ basis'.kind = "signed"
    BY <1>4 DEF VerifySignedGrant, EmitThen, AuditRaises, Return, On
  <2>. QED  BY <1>1, <1>2, <2>1, OnceFrame DEF AboutToRun
<1>5. CASE RequestClearance
  <2>1. pc' \notin {"execute", "provider"}
    BY <1>5 DEF RequestClearance, EmitThen, AuditRaises, Return
  <2>. QED  BY <1>1, <1>2, <2>1, OnceFrame DEF AboutToRun
<1>6. ASSUME NEW a \in Answers, ClearanceAnswered(a) PROVE OnceInv'
  <2>1. pc' \notin {"execute", "provider"} \/ basis'.kind = "clearance"
    BY <1>6 DEF ClearanceAnswered, EmitThen, EmitAndReturn, AuditRaises, Return, On
  <2>. QED  BY <1>1, <1>2, <2>1, OnceFrame DEF AboutToRun
<1>7. CASE StartExecution
  <2>1. pc = "execute" /\ basis' = basis
    BY <1>7 DEF StartExecution
  <2>. QED  BY <1>1, <1>2, <2>1, OnceFrame DEF AboutToRun
<1>8. CASE Tick \/ \E p \in Providers : NewControlPlane(p)
  <2>1. pc' = pc /\ basis' = basis
    BY <1>8 DEF Tick, NewControlPlane
  <2>. QED  BY <1>1, <1>2, <2>1, OnceFrame DEF AboutToRun
<1>. QED  BY <1>3, <1>4, <1>5, <1>6, <1>7, <1>8

THEOREM OnceInductive == TypeInv /\ OnceInv /\ [Next]_vars => OnceInv'
<1>. SUFFICES ASSUME TypeInv, OnceInv, [Next]_vars PROVE OnceInv'
  OBVIOUS
<1>1. CASE UNCHANGED vars
  BY <1>1, OnceFrame DEF vars, heap, AboutToRun
<1>2. CASE Next
  BY <1>2, OnceReceive, OnceUseStoredGrant, OnceAskOperator, OnceInvokeProvider,
     OnceGrant, OnceRestart, OnceOther DEF Next, Step
<1>. QED  BY <1>1, <1>2

\* A one-time approval of an operator is spent by at most one provider
\* invocation, over failing audit sinks, ControlPlane objects and restarts.
THEOREM OneTimeOnceHolds == Spec => []OneTimeOnce
<1>1. OnceInv => OneTimeOnce
  BY DEF OnceInv
<1>. QED
  BY <1>1, OnceInit, OnceInductive, TypeInvInvariant, PTL DEF Spec

-----------------------------------------------------------------------------
(***************************************************************************)
(* Every call comes back.                                                  *)
(***************************************************************************)
\* The steps a call has left at most, from where it stands in handle.
StepsLeft(label) ==
  CASE label = "idle" -> 0
    [] label \in {"refuse", "completed", "failed"} -> 1
    [] label = "provider" -> 2
    [] label = "execute" -> 3
    [] label \in {"stored", "waiting"} -> 4
    [] OTHER -> 5
Within(k) == pc # "idle" /\ StepsLeft(pc) <= k

\* Where a call stands, a step of it can be taken; the store's grants are looked
\* through from the first, so one that is usable and none before it is, or none is.
FirstUsable(i) ==
  /\ i \in DOMAIN store /\ Usable(store[i], Binding(req, plane.provider), clock)
  /\ \A j \in 1..(i - 1) : ~Usable(store[j], Binding(req, plane.provider), clock)
CanStep ==
  \/ pc \in {"refuse", "signed", "clearance", "execute", "provider", "completed", "failed"}
  \/ /\ pc = "stored"
     /\ \/ \E i \in DOMAIN store : FirstUsable(i)
        \/ \A i \in DOMAIN store : ~Usable(store[i], Binding(req, plane.provider), clock)
  \/ pc = "waiting" /\ \E a \in Answers : a.status = "denied"

LEMMA NeverStuck == TypeInv /\ pc # "idle" => CanStep
<1> SUFFICES ASSUME TypeInv, pc # "idle"
             PROVE  CanStep
  OBVIOUS
<1>1. pc \in Labels
  BY DEF TypeInv, LocalsOK
<1>2. [status |-> "denied"] \in Answers
  BY DEF Answers
<1>3. CASE pc = "stored"
  <2> DEFINE usable == {i \in DOMAIN store : Usable(store[i], Binding(req, plane.provider), clock)}
  <2>1. DOMAIN store \subseteq Nat /\ \A i \in DOMAIN store : \A j \in 1..(i - 1) : j \in DOMAIN store
    BY DEF TypeInv, StoreOK
  <2>2. CASE usable # {}
    <3>1. PICK i \in usable : \A j \in usable : ~(<<j, i>> \in OpToRel(<, Nat))
      BY <2>1, <2>2, NatLessThanWellFounded, WFMin
    <3>2. \A j \in usable : ~(j < i)
      BY <2>1, <3>1 DEF OpToRel
    <3>3. FirstUsable(i)
      BY <2>1, <3>2 DEF FirstUsable
    <3>. QED
      BY <1>3, <3>3 DEF CanStep
  <2>3. CASE usable = {}
    BY <1>3, <2>3 DEF CanStep
  <2>. QED
    BY <2>2, <2>3
<1>. QED
  BY <1>1, <1>2, <1>3 DEF CanStep, Labels

LEMMA StepDescends == TypeInv /\ Step => StepsLeft(pc') < StepsLeft(pc)
<1> SUFFICES ASSUME TypeInv, Step
             PROVE  StepsLeft(pc') < StepsLeft(pc)
  OBVIOUS
<1> USE DEF EmitThen, EmitAndReturn, AuditRaises, Return, StepsLeft
<1>1. CASE Refuse
  BY <1>1 DEF Refuse
<1>2. CASE VerifySignedGrant
  BY <1>2 DEF VerifySignedGrant
<1>3. CASE UseStoredGrant \/ AskOperator
  BY <1>3 DEF UseStoredGrant, AskOperator
<1>4. CASE RequestClearance
  BY <1>4 DEF RequestClearance
<1>5. CASE \E a \in Answers : ClearanceAnswered(a)
  <2>1. pc = "waiting" /\ pc' \in {"execute", "idle"}
    BY <1>5 DEF ClearanceAnswered
  <2>. QED
    BY <2>1
<1>6. CASE StartExecution \/ InvokeProvider \/ FinishExecution
  BY <1>6 DEF StartExecution, InvokeProvider, FinishExecution
<1>. QED
  BY <1>1, <1>2, <1>3, <1>4, <1>5, <1>6 DEF Step

\* The steps around a call in flight leave it where it is or end it.
LEMMA NobodyHoldsUp == pc # "idle" /\ [Next]_vars => Step \/ pc' = pc \/ pc' = "idle"
BY DEF Next, vars, Receive, GrantFromResponse, NewControlPlane, Restart, Return, Tick

\* A call never goes back: whatever it is answered and whatever fails around it,
\* every step of handle leaves it with fewer, of five at most.
THEOREM CallsDescend ==
  Spec => [][pc # "idle" => pc' = pc \/ StepsLeft(pc') < StepsLeft(pc)]_vars
<1>1. TypeInv /\ pc # "idle" => pc' = pc \/ StepsLeft(pc') < StepsLeft(pc) \/ ~[Next]_vars
  <2> SUFFICES ASSUME TypeInv, pc # "idle", [Next]_vars
               PROVE  pc' = pc \/ StepsLeft(pc') < StepsLeft(pc)
    OBVIOUS
  <2>1. Step \/ pc' = pc \/ pc' = "idle"
    BY NobodyHoldsUp
  <2>2. pc' = "idle" => StepsLeft(pc') < StepsLeft(pc)
    BY DEF StepsLeft
  <2>. QED
    BY <2>1, <2>2, StepDescends
<1>. QED
  BY <1>1, TypeInvInvariant, PTL DEF Spec

\* What ENABLED says of Step: where its guards hold, it can be taken.
StepsAsGuarded == CanStep => ENABLED <<Step>>_vars

\* A call with at most k steps left can take one, after which it has at most j;
\* whatever else happens it keeps at most k.
Descends(k, j) ==
  /\ TypeInv /\ Within(k) => CanStep
  /\ TypeInv /\ Within(k) /\ [Next]_vars => (Within(k) \/ pc = "idle")'
  /\ TypeInv /\ Within(k) /\ <<Step>>_vars => (Within(j) \/ pc = "idle")'

LEMMA CallDescends ==
  ASSUME NEW CONSTANT k \in Nat, NEW CONSTANT j \in Nat, k = j + 1
  PROVE  Descends(k, j)
<1>0. StepsLeft(pc) \in Nat /\ StepsLeft(pc') \in Nat
  BY DEF StepsLeft
<1>1. ASSUME TypeInv, Within(k), [Next]_vars, pc' # "idle"
      PROVE  Within(k)'
  <2>1. pc' = pc \/ StepsLeft(pc') < StepsLeft(pc)
    BY <1>1, NobodyHoldsUp, StepDescends DEF Within
  <2>. QED
    BY <1>0, <1>1, <2>1 DEF Within
<1>2. ASSUME TypeInv, Within(k), Step, pc' # "idle"
      PROVE  Within(j)'
  <2>1. StepsLeft(pc') < StepsLeft(pc)
    BY <1>2, StepDescends
  <2>. QED
    BY <1>0, <1>2, <2>1 DEF Within
<1>3. TypeInv /\ Within(k) => CanStep
  BY NeverStuck DEF Within
<1>. QED
  BY <1>1, <1>2, <1>3 DEF Descends

\* Every call comes back with a result or an exception, when Step is taken fairly:
\* when the tower answers, closes the connection or falls silent, for a silent one
\* is given up after the socket timeout (ACTHTTPClearanceClient.request_clearance).
THEOREM CallsTerminateHolds == FairSpec /\ []StepsAsGuarded => CallsTerminate
<1>1. Descends(5, 4) /\ Descends(4, 3) /\ Descends(3, 2) /\ Descends(2, 1) /\ Descends(1, 0)
  BY CallDescends
<1>2. TypeInv /\ pc # "idle" => Within(5)
  BY DEF TypeInv, LocalsOK, Labels, Within, StepsLeft
<1>3. TypeInv => ~Within(0)
  BY DEF TypeInv, LocalsOK, Labels, Within, StepsLeft
<1>4. FairSpec => []TypeInv
  BY TypeInvInvariant, PTL DEF FairSpec
<1>5. StepsAsGuarded /\ CanStep => ENABLED <<Step>>_vars
  BY DEF StepsAsGuarded
<1>. QED
  BY <1>1, <1>2, <1>3, <1>4, <1>5, PTL DEF CallsTerminate, FairSpec, Spec, Descends
=============================================================================
