------------------------------- MODULE LiveProofs -------------------------------
(***************************************************************************)
(* The live paths.  LiveMutation: its types, a ledger's single use, what    *)
(* is sent was cleared, and only to the pinned peer.  LiveRead: who is sent *)
(* credentials, and what an answer tells of the machine.                    *)
(***************************************************************************)
EXTENDS LiveMutation, LiveRead, SequenceTheorems, TLAPS

\* Handles carry what their response says (HandleFor).
LEMMA HandleFields ==
    ASSUME NEW h \in Handle
    PROVE  h.request \in Requests /\ h.expires \in Nat
<1>1. PICK r \in Responses, given \in {NotGiven} \cup RawParams : h = HandleFor(r, given)
  BY DEF Handle
<1>. QED
  BY <1>1, ExpiryAssumption DEF HandleFor, Requests

LEMMA HandlesType == LiveTypeOK => handles \subseteq Handle
BY DEF LiveTypeOK, handles, Handle, Issuance

\* A request leaves the machine a machine (Effect).
LEMMA EffectIsMachine ==
    ASSUME NEW verb \in Verb, NEW m \in Machine
    PROVE  Effect(verb, m) \in Machine
<1>1. \/ verb.capability \in PiKVMOperations
      \/ verb.capability = "boot.override" /\ verb.params \in AskedTargets
  BY DEF Verb, Verbs
<1>2. CASE verb.capability \in PiKVMOperations
  BY <1>2 DEF PiKVMOperations, Effect, Machine
<1>3. CASE verb.capability = "boot.override" /\ verb.params \in AskedTargets
  BY <1>3 DEF Effect, Machine
<1>. QED
  BY <1>1, <1>2, <1>3

\* The record of a request on the wire is well formed (SentBy).
LEMMA SentByType ==
    ASSUME LiveTypeOK, NEW c \in Callers, call[c] \in Call, NEW acted \in BOOLEAN
    PROVE  SentBy(c, acted) \in SentRequest
<1>1. call[c].transport \in Transports /\ call[c].handle \in Handle
      /\ call[c].verb \in Verb /\ call[c].peer \in Certs /\ call[c].checked \in Nat
  BY DEF Call
<1>2. call[c].handle.request \in Requests /\ call[c].handle.expires \in Nat
  BY <1>1, HandleFields
<1>3. LedgerOf(call[c].transport) \in Ledgers
  BY <1>1, LedgerAssumption DEF LedgerOf
<1>. QED
  BY <1>1, <1>2, <1>3 DEF SentBy, SentRequest, LiveTypeOK

LEMMA InitType == LiveInit => LiveTypeOK
BY PinAssumption DEF LiveInit, LiveTypeOK, Machine

\* A call that passes the gates stores its arguments
\* (require_verified_mutation_clearance).
LEMMA CallVerbType ==
    ASSUME LiveTypeOK, NEW c \in Callers, NEW t \in Transports,
           NEW h \in handles \cup {NotAHandle},
           NEW verb \in Verbs(TransportOf[t].kind), CallVerb(c, t, verb, h)
    PROVE  LiveTypeOK'
<1>1. verb \in Verb
  BY DEF Verb
<1>2. CASE Acceptable(verb) /\ Cleared(h, t, verb)
  <2>1. h \in Handle /\ h.request \in Requests
    BY <1>2, HandleFields, HandlesType DEF Cleared
  <2>2. [transport |-> t, verb |-> verb, handle |-> h, checked |-> clock,
         peer |-> Pin] \in Call
    BY <1>1, <2>1, PinAssumption DEF Call, LiveTypeOK
  <2>3. Spent(LedgerOf(t), h.request) \in [ledger : Ledgers, epoch : Nat, request : Requests]
    BY <2>1, LedgerAssumption DEF Spent, LedgerOf, LiveTypeOK
  <2>. QED
    BY <1>2, <2>2, <2>3 DEF CallVerb, LiveTypeOK
<1>3. CASE ~(Acceptable(verb) /\ Cleared(h, t, verb))
  BY <1>3 DEF CallVerb, LiveTypeOK
<1>. QED
  BY <1>2, <1>3

\* Each step of a call keeps the types (BuildClient to Answer).
LEMMA CallStepType ==
    ASSUME LiveTypeOK, NEW c \in Callers, CallStep(c)
    PROVE  LiveTypeOK'
<1>0. CASE Consume(c)
  <2>1. call[c].transport \in Transports /\ call[c].handle.request \in Requests
    BY <1>0, HandleFields DEF Consume, LiveTypeOK, Call
  <2>2. consumed' \in [Ledgers -> SUBSET Requests]
    BY <1>0, <2>1, LedgerAssumption DEF Consume, LedgerOf, LiveTypeOK
  <2>. QED
    BY <1>0, <2>2 DEF Consume, LiveTypeOK
<1>1. CASE BuildClient(c)
  BY <1>1 DEF BuildClient, EndCall, LiveTypeOK
<1>2. CASE Connect(c)
  <2>1. call[c] \in Call
    BY <1>2 DEF Connect, LiveTypeOK
  <2>2. [call[c] EXCEPT !.checked = clock, !.peer = cert] \in Call
    BY <2>1 DEF Call, LiveTypeOK
  <2>3. CASE EndCall(c)
    BY <1>2, <2>3 DEF Connect, EndCall, LiveTypeOK
  <2>4. CASE /\ call' = [call EXCEPT ![c].checked = clock, ![c].peer = cert]
             /\ pc' = [pc EXCEPT ![c] = "connected"]
    <3>1. call' = [call EXCEPT ![c] = [call[c] EXCEPT !.checked = clock, !.peer = cert]]
      BY <2>1, <2>4 DEF Call, LiveTypeOK
    <3>. QED
      BY <1>2, <2>2, <2>4, <3>1 DEF Connect, LiveTypeOK
  <2>. QED
    BY <1>2, <2>3, <2>4 DEF Connect
<1>3. CASE Send(c)
  <2>1. CASE call[c].peer = Pin
    <3>1. call[c] \in Call
      BY <1>3 DEF Send, LiveTypeOK
    <3>2. PICK acted \in BOOLEAN :
             /\ sent' = Append(sent, SentBy(c, acted))
             /\ machine' = IF acted THEN Effect(call[c].verb, machine) ELSE machine
      BY <1>3, <2>1 DEF Send
    <3>3. sent' \in Seq(SentRequest)
      BY <3>1, <3>2, SentByType DEF LiveTypeOK
    <3>4. machine' \in Machine
      BY <3>1, <3>2, EffectIsMachine DEF Call, LiveTypeOK
    <3>. QED
      BY <1>3, <2>1, <3>3, <3>4 DEF Send, LiveTypeOK
  <2>2. CASE call[c].peer # Pin
    BY <1>3, <2>2 DEF Send, EndCall, LiveTypeOK
  <2>. QED
    BY <2>1, <2>2
<1>4. CASE Answer(c)
  BY <1>4 DEF Answer, EndCall, LiveTypeOK
<1>. QED
  BY <1>0, <1>1, <1>2, <1>3, <1>4 DEF CallStep

\* Every step keeps the types.
LEMMA NextType == LiveTypeOK /\ [LiveNext]_liveVars => LiveTypeOK'
<1>. SUFFICES ASSUME LiveTypeOK, [LiveNext]_liveVars PROVE LiveTypeOK'
  OBVIOUS
<1>1. ASSUME NEW t \in Transports, BuildTransport(t) PROVE LiveTypeOK'
  BY <1>1 DEF BuildTransport, LiveTypeOK
<1>2. ASSUME NEW r \in Responses, NEW given \in {NotGiven} \cup RawParams,
             IssueClearance(r, given)
      PROVE  LiveTypeOK'
  BY <1>2 DEF IssueClearance, LiveTypeOK, Issuance
<1>3. CASE Tick
  BY <1>3 DEF Tick, LiveTypeOK
<1>4. CASE ReplacePeer
  BY <1>4 DEF ReplacePeer, LiveTypeOK
<1>5. CASE Restart
  BY <1>5 DEF Restart, LiveTypeOK
<1>6. CASE UNCHANGED liveVars
  BY <1>6 DEF liveVars, LiveTypeOK
<1>. QED
  BY <1>1, <1>2, <1>3, <1>4, <1>5, <1>6, CallVerbType, CallStepType DEF LiveNext

\* Every variable keeps the shape the code gives it (LiveTypeOK).
THEOREM LiveTypeCorrect == LiveSpec => []LiveTypeOK
BY InitType, NextType, PTL DEF LiveSpec

-------------------------------------------------------------------------------
(* One use per ledger.                                                        *)

Past == {"cleared", "client", "connected"}
InFlight == {"tested"} \cup Past
LedgerNow(c) == LedgerOf(call[c].transport)
RequestNow(c) == call[c].handle.request
Alike(i, c) ==
    sent[i].epoch = epoch /\ sent[i].ledger = LedgerNow(c) /\ sent[i].request = RequestNow(c)

\* The strengthening: what was sent in this process is consumed, and so is what
\* a call holds past the look-up.  A call does not hold what its caller sent, and
\* where two callers hold or have sent the same request their look-ups overlapped.
SentIsPast == \A i \in DOMAIN sent : sent[i].epoch <= epoch
SentIsConsumed ==
    \A i \in DOMAIN sent :
        sent[i].epoch = epoch => sent[i].request \in consumed[sent[i].ledger]
FlightIsConsumed ==
    \A c \in Callers : pc[c] \in Past => RequestNow(c) \in consumed[LedgerNow(c)]
FlightIsUnsent ==
    \A c \in Callers : \A i \in DOMAIN sent :
        pc[c] \in InFlight /\ Alike(i, c) =>
            /\ sent[i].caller # c
            /\ Spent(LedgerNow(c), RequestNow(c)) \in overlapped
FlightsDiffer ==
    \A c, d \in Callers :
        /\ c # d /\ pc[c] \in InFlight /\ pc[d] \in InFlight
        /\ LedgerNow(c) = LedgerNow(d) /\ RequestNow(c) = RequestNow(d)
        => Spent(LedgerNow(c), RequestNow(c)) \in overlapped
OnceInv == /\ SentIsPast /\ SentIsConsumed /\ FlightIsConsumed /\ FlightIsUnsent
           /\ FlightsDiffer /\ OncePerLedger

LEMMA OnceInit == LiveInit => OnceInv
BY DEF LiveInit, OnceInv, SentIsPast, SentIsConsumed, FlightIsConsumed,
       FlightIsUnsent, FlightsDiffer, OncePerLedger, InFlight, Past

\* Whatever was sent is a sent request.
LEMMA SentElements ==
    ASSUME LiveTypeOK
    PROVE  \A i \in DOMAIN sent : sent[i] \in SentRequest
<1>1. sent \in Seq(SentRequest)
  BY DEF LiveTypeOK
<1>. QED
  BY <1>1

\* A step that sends nothing, restarts nothing, leaves the ledgers alone and lets
\* calls only leave the flight keeps the invariant.
LEMMA OnceQuiet ==
    ASSUME LiveTypeOK, OnceInv, sent' = sent, epoch' = epoch, consumed' = consumed,
           overlapped' = overlapped,
           \A c \in Callers : pc'[c] \in InFlight =>
               /\ pc[c] \in InFlight
               /\ pc'[c] \in Past => pc[c] \in Past
               /\ call'[c].transport = call[c].transport
               /\ call'[c].handle = call[c].handle
    PROVE  OnceInv'
<1>1. \A c \in Callers : pc'[c] \in InFlight =>
        LedgerNow(c)' = LedgerNow(c) /\ RequestNow(c)' = RequestNow(c)
  BY DEF LedgerNow, RequestNow, LedgerOf
<1>2. SentIsPast' /\ SentIsConsumed' /\ OncePerLedger'
  BY DEF OnceInv, SentIsPast, SentIsConsumed, OncePerLedger
<1>3. FlightIsConsumed'
  BY <1>1 DEF OnceInv, FlightIsConsumed, InFlight
<1>4. FlightIsUnsent'
  BY <1>1 DEF OnceInv, FlightIsUnsent, Alike, Spent
<1>5. FlightsDiffer'
  BY <1>1 DEF OnceInv, FlightsDiffer, Spent
<1>. QED
  BY <1>2, <1>3, <1>4, <1>5 DEF OnceInv

\* A call that finds its request unused shares it with callers between look-up and
\* addition at most, and remembers that it does.
LEMMA OnceClears ==
    ASSUME LiveTypeOK, LiveTypeOK', OnceInv, NEW c \in Callers, NEW t \in Transports,
           NEW h, NEW verb, CallVerb(c, t, verb, h),
           Acceptable(verb) /\ Cleared(h, t, verb)
    PROVE  OnceInv'
<1>1. /\ sent' = sent /\ epoch' = epoch /\ consumed' = consumed
      /\ overlapped' = IF Between(LedgerOf(t), h.request) = {} THEN overlapped
                       ELSE overlapped \cup {Spent(LedgerOf(t), h.request)}
      /\ call' = [call EXCEPT ![c] = [transport |-> t, verb |-> verb, handle |-> h,
                                      checked |-> clock, peer |-> Pin]]
      /\ pc' = [pc EXCEPT ![c] = "tested"] /\ pc[c] = "idle"
      /\ h.request \notin consumed[LedgerOf(t)]
  BY DEF CallVerb, Cleared
<1>2. /\ LedgerNow(c)' = LedgerOf(t) /\ RequestNow(c)' = h.request
      /\ pc'[c] = "tested" /\ pc'[c] \notin Past
  BY <1>1 DEF LiveTypeOK, LedgerNow, RequestNow, LedgerOf, Past
<1>3. \A d \in Callers : d # c =>
         pc'[d] = pc[d] /\ LedgerNow(d)' = LedgerNow(d) /\ RequestNow(d)' = RequestNow(d)
  BY <1>1 DEF LiveTypeOK, LedgerNow, RequestNow, LedgerOf
<1>4. overlapped \subseteq overlapped'
  BY <1>1
<1>5. ASSUME NEW d \in Callers, d # c, pc[d] \in InFlight,
             LedgerNow(d) = LedgerOf(t), RequestNow(d) = h.request
      PROVE  Spent(LedgerOf(t), h.request) \in overlapped'
  <2>1. pc[d] = "tested"
    BY <1>1, <1>5 DEF OnceInv, FlightIsConsumed, InFlight
  <2>2. d \in Between(LedgerOf(t), h.request)
    BY <1>5, <2>1 DEF Between, LedgerNow, RequestNow
  <2>. QED
    BY <1>1, <2>2
<1>6. SentIsPast' /\ SentIsConsumed'
  BY <1>1 DEF OnceInv, SentIsPast, SentIsConsumed
<1>7. FlightIsConsumed'
  BY <1>1, <1>2, <1>3 DEF OnceInv, FlightIsConsumed
<1>8. FlightIsUnsent'
  <2>. SUFFICES ASSUME NEW d \in Callers, NEW i \in DOMAIN sent, pc'[d] \in InFlight,
                       Alike(i, d)'
                PROVE  /\ sent[i].caller # d
                       /\ Spent(LedgerNow(d), RequestNow(d))' \in overlapped'
    BY <1>1 DEF FlightIsUnsent
  <2>1. CASE d = c
    BY <1>1, <1>2, <2>1 DEF OnceInv, SentIsConsumed, Alike
  <2>2. CASE d # c
    <3>1. pc[d] \in InFlight /\ Alike(i, d)
      BY <1>1, <1>3, <2>2 DEF Alike
    <3>2. Spent(LedgerNow(d), RequestNow(d))' = Spent(LedgerNow(d), RequestNow(d))
      BY <1>1, <1>3, <2>2 DEF Spent
    <3>. QED
      BY <1>4, <3>1, <3>2 DEF OnceInv, FlightIsUnsent
  <2>. QED
    BY <2>1, <2>2
<1>9. FlightsDiffer'
  <2>. SUFFICES ASSUME NEW d \in Callers, NEW e \in Callers, d # e,
                       pc'[d] \in InFlight, pc'[e] \in InFlight,
                       LedgerNow(d)' = LedgerNow(e)', RequestNow(d)' = RequestNow(e)'
                PROVE  Spent(LedgerNow(d), RequestNow(d))' \in overlapped'
    BY DEF FlightsDiffer
  <2>1. CASE d # c /\ e # c
    <3>1. Spent(LedgerNow(d), RequestNow(d)) \in overlapped
      BY <1>3, <2>1 DEF OnceInv, FlightsDiffer
    <3>2. Spent(LedgerNow(d), RequestNow(d))' = Spent(LedgerNow(d), RequestNow(d))
      BY <1>1, <1>3, <2>1 DEF Spent
    <3>. QED
      BY <1>4, <3>1, <3>2
  <2>2. CASE d = c \/ e = c
    <3>1. Spent(LedgerOf(t), h.request) \in overlapped'
      BY <1>2, <1>3, <1>5, <2>2
    <3>2. LedgerNow(d)' = LedgerOf(t) /\ RequestNow(d)' = h.request
      BY <1>2, <2>2
    <3>. QED
      BY <1>1, <3>1, <3>2 DEF Spent
  <2>. QED
    BY <2>1, <2>2
<1>10. OncePerLedger'
  BY <1>1, <1>4 DEF OnceInv, OncePerLedger
<1>. QED
  BY <1>6, <1>7, <1>8, <1>9, <1>10 DEF OnceInv

\* The addition makes a tested call a consumed one.
LEMMA OnceConsumes ==
    ASSUME LiveTypeOK, OnceInv, NEW c \in Callers, Consume(c)
    PROVE  OnceInv'
<1>1. /\ sent' = sent /\ epoch' = epoch /\ call' = call /\ overlapped' = overlapped
      /\ consumed' = [consumed EXCEPT ![LedgerNow(c)] = @ \cup {RequestNow(c)}]
      /\ pc[c] = "tested" /\ pc' = [pc EXCEPT ![c] = "cleared"]
  BY DEF Consume, LedgerNow, RequestNow
<1>2. \A d \in Callers : LedgerNow(d)' = LedgerNow(d) /\ RequestNow(d)' = RequestNow(d)
  BY <1>1 DEF LedgerNow, RequestNow, LedgerOf
<1>3. LedgerNow(c) \in Ledgers
  BY <1>1, LedgerAssumption DEF LedgerNow, LedgerOf, LiveTypeOK, Call
<1>4. \A l \in Ledgers : consumed[l] \subseteq consumed'[l]
  BY <1>1 DEF LiveTypeOK
<1>5. \A d \in Callers : pc'[d] \in InFlight => pc[d] \in InFlight
  BY <1>1 DEF LiveTypeOK, InFlight
<1>6. \A d \in Callers : pc'[d] \in Past => d = c \/ pc[d] \in Past
  BY <1>1 DEF LiveTypeOK
<1>7. \A i \in DOMAIN sent : sent[i].ledger \in Ledgers
  BY SentElements DEF SentRequest
<1>8. SentIsPast' /\ SentIsConsumed' /\ OncePerLedger'
  BY <1>1, <1>4, <1>7 DEF OnceInv, SentIsPast, SentIsConsumed, OncePerLedger
<1>9. FlightIsConsumed'
  <2>1. RequestNow(c) \in consumed'[LedgerNow(c)]
    BY <1>1, <1>3 DEF LiveTypeOK
  <2>2. \A d \in Callers : pc[d] \in Past => LedgerNow(d) \in Ledgers
    BY LedgerAssumption DEF LiveTypeOK, Past, LedgerNow, LedgerOf, Call
  <2>. QED
    BY <1>2, <1>4, <1>6, <2>1, <2>2 DEF OnceInv, FlightIsConsumed
<1>10. FlightIsUnsent' /\ FlightsDiffer'
  BY <1>1, <1>2, <1>5 DEF OnceInv, FlightIsUnsent, FlightsDiffer, Alike, Spent
<1>. QED
  BY <1>8, <1>9, <1>10 DEF OnceInv

\* Sending moves a request from the flight to what was sent.
LEMMA OnceSends ==
    ASSUME LiveTypeOK, OnceInv, NEW c \in Callers, Send(c), call[c].peer = Pin
    PROVE  OnceInv'
<1>1. PICK acted \in BOOLEAN : sent' = Append(sent, SentBy(c, acted))
  BY DEF Send
<1>2. /\ pc[c] = "connected" /\ pc' = [pc EXCEPT ![c] = "sent"]
      /\ call' = [call EXCEPT ![c] = NotAHandle]
      /\ epoch' = epoch /\ consumed' = consumed /\ overlapped' = overlapped
  BY DEF Send
<1>3. /\ DOMAIN sent' = 1..(Len(sent) + 1) /\ DOMAIN sent = 1..Len(sent)
      /\ \A i \in 1..Len(sent) : sent'[i] = sent[i]
      /\ sent'[Len(sent) + 1] = SentBy(c, acted)
      /\ Len(sent) \in Nat
  BY <1>1 DEF LiveTypeOK
<1>4. /\ SentBy(c, acted).epoch = epoch /\ SentBy(c, acted).ledger = LedgerNow(c)
      /\ SentBy(c, acted).request = RequestNow(c) /\ SentBy(c, acted).caller = c
  BY DEF SentBy, LedgerNow, RequestNow
<1>5. pc[c] \in InFlight /\ pc[c] \in Past /\ pc'[c] \notin InFlight
  BY <1>2 DEF InFlight, Past, LiveTypeOK
<1>6. \A d \in Callers : d # c =>
         pc'[d] = pc[d] /\ LedgerNow(d)' = LedgerNow(d) /\ RequestNow(d)' = RequestNow(d)
  BY <1>2 DEF LiveTypeOK, LedgerNow, RequestNow, LedgerOf
<1>7. SentIsPast'
  BY <1>2, <1>3, <1>4 DEF OnceInv, SentIsPast, LiveTypeOK
<1>8. SentIsConsumed'
  BY <1>2, <1>3, <1>4, <1>5 DEF OnceInv, SentIsConsumed, FlightIsConsumed
<1>9. FlightIsConsumed'
  BY <1>2, <1>5, <1>6 DEF OnceInv, FlightIsConsumed, InFlight
<1>10. FlightIsUnsent'
  <2>. SUFFICES ASSUME NEW d \in Callers, NEW i \in DOMAIN sent', pc'[d] \in InFlight,
                       Alike(i, d)'
                PROVE  /\ sent'[i].caller # d
                       /\ Spent(LedgerNow(d), RequestNow(d))' \in overlapped'
    BY DEF FlightIsUnsent
  <2>1. d # c /\ pc[d] \in InFlight
    BY <1>5, <1>6
  <2>2. /\ Spent(LedgerNow(d), RequestNow(d))' = Spent(LedgerNow(d), RequestNow(d))
        /\ sent'[i].epoch = epoch /\ sent'[i].ledger = LedgerNow(d)
        /\ sent'[i].request = RequestNow(d)
    BY <1>2, <1>6, <2>1 DEF Spent, Alike
  <2>3. CASE i \in 1..Len(sent)
    <3>1. Alike(i, d) /\ i \in DOMAIN sent
      BY <1>3, <2>2, <2>3 DEF Alike
    <3>. QED
      BY <1>2, <1>3, <2>1, <2>2, <2>3, <3>1 DEF OnceInv, FlightIsUnsent
  <2>4. CASE i = Len(sent) + 1
    <3>1. LedgerNow(c) = LedgerNow(d) /\ RequestNow(c) = RequestNow(d)
      BY <1>3, <1>4, <2>2, <2>4
    <3>. QED
      BY <1>2, <1>3, <1>4, <1>5, <2>1, <2>2, <2>4, <3>1 DEF OnceInv, FlightsDiffer
  <2>. QED
    BY <1>3, <2>3, <2>4
<1>11. FlightsDiffer'
  BY <1>2, <1>5, <1>6 DEF OnceInv, FlightsDiffer, Spent
<1>12. OncePerLedger'
  <2>1. \A i \in DOMAIN sent :
           Alike(i, c) => /\ sent[i].caller # c
                          /\ Spent(LedgerNow(c), RequestNow(c)) \in overlapped
    BY <1>5 DEF OnceInv, FlightIsUnsent
  <2>. QED
    BY <1>2, <1>3, <1>4, <2>1 DEF OnceInv, OncePerLedger, Alike, Spent
<1>. QED
  BY <1>7, <1>8, <1>9, <1>10, <1>11, <1>12 DEF OnceInv

\* A new process has an empty ledger and a later epoch.
LEMMA OnceRestarts ==
    ASSUME LiveTypeOK, OnceInv, Restart
    PROVE  OnceInv'
<1>1. /\ sent' = sent /\ overlapped' = overlapped /\ epoch' = epoch + 1 /\ epoch \in Nat
      /\ \A c \in Callers : pc'[c] \notin InFlight /\ pc'[c] \notin Past
  BY DEF Restart, LiveTypeOK, InFlight, Past
<1>2. \A i \in DOMAIN sent : sent[i].epoch \in Nat /\ sent[i].epoch < epoch'
  <2>1. \A i \in DOMAIN sent : sent[i].epoch \in Nat
    BY SentElements DEF SentRequest
  <2>. QED
    BY <1>1, <2>1 DEF OnceInv, SentIsPast
<1>. QED
  BY <1>1, <1>2 DEF OnceInv, SentIsPast, SentIsConsumed, FlightIsConsumed,
     FlightIsUnsent, FlightsDiffer, OncePerLedger

LEMMA OnceNext == LiveTypeOK /\ LiveTypeOK' /\ OnceInv /\ [LiveNext]_liveVars => OnceInv'
<1>. SUFFICES ASSUME LiveTypeOK, LiveTypeOK', OnceInv, [LiveNext]_liveVars
              PROVE  OnceInv'
  OBVIOUS
<1>1. ASSUME NEW t \in Transports, BuildTransport(t) PROVE OnceInv'
  BY <1>1, OnceQuiet DEF BuildTransport
<1>2. ASSUME NEW r \in Responses, NEW given \in {NotGiven} \cup RawParams,
             IssueClearance(r, given)
      PROVE  OnceInv'
  BY <1>2, OnceQuiet DEF IssueClearance
<1>3. ASSUME NEW c \in Callers, NEW t \in Transports, NEW h, NEW verb,
             CallVerb(c, t, verb, h)
      PROVE  OnceInv'
  <2>1. CASE Acceptable(verb) /\ Cleared(h, t, verb)
    BY <1>3, <2>1, OnceClears
  <2>2. CASE ~(Acceptable(verb) /\ Cleared(h, t, verb))
    BY <1>3, <2>2, OnceQuiet DEF CallVerb
  <2>. QED
    BY <2>1, <2>2
<1>4. ASSUME NEW c \in Callers, CallStep(c) PROVE OnceInv'
  <2>0. CASE Consume(c)
    BY <2>0, OnceConsumes
  <2>1. CASE BuildClient(c)
    <3>1. CASE EndCall(c)
      BY <2>1, <3>1, OnceQuiet DEF BuildClient, EndCall, LiveTypeOK, InFlight, Past
    <3>2. CASE pc' = [pc EXCEPT ![c] = "client"] /\ UNCHANGED call
      BY <2>1, <3>2, OnceQuiet DEF BuildClient, LiveTypeOK, InFlight, Past
    <3>. QED
      BY <2>1, <3>1, <3>2 DEF BuildClient
  <2>2. CASE Connect(c)
    <3>1. CASE EndCall(c)
      BY <2>2, <3>1, OnceQuiet DEF Connect, EndCall, LiveTypeOK, InFlight, Past
    <3>2. CASE /\ call' = [call EXCEPT ![c].checked = clock, ![c].peer = cert]
               /\ pc' = [pc EXCEPT ![c] = "connected"]
      <4>1. pc[c] \in InFlight /\ pc[c] \in Past /\ call[c] \in Call
        BY <2>2 DEF Connect, InFlight, Past, LiveTypeOK
      <4>2. call'[c].transport = call[c].transport /\ call'[c].handle = call[c].handle
        BY <3>2, <4>1 DEF LiveTypeOK, Call
      <4>3. \A d \in Callers : d # c => call'[d] = call[d] /\ pc'[d] = pc[d]
        BY <3>2 DEF LiveTypeOK
      <4>. QED
        BY <2>2, <4>1, <4>2, <4>3, OnceQuiet DEF Connect
    <3>. QED
      BY <2>2, <3>1, <3>2 DEF Connect
  <2>3. CASE Send(c)
    <3>1. CASE call[c].peer = Pin
      BY <2>3, <3>1, OnceSends
    <3>2. CASE call[c].peer # Pin
      BY <2>3, <3>2, OnceQuiet DEF Send, EndCall, LiveTypeOK, InFlight, Past
    <3>. QED
      BY <3>1, <3>2
  <2>4. CASE Answer(c)
    BY <2>4, OnceQuiet DEF Answer, EndCall, LiveTypeOK, InFlight, Past
  <2>. QED
    BY <1>4, <2>0, <2>1, <2>2, <2>3, <2>4 DEF CallStep
<1>5. CASE Tick
  BY <1>5, OnceQuiet DEF Tick
<1>6. CASE ReplacePeer
  BY <1>6, OnceQuiet DEF ReplacePeer
<1>7. CASE Restart
  BY <1>7, OnceRestarts
<1>8. CASE UNCHANGED liveVars
  BY <1>8, OnceQuiet DEF liveVars
<1>. QED
  BY <1>1, <1>2, <1>3, <1>4, <1>5, <1>6, <1>7, <1>8 DEF LiveNext

\* In one process and ledger a caller sends a request id once, and another caller
\* sends it too only if their look-ups overlapped (OncePerLedger).
THEOREM LedgerIsSingleUse == LiveSpec => []OncePerLedger
<1>1. OnceInv => OncePerLedger
  BY DEF OnceInv
<1>. QED
  BY <1>1, OnceInit, OnceNext, LiveTypeCorrect, PTL DEF LiveSpec

-------------------------------------------------------------------------------
(* What is sent was cleared, and only to the pinned peer.                     *)

Sound(r) == ResponseOf[r].valid /\ ResponseOf[r].complete
BoundPrint(e) == IF e.given = NotGiven THEN ResponseOf[e.response].fp ELSE e.given

\* The strengthening: every issuance is from a sound response, and a call in
\* flight is for what an issuance of this process bound, checked in time once
\* connected.
IssuedSound == \A e \in issued : Sound(e.response)
Clears(e, request, verb, target, provider, expires) ==
    /\ request = ResponseOf[e.response].request
    /\ verb.capability = ResponseOf[e.response].capability
    /\ verb.params = BoundPrint(e)
    /\ target = ResponseOf[e.response].target
    /\ provider = ResponseOf[e.response].provider
    /\ expires = ResponseOf[e.response].expires
FlightCleared ==
    \A c \in Callers : pc[c] \in InFlight => \E e \in issued :
        /\ e.epoch = epoch
        /\ Clears(e, call[c].handle.request, call[c].verb,
                  TransportOf[call[c].transport].target,
                  TransportOf[call[c].transport].provider, call[c].handle.expires)
ConnectedInTime ==
    \A c \in Callers : pc[c] = "connected" => call[c].checked < call[c].handle.expires
ClearedInv == IssuedSound /\ FlightCleared /\ ConnectedInTime /\ SentAsCleared

LEMMA ClearedInit == LiveInit => ClearedInv
BY DEF LiveInit, ClearedInv, IssuedSound, FlightCleared, ConnectedInTime,
       SentAsCleared, InFlight, Past

\* A step that sends nothing, issues nothing and lets calls only leave the
\* flight, or stay in it unchecked, keeps the invariant.
LEMMA ClearedQuiet ==
    ASSUME LiveTypeOK, ClearedInv, sent' = sent, issued' = issued,
           \A c \in Callers : pc'[c] \in InFlight =>
               /\ epoch' = epoch
               /\ pc[c] \in InFlight
               /\ call'[c].transport = call[c].transport
               /\ call'[c].handle = call[c].handle
               /\ call'[c].verb = call[c].verb
               /\ pc'[c] = "connected" => call'[c].checked < call'[c].handle.expires
    PROVE  ClearedInv'
<1>1. IssuedSound'
  BY DEF ClearedInv, IssuedSound, Sound
<1>2. FlightCleared'
  BY DEF ClearedInv, FlightCleared, Clears, BoundPrint
<1>3. ConnectedInTime'
  BY DEF ConnectedInTime, InFlight, Past
<1>4. SentAsCleared'
  BY DEF ClearedInv, SentAsCleared
<1>. QED
  BY <1>1, <1>2, <1>3, <1>4 DEF ClearedInv

\* A call that passes the gates is for what the issuance of its handle bound.
LEMMA ClearedClears ==
    ASSUME LiveTypeOK, ClearedInv, NEW c \in Callers, NEW t \in Transports, NEW h,
           NEW verb \in Verbs(TransportOf[t].kind), h \in handles \cup {NotAHandle},
           CallVerb(c, t, verb, h), Acceptable(verb) /\ Cleared(h, t, verb)
    PROVE  ClearedInv'
<1>1. /\ sent' = sent /\ issued' = issued /\ epoch' = epoch /\ h \in handles
      /\ call' = [call EXCEPT ![c] = [transport |-> t, verb |-> verb, handle |-> h,
                                      checked |-> clock, peer |-> Pin]]
      /\ pc' = [pc EXCEPT ![c] = "tested"]
  BY DEF CallVerb, Cleared
<1>2. PICK e \in issued : e.epoch = epoch /\ h = HandleFor(e.response, e.given)
  BY <1>1 DEF handles
<1>3. Clears(e, h.request, verb, TransportOf[t].target, TransportOf[t].provider,
             h.expires)
  BY <1>2 DEF Cleared, HandleFor, Clears, BoundPrint
<1>4. IssuedSound'
  BY <1>1 DEF ClearedInv, IssuedSound, Sound
<1>5. FlightCleared'
  <2>. SUFFICES ASSUME NEW d \in Callers, pc'[d] \in InFlight
                PROVE  \E x \in issued :
                          /\ x.epoch = epoch
                          /\ Clears(x, call'[d].handle.request, call'[d].verb,
                                    TransportOf[call'[d].transport].target,
                                    TransportOf[call'[d].transport].provider,
                                    call'[d].handle.expires)
    BY <1>1 DEF FlightCleared, Clears, BoundPrint
  <2>1. CASE d = c
    BY <1>1, <1>2, <1>3, <2>1 DEF LiveTypeOK
  <2>2. CASE d # c
    BY <1>1, <2>2 DEF LiveTypeOK, ClearedInv, FlightCleared
  <2>. QED
    BY <2>1, <2>2
<1>6. ConnectedInTime'
  BY <1>1 DEF LiveTypeOK, ClearedInv, ConnectedInTime
<1>7. SentAsCleared'
  BY <1>1 DEF ClearedInv, SentAsCleared
<1>. QED
  BY <1>4, <1>5, <1>6, <1>7 DEF ClearedInv

\* A request is sent as its call was cleared.
LEMMA ClearedSends ==
    ASSUME LiveTypeOK, ClearedInv, NEW c \in Callers, Send(c), call[c].peer = Pin
    PROVE  ClearedInv'
<1>1. PICK acted \in BOOLEAN : sent' = Append(sent, SentBy(c, acted))
  BY DEF Send
<1>2. /\ pc[c] = "connected" /\ pc' = [pc EXCEPT ![c] = "sent"]
      /\ call' = [call EXCEPT ![c] = NotAHandle]
      /\ issued' = issued /\ epoch' = epoch
  BY DEF Send
<1>3. /\ DOMAIN sent' = 1..(Len(sent) + 1) /\ DOMAIN sent = 1..Len(sent)
      /\ \A i \in 1..Len(sent) : sent'[i] = sent[i]
      /\ sent'[Len(sent) + 1] = SentBy(c, acted)
      /\ Len(sent) \in Nat
  BY <1>1 DEF LiveTypeOK
<1>4. PICK e \in issued :
         /\ e.epoch = epoch
         /\ Clears(e, call[c].handle.request, call[c].verb,
                   TransportOf[call[c].transport].target,
                   TransportOf[call[c].transport].provider, call[c].handle.expires)
  BY <1>2 DEF ClearedInv, FlightCleared, InFlight, Past
<1>5. call[c].checked < call[c].handle.expires
  BY <1>2 DEF ClearedInv, ConnectedInTime
<1>6. SentAsCleared'
  <2>. SUFFICES ASSUME NEW i \in DOMAIN sent'
                PROVE  \E x \in issued :
                         LET r == ResponseOf[x.response] IN
                         /\ r.valid /\ r.complete /\ x.epoch = sent'[i].epoch
                         /\ sent'[i].request = r.request
                         /\ sent'[i].verb.capability = r.capability
                         /\ sent'[i].verb.params = IF x.given = NotGiven THEN r.fp ELSE x.given
                         /\ sent'[i].target = r.target /\ sent'[i].provider = r.provider
                         /\ sent'[i].checked < r.expires
    BY <1>2 DEF SentAsCleared
  <2>1. CASE i \in 1..Len(sent)
    BY <1>3, <2>1 DEF ClearedInv, SentAsCleared
  <2>2. CASE i = Len(sent) + 1
    <3>1. Sound(e.response)
      BY <1>4 DEF ClearedInv, IssuedSound
    <3>. QED
      BY <1>3, <1>4, <1>5, <2>2, <3>1 DEF SentBy, Clears, Sound, BoundPrint
  <2>. QED
    BY <1>3, <2>1, <2>2
<1>7. \A d \in Callers : pc'[d] \in InFlight =>
         d # c /\ pc'[d] = pc[d] /\ call'[d] = call[d]
  BY <1>2 DEF LiveTypeOK, InFlight, Past
<1>8. FlightCleared'
  BY <1>2, <1>7 DEF ClearedInv, FlightCleared, Clears, BoundPrint
<1>9. IssuedSound' /\ ConnectedInTime'
  BY <1>2, <1>7 DEF ClearedInv, IssuedSound, Sound, ConnectedInTime, InFlight, Past
<1>. QED
  BY <1>6, <1>8, <1>9 DEF ClearedInv

LEMMA ClearedNext == LiveTypeOK /\ ClearedInv /\ [LiveNext]_liveVars => ClearedInv'
<1>. SUFFICES ASSUME LiveTypeOK, ClearedInv, [LiveNext]_liveVars PROVE ClearedInv'
  OBVIOUS
<1>0. \A c \in Callers : pc[c] = "connected" => call[c].checked < call[c].handle.expires
  BY DEF ClearedInv, ConnectedInTime
<1>1. ASSUME NEW t \in Transports, BuildTransport(t) PROVE ClearedInv'
  BY <1>0, <1>1, ClearedQuiet DEF BuildTransport
<1>2. ASSUME NEW r \in Responses, NEW given \in {NotGiven} \cup RawParams,
             IssueClearance(r, given)
      PROVE  ClearedInv'
  <2>1. ResponseOf[r].valid /\ ResponseOf[r].complete
    BY <1>2 DEF IssueClearance, ResponseVerifies
  <2>2. /\ issued' = issued \cup {[response |-> r, given |-> given, epoch |-> epoch]}
        /\ UNCHANGED <<epoch, pc, call, sent>>
    BY <1>2 DEF IssueClearance
  <2>3. IssuedSound' /\ ConnectedInTime'
    BY <2>1, <2>2 DEF ClearedInv, IssuedSound, Sound, ConnectedInTime
  <2>4. FlightCleared'
    BY <2>2 DEF ClearedInv, FlightCleared, Clears, BoundPrint
  <2>5. SentAsCleared'
    BY <2>2 DEF ClearedInv, SentAsCleared
  <2>. QED
    BY <2>3, <2>4, <2>5 DEF ClearedInv
<1>3. ASSUME NEW c \in Callers, NEW t \in Transports, NEW h \in handles \cup {NotAHandle},
             NEW verb \in Verbs(TransportOf[t].kind), CallVerb(c, t, verb, h)
      PROVE  ClearedInv'
  <2>1. CASE Acceptable(verb) /\ Cleared(h, t, verb)
    BY <1>3, <2>1, ClearedClears
  <2>2. CASE ~(Acceptable(verb) /\ Cleared(h, t, verb))
    BY <1>0, <1>3, <2>2, ClearedQuiet DEF CallVerb
  <2>. QED
    BY <2>1, <2>2
<1>4. ASSUME NEW c \in Callers, CallStep(c) PROVE ClearedInv'
  <2>0. CASE Consume(c)
    BY <1>0, <2>0, ClearedQuiet DEF Consume, LiveTypeOK, InFlight, Past
  <2>1. CASE BuildClient(c)
    <3>1. CASE EndCall(c)
      BY <1>0, <2>1, <3>1, ClearedQuiet DEF BuildClient, EndCall, LiveTypeOK, InFlight, Past
    <3>2. CASE pc' = [pc EXCEPT ![c] = "client"] /\ UNCHANGED call
      BY <1>0, <2>1, <3>2, ClearedQuiet DEF BuildClient, LiveTypeOK, InFlight, Past
    <3>. QED
      BY <2>1, <3>1, <3>2 DEF BuildClient
  <2>2. CASE Connect(c)
    <3>1. CASE EndCall(c)
      BY <1>0, <2>2, <3>1, ClearedQuiet DEF Connect, EndCall, LiveTypeOK, InFlight, Past
    <3>2. CASE /\ clock < call[c].handle.expires
               /\ call' = [call EXCEPT ![c].checked = clock, ![c].peer = cert]
               /\ pc' = [pc EXCEPT ![c] = "connected"]
      <4>1. pc[c] \in InFlight /\ call[c] \in Call
        BY <2>2 DEF Connect, InFlight, Past, LiveTypeOK
      <4>2. /\ call'[c].transport = call[c].transport /\ call'[c].handle = call[c].handle
            /\ call'[c].verb = call[c].verb /\ call'[c].checked < call'[c].handle.expires
        BY <3>2, <4>1 DEF LiveTypeOK, Call
      <4>3. \A d \in Callers : d # c => call'[d] = call[d] /\ pc'[d] = pc[d]
        BY <3>2 DEF LiveTypeOK
      <4>. QED
        BY <1>0, <2>2, <4>1, <4>2, <4>3, ClearedQuiet DEF Connect
    <3>. QED
      BY <2>2, <3>1, <3>2 DEF Connect
  <2>3. CASE Send(c)
    <3>1. CASE call[c].peer = Pin
      BY <2>3, <3>1, ClearedSends
    <3>2. CASE call[c].peer # Pin
      BY <1>0, <2>3, <3>2, ClearedQuiet DEF Send, EndCall, LiveTypeOK, InFlight, Past
    <3>. QED
      BY <3>1, <3>2
  <2>4. CASE Answer(c)
    BY <1>0, <2>4, ClearedQuiet DEF Answer, EndCall, LiveTypeOK, InFlight, Past
  <2>. QED
    BY <1>4, <2>0, <2>1, <2>2, <2>3, <2>4 DEF CallStep
<1>5. CASE Tick
  BY <1>0, <1>5, ClearedQuiet DEF Tick
<1>6. CASE ReplacePeer
  BY <1>0, <1>6, ClearedQuiet DEF ReplacePeer
<1>7. CASE Restart
  BY <1>7, ClearedQuiet DEF Restart, InFlight, Past
<1>8. CASE UNCHANGED liveVars
  BY <1>0, <1>8, ClearedQuiet DEF liveVars
<1>. QED
  BY <1>1, <1>2, <1>3, <1>4, <1>5, <1>6, <1>7, <1>8 DEF LiveNext

\* What reached a peer is what an issuance of that process bound, from a sound
\* response, and was checked before its expiry (SentAsCleared).
THEOREM OnlyClearedIsSent == LiveSpec => []SentAsCleared
<1>1. ClearedInv => SentAsCleared
  BY DEF ClearedInv
<1>. QED
  BY <1>1, ClearedInit, ClearedNext, LiveTypeCorrect, PTL DEF LiveSpec

\* Only a connection that showed the pinned certificate carries a request,
\* however often the peer changes after the preflight (OnlyPinnedPeer).
THEOREM OnlyPinnedIsTold == LiveSpec => []OnlyPinnedPeer
<1>1. LiveInit => OnlyPinnedPeer
  BY DEF LiveInit, OnlyPinnedPeer
<1>2. LiveTypeOK /\ OnlyPinnedPeer /\ [LiveNext]_liveVars => OnlyPinnedPeer'
  <2>. SUFFICES ASSUME LiveTypeOK, OnlyPinnedPeer, [LiveNext]_liveVars
                PROVE  OnlyPinnedPeer'
    OBVIOUS
  <2>1. CASE sent' = sent
    BY <2>1 DEF OnlyPinnedPeer
  <2>2. ASSUME NEW c \in Callers, NEW acted \in BOOLEAN, call[c].peer = Pin,
               sent' = Append(sent, SentBy(c, acted))
        PROVE  OnlyPinnedPeer'
    <3>1. /\ DOMAIN sent' = 1..(Len(sent) + 1) /\ DOMAIN sent = 1..Len(sent)
          /\ \A i \in 1..Len(sent) : sent'[i] = sent[i]
          /\ sent'[Len(sent) + 1] = SentBy(c, acted) /\ Len(sent) \in Nat
      BY <2>2 DEF LiveTypeOK
    <3>. QED
      BY <2>2, <3>1 DEF OnlyPinnedPeer, SentBy
  <2>3. \/ sent' = sent
        \/ \E c \in Callers, acted \in BOOLEAN :
              call[c].peer = Pin /\ sent' = Append(sent, SentBy(c, acted))
    BY DEF LiveNext, BuildTransport, IssueClearance, CallVerb, CallStep, Consume, BuildClient,
           Connect, Send, Answer, Tick, ReplacePeer, Restart, liveVars
  <2>. QED
    BY <2>1, <2>2, <2>3
<1>. QED
  BY <1>1, <1>2, LiveTypeCorrect, PTL DEF LiveSpec

-------------------------------------------------------------------------------
(***************************************************************************)
(* The read path.                                                          *)
(***************************************************************************)
IsLink(path) == path \in {"root", "Systems", "Managers", "Chassis", "chassis", "logs", "log"}
Gets == [path : Resources, raw : BOOLEAN]

\* What the last GET of an operation, the one that answers it, may be.
Answering(op, get) ==
    /\ get \in Gets /\ ~IsLink(get.path)
    /\ get.raw => config.kind = "redfish" /\ op \in SystemReads

EndsAnswering(op, gets) ==
    gets \in Seq(Gets) /\ gets # <<>> /\ Answering(op, gets[Len(gets)])

LEMMA Tuples ==
    ASSUME NEW S, NEW a \in S, NEW b \in S, NEW c \in S, NEW d \in S, NEW e \in S, NEW f \in S
    PROVE  /\ <<a>> \in Seq(S) /\ Len(<<a>>) = 1
           /\ <<a, b, c>> \in Seq(S) /\ Len(<<a, b, c>>) = 3
           /\ <<a, b, c, d>> \in Seq(S) /\ Len(<<a, b, c, d>>) = 4
           /\ <<a, b, c, d, e, f>> \in Seq(S) /\ Len(<<a, b, c, d, e, f>>) = 6
           /\ <<a>> \o <<b, c, d>> = <<a, b, c, d>>
<1>1. <<a>> \in Seq(S) /\ Len(<<a>>) = 1
  OBVIOUS
<1>2. <<a, b, c>> \in Seq(S) /\ Len(<<a, b, c>>) = 3
  OBVIOUS
<1>3. <<a, b, c, d>> \in Seq(S) /\ Len(<<a, b, c, d>>) = 4
  OBVIOUS
<1>4. <<a, b, c, d, e, f>> \in Seq(S) /\ Len(<<a, b, c, d, e, f>>) = 6
  OBVIOUS
<1>5. <<a>> \o <<b, c, d>> = <<a, b, c, d>>
  <2>. DEFINE s == <<a>>
              t == <<b, c, d>>
              u == <<a, b, c, d>>
  <2>1. /\ s \in Seq(S) /\ Len(s) = 1 /\ t \in Seq(S) /\ Len(t) = 3
        /\ u \in Seq(S) /\ Len(u) = 4
        /\ u[1] = s[1] /\ u[2] = t[1] /\ u[3] = t[2] /\ u[4] = t[3]
    OBVIOUS
  <2>. HIDE DEF s, t, u
  <2>2. /\ s \o t \in Seq(S) /\ Len(s \o t) = 4
        /\ \A i \in 1..4 : (s \o t)[i] = IF i <= 1 THEN s[i] ELSE t[i - 1]
    <3>1. /\ s \o t \in Seq(S) /\ Len(s \o t) = Len(s) + Len(t)
          /\ \A i \in 1..(Len(s) + Len(t)) :
               (s \o t)[i] = IF i <= Len(s) THEN s[i] ELSE t[i - Len(s)]
      BY <2>1, ConcatProperties
    <3>2. Len(s) = 1 /\ Len(s) + Len(t) = 4
      BY <2>1
    <3>. QED  BY <3>1, <3>2
  <2>3. \A i \in 1..4 : (s \o t)[i] = u[i]
    BY <2>1, <2>2
  <2>4. s \o t = u
    BY <2>1, <2>2, <2>3, SeqEqual
  <2>. QED  BY <2>4 DEF s, t, u
<1>. QED  BY <1>1, <1>2, <1>3, <1>4, <1>5, Zenon

LEMMA LastGet ==
    ASSUME NEW op, NEW a \in Gets, NEW b \in Gets, NEW c \in Gets, NEW d \in Gets,
           NEW e \in Gets, NEW f \in Gets
    PROVE  /\ Answering(op, a) => EndsAnswering(op, <<a>>)
           /\ Answering(op, c) => EndsAnswering(op, <<a, b, c>>)
           /\ Answering(op, d) => EndsAnswering(op, <<a, b, c, d>>)
           /\ Answering(op, f) => EndsAnswering(op, <<a, b, c, d, e, f>>)
<1>1. ASSUME NEW s \in Seq(Gets), s # <<>>, Answering(op, s[Len(s)])
      PROVE  EndsAnswering(op, s)
  BY <1>1 DEF EndsAnswering
<1>. HIDE DEF EndsAnswering, Answering, Gets
<1>2. Answering(op, a) => EndsAnswering(op, <<a>>)
  <2>1. <<a>> \in Seq(Gets) /\ <<a>> # <<>> /\ <<a>>[Len(<<a>>)] = a
    BY Tuples
  <2>. QED  BY <1>1, <2>1
<1>3. Answering(op, c) => EndsAnswering(op, <<a, b, c>>)
  <2>1. <<a, b, c>> \in Seq(Gets) /\ <<a, b, c>> # <<>> /\ <<a, b, c>>[Len(<<a, b, c>>)] = c
    BY Tuples
  <2>. QED  BY <1>1, <2>1
<1>4. Answering(op, d) => EndsAnswering(op, <<a, b, c, d>>)
  <2>1. /\ <<a, b, c, d>> \in Seq(Gets) /\ <<a, b, c, d>> # <<>>
        /\ <<a, b, c, d>>[Len(<<a, b, c, d>>)] = d
    BY Tuples
  <2>. QED  BY <1>1, <2>1
<1>5. Answering(op, f) => EndsAnswering(op, <<a, b, c, d, e, f>>)
  <2>1. /\ <<a, b, c, d, e, f>> \in Seq(Gets) /\ <<a, b, c, d, e, f>> # <<>>
        /\ <<a, b, c, d, e, f>>[Len(<<a, b, c, d, e, f>>)] = f
    BY Tuples
  <2>. QED  BY <1>1, <2>1
<1>. QED  BY <1>2, <1>3, <1>4, <1>5

LEMMA ReadsEnd ==
    ASSUME config \in Configs, NEW op \in DOMAIN Reads
    PROVE  EndsAnswering(op, Reads[op])
<1>1. CASE config.kind = "pikvm"
  <2>1. Reads[op] = <<Redacted("api")>>
    BY <1>1 DEF Reads, PiKVMReads
  <2>2. Redacted("api") \in Gets /\ Answering(op, Redacted("api"))
    BY DEF Redacted, Gets, Answering, Resources, IsLink
  <2>. QED  BY <2>1, <2>2, LastGet
<1>2. CASE config.kind = "redfish"
  <2>0. /\ Reads = RedfishReads
        /\ op \in {"status", "power_state", "boot_status", "hardware_inventory",
                   "sensors", "event_logs"}
    BY <1>2 DEF Reads, RedfishReads
  <2>1. CASE op \in SystemReads
    <3>1. Reads[op] = <<Raw("root"), Raw("Systems"), Raw("system")>>
      BY <2>0, <2>1 DEF RedfishReads, SystemReads, SystemResource
    <3>2. Answering(op, Raw("system"))
      BY <1>2, <2>1 DEF Raw, Gets, Answering, Resources, IsLink
    <3>3. Raw("root") \in Gets /\ Raw("Systems") \in Gets /\ Raw("system") \in Gets
      BY DEF Raw, Gets, Resources
    <3>. QED  BY <3>1, <3>2, <3>3, LastGet
  <2>2. CASE op = "status"
    <3>1. /\ Redacted("root") \in Gets /\ Raw("root") \in Gets /\ Raw("Managers") \in Gets
          /\ Redacted("manager") \in Gets
      BY DEF Raw, Redacted, Gets, Resources
    <3>2. Reads[op] = <<Redacted("root")>> \o <<Raw("root"), Raw("Managers"), Redacted("manager")>>
      BY <2>0, <2>2 DEF RedfishReads, ManagerStatus
    <3>3. Reads[op] = <<Redacted("root"), Raw("root"), Raw("Managers"), Redacted("manager")>>
      BY <3>1, <3>2, Tuples
    <3>4. Answering(op, Redacted("manager"))
      BY DEF Redacted, Gets, Answering, Resources, IsLink
    <3>. QED  BY <3>1, <3>3, <3>4, LastGet
  <2>3. CASE op = "sensors"
    <3>1. Reads[op] = <<Raw("root"), Raw("Chassis"), Raw("chassis"), Redacted("thermal")>>
      BY <2>0, <2>3 DEF RedfishReads
    <3>2. Answering(op, Redacted("thermal"))
      BY DEF Redacted, Gets, Answering, Resources, IsLink
    <3>3. /\ Raw("root") \in Gets /\ Raw("Chassis") \in Gets /\ Raw("chassis") \in Gets
          /\ Redacted("thermal") \in Gets
      BY DEF Raw, Redacted, Gets, Resources
    <3>. QED  BY <3>1, <3>2, <3>3, LastGet
  <2>4. CASE op = "event_logs"
    <3>1. Reads[op] = <<Raw("root"), Raw("Managers"), Raw("manager"), Raw("logs"),
                        Raw("log"), Redacted("entries")>>
      BY <2>0, <2>4 DEF RedfishReads
    <3>2. Answering(op, Redacted("entries"))
      BY DEF Redacted, Gets, Answering, Resources, IsLink
    <3>3. /\ Raw("root") \in Gets /\ Raw("Managers") \in Gets /\ Raw("manager") \in Gets
          /\ Raw("logs") \in Gets /\ Raw("log") \in Gets /\ Redacted("entries") \in Gets
      BY DEF Raw, Redacted, Gets, Resources
    <3>4. EndsAnswering(op, <<Raw("root"), Raw("Managers"), Raw("manager"), Raw("logs"),
                              Raw("log"), Redacted("entries")>>)
      BY <3>2, <3>3, LastGet, Zenon
    <3>. QED  BY <3>1, <3>4, Zenon
  <2>5. op \in SystemReads \/ op = "status" \/ op = "sensors" \/ op = "event_logs"
    BY <2>0 DEF SystemReads
  <2>. QED  BY <2>1, <2>2, <2>3, <2>4, <2>5, Zenon
<1>3. config.kind = "pikvm" \/ config.kind = "redfish"
  BY DEF Configs
<1>. QED  BY <1>1, <1>2, <1>3, Zenon

\* A cached resource says what the machine said to this transport, the window of
\* a read holds what the machine says now, and the read still ends where its
\* operation is answered.
ReadInv ==
    /\ config \in Configs
    /\ DOMAIN cache = Resources
    /\ reader = "ready" => device \in held
    /\ reading # Absent =>
          /\ reader = "ready"
          /\ reading = [op |-> reading.op, todo |-> reading.todo, window |-> reading.window]
          /\ device \in reading.window
          /\ EndsAnswering(reading.op, reading.todo)
    /\ \A p \in Resources : cache[p] # Absent /\ ~IsLink(p) => cache[p] \in held
    /\ OnlyTrustedPeers
    /\ AnswersAreCurrent

LEMMA AdvanceKeeps ==
    ASSUME ReadInv, reading # Absent, NEW value, Advance(value),
           Len(reading.todo) = 1 =>
             /\ value \in held
             /\ ~Head(reading.todo).raw => value \in reading.window,
           UNCHANGED <<config, device, held, reader>>
    PROVE  /\ AnswersAreCurrent'
           /\ reading' # Absent =>
                /\ reader' = "ready"
                /\ reading' = [op |-> reading'.op, todo |-> reading'.todo,
                               window |-> reading'.window]
                /\ device' \in reading'.window
                /\ EndsAnswering(reading.op, reading.todo)'
<1>1. /\ reading.todo \in Seq(Gets) /\ reading.todo # <<>>
      /\ Answering(reading.op, reading.todo[Len(reading.todo)])
      /\ device \in reading.window /\ reader = "ready"
      /\ reading = [op |-> reading.op, todo |-> reading.todo, window |-> reading.window]
  BY DEF ReadInv, EndsAnswering
<1>2. CASE Len(reading.todo) = 1
  <2>1. /\ answer' = [op |-> reading.op, value |-> value,
                      window |-> reading.window, held |-> held]
        /\ reading' = Absent
    BY <1>2 DEF Advance
  <2>2. Answering(reading.op, Head(reading.todo))
    BY <1>1, <1>2
  <2>3. ~(config.kind = "redfish" /\ reading.op \in SystemReads) => value \in reading.window
    BY <1>2, <2>2 DEF Answering
  <2>. QED  BY <1>2, <2>1, <2>3 DEF AnswersAreCurrent
<1>3. CASE Len(reading.todo) # 1
  <2>. DEFINE todo == reading.todo
              rest == Tail(todo)
  <2>1. reading' = [reading EXCEPT !.todo = rest] /\ answer' = answer
    BY <1>3 DEF Advance
  <2>2. /\ rest \in Seq(Gets) /\ Len(rest) = Len(todo) - 1
        /\ \A i \in 1..Len(rest) : rest[i] = todo[i + 1]
    BY <1>1, HeadTailProperties
  <2>3. Len(todo) \in Nat /\ Len(todo) > 1
    <3>1. Len(todo) \in Nat /\ Len(todo) # 0
      BY <1>1, LenProperties, EmptySeq
    <3>. HIDE DEF todo
    <3>2. Len(todo) # 1
      BY <1>3 DEF todo
    <3>. QED  BY <3>1, <3>2
  <2>. HIDE DEF rest, todo
  <2>4. rest # <<>> /\ rest[Len(rest)] = todo[Len(todo)]
    <3>1. Len(rest) \in 1..Len(rest) /\ Len(rest) + 1 = Len(todo)
      BY <2>2, <2>3
    <3>2. rest # <<>>
      BY <3>1, EmptySeq
    <3>. QED  BY <2>2, <3>1, <3>2
  <2>5. EndsAnswering(reading.op, rest)
    BY <1>1, <2>2, <2>4 DEF EndsAnswering, todo
  <2>6. /\ reading'.op = reading.op /\ reading'.todo = rest
        /\ reading'.window = reading.window
        /\ reading' = [op |-> reading'.op, todo |-> reading'.todo, window |-> reading'.window]
    BY <1>1, <2>1
  <2>7. EndsAnswering(reading.op, reading.todo)'
    BY <2>5, <2>6 DEF EndsAnswering, Answering
  <2>8. AnswersAreCurrent'
    BY <2>1 DEF ReadInv, AnswersAreCurrent
  <2>. QED  BY <1>1, <2>6, <2>7, <2>8
<1>. QED  BY <1>2, <1>3

LEMMA FetchKeeps ==
    ASSUME ReadInv, Fetch
    PROVE  ReadInv'
<1>. DEFINE get == Head(reading.todo)
<1>1. /\ reading # Absent
      /\ reading.todo \in Seq(Gets) /\ reading.todo # <<>>
      /\ Answering(reading.op, reading.todo[Len(reading.todo)])
      /\ device \in reading.window /\ device \in held
      /\ UNCHANGED <<config, device, peer, reader, held>>
  BY DEF Fetch, ReadInv, EndsAnswering
<1>2. get \in Gets /\ get.path \in Resources
  <2>1. get \in Gets
    BY <1>1, HeadTailProperties
  <2>. QED  BY <2>1 DEF Gets
<1>3. Len(reading.todo) = 1 => ~IsLink(get.path)
  BY <1>1 DEF Answering
<1>4. ~IsLink(get.path) => Content(get.path) = device
  BY DEF Content, IsLink
<1>. HIDE DEF get
<1>5. CASE ReadsCache(get) /\ Advance(cache[get.path]) /\ UNCHANGED <<cache, told>>
  <2>1. get.raw /\ cache[get.path] # Absent
    BY <1>5 DEF ReadsCache
  <2>2. Len(reading.todo) = 1 => cache[get.path] \in held
    BY <1>2, <1>3, <2>1 DEF ReadInv
  <2>3. /\ AnswersAreCurrent'
        /\ reading' # Absent =>
             /\ reader' = "ready"
             /\ reading' = [op |-> reading'.op, todo |-> reading'.todo,
                            window |-> reading'.window]
             /\ device' \in reading'.window
             /\ EndsAnswering(reading.op, reading.todo)'
    BY <1>1, <1>5, <2>1, <2>2, AdvanceKeeps DEF get
  <2>4. /\ config' \in Configs /\ DOMAIN cache' = Resources
        /\ reader' = "ready" => device' \in held'
        /\ \A p \in Resources : cache'[p] # Absent /\ ~IsLink(p) => cache'[p] \in held'
        /\ OnlyTrustedPeers'
    BY <1>1, <1>5 DEF ReadInv, OnlyTrustedPeers
  <2>. QED  BY <2>3, <2>4 DEF ReadInv
<1>6. CASE /\ AcceptsPeer
           /\ told' = told \cup {peer}
           /\ cache' = IF get.raw THEN [cache EXCEPT ![get.path] = Content(get.path)]
                                  ELSE cache
           /\ Advance(Content(get.path))
  <2>1. Len(reading.todo) = 1 =>
          Content(get.path) \in held /\ Content(get.path) \in reading.window
    BY <1>1, <1>3, <1>4
  <2>2. /\ AnswersAreCurrent'
        /\ reading' # Absent =>
             /\ reader' = "ready"
             /\ reading' = [op |-> reading'.op, todo |-> reading'.todo,
                            window |-> reading'.window]
             /\ device' \in reading'.window
             /\ EndsAnswering(reading.op, reading.todo)'
    BY <1>1, <1>6, <2>1, AdvanceKeeps
  <2>3. /\ DOMAIN cache' = Resources
        /\ \A p \in Resources : cache'[p] \in {cache[p], IF p = get.path THEN Content(p) ELSE cache[p]}
    BY <1>2, <1>6 DEF ReadInv
  <2>4. \A p \in Resources : cache'[p] # Absent /\ ~IsLink(p) => cache'[p] \in held'
    BY <1>1, <1>4, <2>3 DEF ReadInv
  <2>5. config' \in Configs /\ (reader' = "ready" => device' \in held') /\ OnlyTrustedPeers'
    BY <1>1, <1>6 DEF ReadInv, OnlyTrustedPeers, AcceptsPeer
  <2>. QED  BY <2>2, <2>3, <2>4, <2>5 DEF ReadInv
<1>7. CASE /\ told' = IF AcceptsPeer THEN told \cup {peer} ELSE told
           /\ reading' = Absent
           /\ UNCHANGED <<cache, answer>>
  <2>1. OnlyTrustedPeers'
    BY <1>1, <1>7 DEF ReadInv, OnlyTrustedPeers, AcceptsPeer
  <2>2. AnswersAreCurrent'
    BY <1>1, <1>7 DEF ReadInv, AnswersAreCurrent
  <2>. QED  BY <1>1, <1>7, <2>1, <2>2 DEF ReadInv
<1>. QED  BY <1>5, <1>6, <1>7 DEF Fetch, get

LEMMA ReadStep ==
    ASSUME ReadInv, [ReadNext]_readVars
    PROVE  ReadInv'
<1>1. CASE BuildReader
  <2>1. reading = Absent
    BY <1>1 DEF BuildReader, ReadInv
  <2>. QED  BY <1>1, <2>1 DEF BuildReader, EmptyCache, ReadInv, OnlyTrustedPeers, AnswersAreCurrent
<1>2. CASE DropReader
  BY <1>2 DEF DropReader, ReadInv, OnlyTrustedPeers, AnswersAreCurrent
<1>3. ASSUME NEW op \in DOMAIN Reads, StartRead(op)
      PROVE  ReadInv'
  <2>1. /\ reading' = [op |-> op, todo |-> Reads[op], window |-> {device}]
        /\ UNCHANGED <<config, device, peer, reader, cache, held, told, answer>>
        /\ reader = "ready"
    BY <1>3 DEF StartRead
  <2>2. EndsAnswering(op, Reads[op])
    BY ReadsEnd DEF ReadInv
  <2>3. EndsAnswering(reading.op, reading.todo)'
    BY <2>1, <2>2 DEF EndsAnswering, Answering
  <2>. QED  BY <2>1, <2>3 DEF ReadInv, OnlyTrustedPeers, AnswersAreCurrent
<1>4. CASE Fetch
  BY <1>4, FetchKeeps
<1>5. CASE DeviceChanges
  <2>1. /\ held' = held \cup {device'}
        /\ reading' = IF reading = Absent THEN Absent
                      ELSE [reading EXCEPT !.window = reading.window \cup {device'}]
        /\ UNCHANGED <<config, peer, reader, cache, told, answer>>
    BY <1>5 DEF DeviceChanges
  <2>2. reading' # Absent =>
          /\ reader' = "ready"
          /\ reading' = [op |-> reading'.op, todo |-> reading'.todo,
                         window |-> reading'.window]
          /\ device' \in reading'.window
          /\ EndsAnswering(reading.op, reading.todo)'
    <3>1. SUFFICES ASSUME reading # Absent
                   PROVE  /\ reader' = "ready"
                          /\ reading' = [op |-> reading'.op, todo |-> reading'.todo,
                                         window |-> reading'.window]
                          /\ device' \in reading'.window
                          /\ EndsAnswering(reading.op, reading.todo)'
      BY <2>1
    <3>2. /\ reading = [op |-> reading.op, todo |-> reading.todo, window |-> reading.window]
          /\ EndsAnswering(reading.op, reading.todo) /\ reader = "ready"
      BY <3>1 DEF ReadInv
    <3>3. /\ reading' = [op |-> reading'.op, todo |-> reading'.todo,
                         window |-> reading'.window]
          /\ reading'.op = reading.op /\ reading'.todo = reading.todo
          /\ device' \in reading'.window
      BY <2>1, <3>1, <3>2
    <3>. QED  BY <2>1, <3>2, <3>3 DEF EndsAnswering, Answering
  <2>. QED  BY <2>1, <2>2 DEF ReadInv, OnlyTrustedPeers, AnswersAreCurrent
<1>6. CASE ReadPeerChanges \/ UNCHANGED readVars
  <2>1. UNCHANGED <<config, device, reader, cache, reading, held, told, answer>>
    BY <1>6 DEF ReadPeerChanges, readVars
  <2>. QED
    BY <2>1 DEF ReadInv, OnlyTrustedPeers, AnswersAreCurrent, EndsAnswering, Answering
<1>. QED  BY <1>1, <1>2, <1>3, <1>4, <1>5, <1>6 DEF ReadNext

LEMMA ReadInvHolds == ReadSpec => []ReadInv
<1>1. ReadInit => ReadInv
  BY DEF ReadInit, ReadInv, OnlyTrustedPeers, AnswersAreCurrent
<1>2. ReadInv /\ [ReadNext]_readVars => ReadInv'
  BY ReadStep
<1>. QED  BY <1>1, <1>2, PTL DEF ReadSpec

\* Whoever answers meanwhile, a read sends credentials to the pinned peer, or
\* without a pin to one the certificate roots vouch for (_enforce_pin).
THEOREM OnlyTrustedPeersHolds == ReadSpec => []OnlyTrustedPeers
<1>1. ReadInv => OnlyTrustedPeers
  BY DEF ReadInv
<1>. QED  BY <1>1, ReadInvHolds, PTL

\* Only what is cut from the cached computer system may be old, and never older
\* than the transport (_read_json, _resource_cache).
THEOREM AnswersAreCurrentHolds == ReadSpec => []AnswersAreCurrent
<1>1. ReadInv => AnswersAreCurrent
  BY DEF ReadInv
<1>. QED  BY <1>1, ReadInvHolds, PTL

-----------------------------------------------------------------------------
(***************************************************************************)
(* Every call ends.                                                        *)
(***************************************************************************)
\* The steps a call has left, from its place.
StepsLeft(at) ==
  CASE at = "idle" -> 0
    [] at = "sent" -> 1
    [] at = "connected" -> 2
    [] at = "client" -> 3
    [] at = "cleared" -> 4
    [] OTHER -> 5
Within(c, k) == pc[c] # "idle" /\ StepsLeft(pc[c]) <= k

\* Where a call stands a step of it can be taken: whatever the clock and the peer
\* say, Connect and Send have a way out.
CanStep(c) ==
  \/ pc[c] \in {"tested", "cleared", "sent"}
  \/ pc[c] = "client" /\ (clock < call[c].handle.expires \/ clock >= call[c].handle.expires)
  \/ pc[c] = "connected" /\ (call[c].peer = Pin \/ call[c].peer # Pin)
\* What ENABLED says of CallStep: where its guards hold, it can be taken.
StepsAsGuarded(c) == CanStep(c) => ENABLED <<CallStep(c)>>_liveVars

LEMMA StepDescends ==
  ASSUME LiveTypeOK, NEW c \in Callers, CallStep(c)
  PROVE  StepsLeft(pc'[c]) < StepsLeft(pc[c])
<1>1. pc \in [Callers -> {"idle", "tested", "cleared", "client", "connected", "sent"}]
  BY DEF LiveTypeOK
<1>. QED
  BY <1>1 DEF CallStep, Consume, BuildClient, Connect, Send, Answer, EndCall, StepsLeft

\* The steps of other callers, of the clock, the peer and the process leave a call
\* where it is or end it.
LEMMA NobodyHoldsUp ==
  ASSUME LiveTypeOK, NEW c \in Callers, pc[c] # "idle", [LiveNext]_liveVars
  PROVE  CallStep(c) \/ pc'[c] = pc[c] \/ pc'[c] = "idle"
<1>1. pc \in [Callers -> {"idle", "tested", "cleared", "client", "connected", "sent"}]
  BY DEF LiveTypeOK
<1>2. ASSUME NEW d \in Callers, CallStep(d), d # c
      PROVE  pc'[c] = pc[c]
  BY <1>1, <1>2 DEF CallStep, Consume, BuildClient, Connect, Send, Answer, EndCall
<1>3. ASSUME NEW d \in Callers, NEW t \in Transports, NEW h, NEW verb, CallVerb(d, t, verb, h)
      PROVE  pc'[c] = pc[c]
  BY <1>1, <1>3 DEF CallVerb
<1>. QED
  BY <1>2, <1>3 DEF LiveNext, liveVars, BuildTransport, IssueClearance, Tick, ReplacePeer, Restart

\* A call with at most k steps left can take one, after which it has at most j;
\* whatever else happens it keeps at most k.
Descends(c, k, j) ==
  /\ LiveTypeOK /\ Within(c, k) => CanStep(c)
  /\ LiveTypeOK /\ Within(c, k) /\ [LiveNext]_liveVars => (Within(c, k) \/ pc[c] = "idle")'
  /\ LiveTypeOK /\ Within(c, k) /\ <<CallStep(c)>>_liveVars => (Within(c, j) \/ pc[c] = "idle")'

LEMMA CallDescends ==
  ASSUME NEW CONSTANT c \in Callers,
         NEW CONSTANT k \in Nat, NEW CONSTANT j \in Nat, k = j + 1
  PROVE  Descends(c, k, j)
<1>0. StepsLeft(pc[c]) \in Nat /\ StepsLeft(pc'[c]) \in Nat
  BY DEF StepsLeft
<1>1. ASSUME LiveTypeOK, Within(c, k), [LiveNext]_liveVars, pc'[c] # "idle"
      PROVE  Within(c, k)'
  <2>1. pc'[c] = pc[c] \/ StepsLeft(pc'[c]) < StepsLeft(pc[c])
    BY <1>1, NobodyHoldsUp, StepDescends DEF Within
  <2>. QED
    BY <1>0, <1>1, <2>1 DEF Within
<1>2. ASSUME LiveTypeOK, Within(c, k), CallStep(c), pc'[c] # "idle"
      PROVE  Within(c, j)'
  <2>1. StepsLeft(pc'[c]) < StepsLeft(pc[c])
    BY <1>2, StepDescends
  <2>. QED
    BY <1>0, <1>2, <2>1 DEF Within
<1>3. ASSUME LiveTypeOK, Within(c, k)
      PROVE  CanStep(c)
  <2>1. pc[c] \in {"tested", "cleared", "client", "connected", "sent"}
    BY <1>3 DEF LiveTypeOK, Within
  <2>2. pc[c] = "client" => clock \in Int /\ call[c].handle.expires \in Int
    BY <1>3, HandleFields DEF LiveTypeOK, Call, Handle
  <2>. QED
    BY <2>1, <2>2 DEF CanStep
<1>. QED
  BY <1>1, <1>2, <1>3 DEF Descends

\* A caller's call ends, with a result or an error, as soon as that caller is
\* scheduled fairly: no other caller, peer or clock can keep it (LiveCallsEnd, one
\* caller at a time).
THEOREM LiveCallEnds ==
  ASSUME NEW CONSTANT c \in Callers
  PROVE  /\ LiveInit /\ [][LiveNext]_liveVars
         /\ WF_liveVars(CallStep(c)) /\ []StepsAsGuarded(c)
         => (pc[c] # "idle" ~> pc[c] = "idle")
<1>1. Descends(c, 5, 4) /\ Descends(c, 4, 3) /\ Descends(c, 3, 2) /\ Descends(c, 2, 1) /\ Descends(c, 1, 0)
  BY CallDescends
<1>2. LiveTypeOK /\ pc[c] # "idle" => Within(c, 5)
  BY DEF LiveTypeOK, Within, StepsLeft
<1>3. LiveTypeOK => ~Within(c, 0)
  BY DEF LiveTypeOK, Within, StepsLeft
<1>4. StepsAsGuarded(c) /\ CanStep(c) => ENABLED <<CallStep(c)>>_liveVars
  BY DEF StepsAsGuarded
<1>. QED
  BY <1>1, <1>2, <1>3, <1>4, InitType, NextType, PTL DEF Descends
===============================================================================
