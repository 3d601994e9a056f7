------------------------------ MODULE LiveMutation ------------------------------
(***************************************************************************)
(* The live mutation path: one operator process that turns verified ACT     *)
(* clearances into mutation handles (providers/mutation_gate.py), builds    *)
(* PiKVM and Redfish mutation transports behind a certificate pin           *)
(* (providers/*_mutation_transport.py, live_validation/*_mutate.py), and    *)
(* sends POST and PATCH requests through the pinned client                  *)
(* (live_validation/http_mutate.py).  Several callers of the process use    *)
(* the transports at once, although nothing guards a transport or a ledger  *)
(* against that; time passes, the peer at the machine's address may be      *)
(* replaced, answers may be lost and the process may restart.               *)
(***************************************************************************)
EXTENDS Naturals, Sequences, FiniteSets

CONSTANTS Callers,       \* threads of control that call the transports
          Transports,    \* mutation transports the process may build
          TransportOf,   \* kind, target, provider, ledger, pinned, system_path
          Ledgers,       \* clearance ledgers: one per transport unless shared
          Responses,     \* tower answers in the operator's hands
          ResponseOf,    \* request, capability, target, provider, fp, expires, ...
          AskedTargets,  \* boot targets the callers ask for
          NotAHandle,    \* an object no issuance made
          Certs, Pin,    \* certificates the peer may show, and the pinned one
          MaxTime, MaxIssued, MaxSent, MaxEpoch

ASSUME PinAssumption == Pin \in Certs
\* Every transport has a ledger; every response says when it expires.
ASSUME LedgerAssumption == \A t \in Transports : TransportOf[t].ledger \in Ledgers
ASSUME ExpiryAssumption == \A r \in Responses : ResponseOf[r].expires \in Nat
ASSUME BoundsAssumption == {MaxTime, MaxIssued, MaxSent, MaxEpoch} \subseteq Nat

\* Parameters without an entry; the print of a redacted payload, which is no raw
\* parameters' print; and issuance without parameters.
NoParams == "no_params"
RedactedPrint == "redacted_print"
NotGiven == "not_given"

\* What a print may be of: a call's raw parameters, or a redacted payload.
RawParams == {NoParams} \cup AskedTargets
Prints == RawParams \cup {RedactedPrint}
ASSUME PrintAssumption == \A r \in Responses : ResponseOf[r].fp \in Prints

\* The verbs of the two transports and the boot targets Redfish accepts.
PiKVMOperations == {"power.on", "power.force_off", "power.power_cycle"}
RedfishOperations == PiKVMOperations \cup {"boot.override"}
BootOverrideTargets == {"None", "Pxe", "Hdd", "Cd", "Usb", "BiosSetup"}

\* The calls a transport's methods make: a verb and its raw parameters.
Verbs(kind) ==
    [capability : PiKVMOperations, params : {NoParams}] \cup
    (IF kind = "redfish"
     THEN [capability : {"boot.override"}, params : AskedTargets]
     ELSE {})

\* What a power or boot request does to the machine behind the peer.
Effect(verb, m) ==
    CASE verb.capability = "power.on" -> [m EXCEPT !.power = "on"]
      [] verb.capability = "power.force_off" -> [m EXCEPT !.power = "off"]
      [] verb.capability = "power.power_cycle" -> [m EXCEPT !.power = "on"]
      [] OTHER -> [m EXCEPT !.boot = verb.params]

VARIABLES clock,     \* seconds
          cert,      \* certificate shown at the machine's address now
          machine,   \* power state and one-time boot source
          epoch,     \* starts of the process so far
          built,     \* transports that passed construction
          issued,    \* issuances so far: response, parameters given, epoch
          consumed,  \* request ids each ledger has consumed
          pc, call,  \* per caller: place in the call, and its arguments
          overlapped, \* ledger, epoch and request two callers found unused at once
          sent       \* requests that reached a peer, in order

liveVars == <<clock, cert, machine, epoch, built, issued, consumed, pc, call,
              overlapped, sent>>

LedgerOf(t) == TransportOf[t].ledger

LiveInit ==
    /\ clock = 0
    /\ cert \in Certs
    /\ machine = [power |-> "on", boot |-> "None"]
    /\ epoch = 0
    /\ built = {}
    /\ issued = {}
    /\ consumed = [l \in Ledgers |-> {}]
    /\ pc = [c \in Callers |-> "idle"]
    /\ call = [c \in Callers |-> NotAHandle]
    /\ overlapped = {}
    /\ sent = <<>>

-------------------------------------------------------------------------------
(* Construction and issuance. *)

\* A transport is refused without a pin, an identity or a sound system path.
WellFormed(t) ==
    /\ TransportOf[t].pinned
    /\ TransportOf[t].target # "" /\ TransportOf[t].provider # ""
    /\ TransportOf[t].kind = "redfish" => TransportOf[t].system_path

\* The certificate probe of the constructor carries no credentials; a
\* mismatch raises and no transport exists.
BuildTransport(t) ==
    /\ t \notin built
    /\ WellFormed(t)
    /\ cert = Pin
    /\ built' = built \cup {t}
    /\ UNCHANGED <<clock, cert, machine, epoch, issued, consumed, pc, call,
                   overlapped, sent>>

\* The verifier accepts a response that is cleared, proven and not yet past.
ResponseVerifies(r) == ResponseOf[r].valid /\ clock < ResponseOf[r].expires

\* A handle carries what the response says.  The print is the response's own, or
\* that of whatever parameters the caller passes: nothing compares the two.
HandleFor(r, given) ==
    [request |-> ResponseOf[r].request, capability |-> ResponseOf[r].capability,
     target |-> ResponseOf[r].target, provider |-> ResponseOf[r].provider,
     fp |-> IF given = NotGiven THEN ResponseOf[r].fp ELSE given,
     expires |-> ResponseOf[r].expires]

\* The handles of this process.
handles == {HandleFor(e.response, e.given) : e \in {x \in issued : x.epoch = epoch}}

\* issue_verified_mutation_clearance: a refusal raises and leaves nothing.
IssueClearance(r, given) ==
    /\ Cardinality(issued) < MaxIssued
    /\ ResponseVerifies(r)
    /\ ResponseOf[r].complete
    /\ ResponseOf[r].capability # "observe"
    /\ issued' = issued \cup {[response |-> r, given |-> given, epoch |-> epoch]}
    /\ UNCHANGED <<clock, cert, machine, epoch, built, consumed, pc, call,
                   overlapped, sent>>

-------------------------------------------------------------------------------
(* One call of a transport. *)

EndCall_KeepsPlace(c) ==
    /\ call' = [call EXCEPT ![c] = NotAHandle]
    /\ UNCHANGED pc

\* A call ends with a result or an error, and leaves nothing behind.
EndCall(c) ==
    /\ pc' = [pc EXCEPT ![c] = "idle"]
    /\ call' = [call EXCEPT ![c] = NotAHandle]

Cleared_Replays(h, t, verb) ==
    /\ h # NotAHandle
    /\ h.capability = verb.capability
    /\ h.target = TransportOf[t].target
    /\ h.provider = TransportOf[t].provider
    /\ h.fp = verb.params
    /\ clock < h.expires

\* require_verified_mutation_clearance: genuine handle, then capability,
\* target, provider, print, expiry and the ledger's single use.
Cleared(h, t, verb) ==
    /\ h # NotAHandle
    /\ h.capability = verb.capability
    /\ h.target = TransportOf[t].target
    /\ h.provider = TransportOf[t].provider
    /\ h.fp = verb.params
    /\ clock < h.expires
    /\ h.request \notin consumed[LedgerOf(t)]

Acceptable(verb) ==
    verb.capability = "boot.override" => verb.params \in BootOverrideTargets

\* Callers that found this request unused in this ledger and have yet to add it.
Between(l, request) ==
    {d \in Callers : /\ pc[d] = "tested"
                     /\ LedgerOf(call[d].transport) = l
                     /\ call[d].handle.request = request}

Spent(l, request) == [ledger |-> l, epoch |-> epoch, request |-> request]

\* A call's gates, the last of which looks the request up in the ledger.
CallVerb(c, t, verb, h) ==
    /\ pc[c] = "idle"
    /\ t \in built
    /\ Len(sent) < MaxSent
    /\ \/ /\ Acceptable(verb) /\ Cleared(h, t, verb)
          /\ overlapped' = IF Between(LedgerOf(t), h.request) = {} THEN overlapped
                           ELSE overlapped \cup {Spent(LedgerOf(t), h.request)}
          /\ call' = [call EXCEPT ![c] =
                         [transport |-> t, verb |-> verb, handle |-> h,
                          checked |-> clock, peer |-> Pin]]
          /\ pc' = [pc EXCEPT ![c] = "tested"]
       \/ /\ ~(Acceptable(verb) /\ Cleared(h, t, verb))
          /\ UNCHANGED <<pc, call, overlapped>>
    /\ UNCHANGED <<clock, cert, machine, epoch, built, issued, consumed, sent>>

\* The look-up holds no lock: the request is added in a step of its own.
Consume(c) ==
    /\ pc[c] = "tested"
    /\ consumed' = [consumed EXCEPT ![LedgerOf(call[c].transport)] =
                        @ \cup {call[c].handle.request}]
    /\ pc' = [pc EXCEPT ![c] = "cleared"]
    /\ UNCHANGED <<clock, cert, machine, epoch, built, issued, call, overlapped,
                   sent>>

\* The client factory resolves the credential reference, or fails.
BuildClient(c) ==
    /\ pc[c] = "cleared"
    /\ \/ pc' = [pc EXCEPT ![c] = "client"] /\ UNCHANGED call
       \/ EndCall(c)
    /\ UNCHANGED <<clock, cert, machine, epoch, built, issued, consumed, overlapped,
                   sent>>

Connect_NoRecheck(c) ==
    /\ pc[c] = "client"
    /\ \/ /\ call' = [call EXCEPT ![c].checked = clock, ![c].peer = cert]
          /\ pc' = [pc EXCEPT ![c] = "connected"]
       \/ EndCall(c)
    /\ UNCHANGED <<clock, cert, machine, epoch, built, issued, consumed, overlapped,
                   sent>>

Connect_WaitsForTime(c) ==
    /\ pc[c] = "client"
    /\ clock < call[c].handle.expires
    /\ \/ /\ call' = [call EXCEPT ![c].checked = clock, ![c].peer = cert]
          /\ pc' = [pc EXCEPT ![c] = "connected"]
       \/ EndCall(c)
    /\ UNCHANGED <<clock, cert, machine, epoch, built, issued, consumed, overlapped,
                   sent>>

\* Handing the request to the client: expiry again, then the TLS handshake
\* with whoever answers at the address.
Connect(c) ==
    /\ pc[c] = "client"
    /\ \/ /\ clock < call[c].handle.expires
          /\ call' = [call EXCEPT ![c].checked = clock, ![c].peer = cert]
          /\ pc' = [pc EXCEPT ![c] = "connected"]
       \/ /\ clock < call[c].handle.expires
          /\ EndCall(c)
       \/ /\ clock >= call[c].handle.expires
          /\ EndCall(c)
    /\ UNCHANGED <<clock, cert, machine, epoch, built, issued, consumed, overlapped,
                   sent>>

\* What is kept of a request that reached a peer.
SentBy(c, acted) ==
    [caller |-> c, ledger |-> LedgerOf(call[c].transport), epoch |-> epoch,
     request |-> call[c].handle.request, verb |-> call[c].verb,
     target |-> TransportOf[call[c].transport].target,
     provider |-> TransportOf[call[c].transport].provider,
     peer |-> call[c].peer, checked |-> call[c].checked,
     expires |-> call[c].handle.expires, acted |-> acted]

Send_SkipsPin(c) ==
    /\ pc[c] = "connected"
    /\ \E acted \in BOOLEAN :
          /\ acted => call[c].peer = Pin
          /\ sent' = Append(sent, SentBy(c, acted))
          /\ machine' = IF acted THEN Effect(call[c].verb, machine) ELSE machine
          /\ pc' = [pc EXCEPT ![c] = "sent"]
          /\ call' = [call EXCEPT ![c] = NotAHandle]
    /\ UNCHANGED <<clock, cert, epoch, built, issued, consumed, overlapped>>

\* The pin is compared with the certificate of this very connection; only then
\* are the credentials and the body written.  The machine acts or rejects.
Send(c) ==
    /\ pc[c] = "connected"
    /\ \/ /\ call[c].peer = Pin
          /\ \E acted \in BOOLEAN :
                /\ sent' = Append(sent, SentBy(c, acted))
                /\ machine' = IF acted THEN Effect(call[c].verb, machine) ELSE machine
          /\ pc' = [pc EXCEPT ![c] = "sent"]
          /\ call' = [call EXCEPT ![c] = NotAHandle]
       \/ /\ call[c].peer # Pin
          /\ EndCall(c)
          /\ UNCHANGED <<sent, machine>>
    /\ UNCHANGED <<clock, cert, epoch, built, issued, consumed, overlapped>>

\* A good answer is reported as performed; a lost, refused, oversized or
\* unreadable one raises.  Either way the caller may call again.
Answer(c) ==
    /\ pc[c] = "sent"
    /\ EndCall(c)
    /\ UNCHANGED <<clock, cert, machine, epoch, built, issued, consumed, overlapped,
                   sent>>

CallStep(c) == Consume(c) \/ BuildClient(c) \/ Connect(c) \/ Send(c) \/ Answer(c)

-------------------------------------------------------------------------------
(* The surroundings. *)

Tick ==
    /\ clock < MaxTime
    /\ clock' = clock + 1
    /\ UNCHANGED <<cert, machine, epoch, built, issued, consumed, pc, call,
                   overlapped, sent>>

\* The certificate is renewed, or something else answers at the address.
ReplacePeer ==
    /\ cert' \in Certs \ {cert}
    /\ UNCHANGED <<clock, machine, epoch, built, issued, consumed, pc, call,
                   overlapped, sent>>

\* Transports, handles and ledgers live in the process; a request on the wire
\* stays where it is.
Restart ==
    /\ epoch < MaxEpoch
    /\ epoch' = epoch + 1
    /\ built' = {}
    /\ consumed' = [l \in Ledgers |-> {}]
    /\ pc' = [c \in Callers |-> "idle"]
    /\ call' = [c \in Callers |-> NotAHandle]
    /\ UNCHANGED <<clock, cert, machine, issued, overlapped, sent>>

LiveNext ==
    \/ \E t \in Transports : BuildTransport(t)
    \/ \E r \in Responses, given \in {NotGiven} \cup RawParams : IssueClearance(r, given)
    \/ \E c \in Callers, t \in Transports, h \in handles \cup {NotAHandle} :
          \E verb \in Verbs(TransportOf[t].kind) : CallVerb(c, t, verb, h)
    \/ \E c \in Callers : CallStep(c)
    \/ Tick
    \/ ReplacePeer
    \/ Restart

\* A started call goes on: a silent peer is given up after the socket timeout, and
\* a peer that answers is read up to the size limit.
LiveSpec ==
    LiveInit /\ [][LiveNext]_liveVars /\ \A c \in Callers : WF_liveVars(CallStep(c))

-------------------------------------------------------------------------------
(* Properties. *)

Requests == {ResponseOf[r].request : r \in Responses}
Verb == UNION {Verbs(TransportOf[t].kind) : t \in Transports}
Handle == {HandleFor(r, given) : r \in Responses, given \in {NotGiven} \cup RawParams}
Issuance ==
    [response : Responses, given : {NotGiven} \cup RawParams, epoch : Nat]
Machine == [power : {"on", "off"}, boot : {"None"} \cup AskedTargets]

Call == [transport : Transports, verb : Verb, handle : Handle, checked : Nat,
         peer : Certs]

SentRequest ==
    [caller : Callers, ledger : Ledgers, epoch : Nat, request : Requests, verb : Verb,
     target : {TransportOf[t].target : t \in Transports},
     provider : {TransportOf[t].provider : t \in Transports},
     peer : Certs, checked : Nat, expires : Nat, acted : BOOLEAN]

\* Every variable keeps the shape the code gives it, and a call that has left
\* "idle" carries its arguments (mutation_gate.py, http_mutate.py).
LiveTypeOK ==
    /\ clock \in Nat /\ cert \in Certs /\ machine \in Machine /\ epoch \in Nat
    /\ built \subseteq Transports
    /\ issued \subseteq Issuance
    /\ overlapped \subseteq [ledger : Ledgers, epoch : Nat, request : Requests]
    /\ consumed \in [Ledgers -> SUBSET Requests]
    /\ pc \in [Callers -> {"idle", "tested", "cleared", "client", "connected", "sent"}]
    /\ call \in [Callers -> Call \cup {NotAHandle}]
    /\ \A c \in Callers : pc[c] \notin {"idle", "sent"} => call[c] \in Call
    /\ sent \in Seq(SentRequest)

\* Within a process and a ledger, no caller sends one request id twice, however
\* handles are reissued for it, answers lost and calls repeated; and two callers
\* both send it only if both found it unused before either had added it
\* (MutationClearanceLedger.consume, which tests and then adds without a lock).
OncePerLedger ==
    \A i, j \in DOMAIN sent :
        /\ i # j
        /\ sent[i].ledger = sent[j].ledger
        /\ sent[i].epoch = sent[j].epoch
        /\ sent[i].request = sent[j].request
        => /\ sent[i].caller # sent[j].caller
           /\ [ledger |-> sent[i].ledger, epoch |-> sent[i].epoch,
               request |-> sent[i].request] \in overlapped

\* Whatever reached a peer goes back to an issuance of the same process from a
\* verified, complete response: with its request id, verb, target and provider,
\* with the parameters that issuance bound, the response's or the ones passed,
\* and last checked before its expiry (issue_... and require_verified_mutation_
\* clearance, request_json).
SentAsCleared ==
    \A i \in DOMAIN sent : \E e \in issued :
        LET r == ResponseOf[e.response] IN
        /\ r.valid /\ r.complete /\ e.epoch = sent[i].epoch
        /\ sent[i].request = r.request
        /\ sent[i].verb.capability = r.capability
        /\ sent[i].verb.params = IF e.given = NotGiven THEN r.fp ELSE e.given
        /\ sent[i].target = r.target /\ sent[i].provider = r.provider
        /\ sent[i].checked < r.expires

\* Credentials and requests go only to a peer that showed the pinned
\* certificate on that connection, whatever was seen when the transport was
\* built (http_mutate.py _enforce_pin).
OnlyPinnedPeer == \A i \in DOMAIN sent : sent[i].peer = Pin

\* A call that was cleared ends, with a result or an error (request_json).
LiveCallsEnd == \A c \in Callers : pc[c] # "idle" ~> pc[c] = "idle"
===============================================================================
