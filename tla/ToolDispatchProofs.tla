--------------------------- MODULE ToolDispatchProofs ---------------------------
(***************************************************************************)
(* For every configuration, fixture and set of requests: an accepted       *)
(* configuration reaches no real machine, what reaches a machine is what   *)
(* the configuration file names for it, what the caller is told agrees     *)
(* with what the machine was told, a playbook only observes, and one       *)
(* approval pays for one call.  And of the policy: its modes are a ladder, *)
(* scopes only narrow it, and the documented dangers are gated.            *)
(***************************************************************************)
EXTENDS ToolDispatch, ConfigLoading, PolicyEvaluation,
        SequenceTheorems, FiniteSetTheorems, TLAPS

-----------------------------------------------------------------------------
(***************************************************************************)
(* What an adapter sends.                                                  *)
(***************************************************************************)
Resources ==
  {"health", "screen", "screenshot", "power", "inventory", "events", "boot",
   "atx/on", "atx/off", "atx/cycle", "atx/reset", "hid/type", "hid/move",
   "hid/click", "msd/mount", "root", "manager", "system", "sensors", "log",
   "system/reset", "manager/reset"}
Sends == [method : {"GET", "POST", "PATCH"}, resource : Resources]
\* The sends that go with a capability: reads to observe, writes otherwise.
Proper(cap, send) ==
  send.method \in (IF cap \in ObserveCaps THEN {"GET"} ELSE {"POST", "PATCH"})
\* One send, or two.
Short(cap, sends) ==
  \/ \E a \in Sends : Proper(cap, a) /\ sends = <<a>>
  \/ \E a, b \in Sends : Proper(cap, a) /\ Proper(cap, b) /\ sends = <<a, b>>

\* PiKVMObserveProvider sends reads for what observes and posts for the rest.
LEMMA PiKVMSendsAreShort ==
  ASSUME NEW cap \in PiKVMCaps
  PROVE  Short(cap, PiKVMSends(cap))
<1>1. CASE cap \in ObserveCaps
  <2>1. cap \in ObserveCaps \ {"observe.sensors"}
    BY <1>1 DEF ObserveCaps, PiKVMCaps
  <2>2. \/ PiKVMReads(cap) = <<Get("screen"), Get("screenshot")>>
        \/ PiKVMReads(cap) = <<Get("health")>> \/ PiKVMReads(cap) = <<Get("screen")>>
        \/ PiKVMReads(cap) = <<Get("power")>> \/ PiKVMReads(cap) = <<Get("inventory")>>
        \/ PiKVMReads(cap) = <<Get("events")>> \/ PiKVMReads(cap) = <<Get("boot")>>
    BY <2>1 DEF PiKVMReads, ObserveCaps
  <2>3. \A r \in Resources : Get(r) \in Sends /\ Proper(cap, Get(r))
    BY <1>1 DEF Get, Sends, Proper
  <2>4. /\ \A r \in Resources : Short(cap, <<Get(r)>>)
        /\ \A r, q \in Resources : Short(cap, <<Get(r), Get(q)>>)
    BY <2>3 DEF Short
  <2>. QED
    BY <1>1, <2>2, <2>4 DEF PiKVMSends, Resources
<1>2. CASE cap \notin ObserveCaps
  <2>1. \/ PiKVMPosts(cap) = <<Post("atx/on")>> \/ PiKVMPosts(cap) = <<Post("atx/off")>>
        \/ PiKVMPosts(cap) = <<Post("atx/cycle")>> \/ PiKVMPosts(cap) = <<Post("atx/reset")>>
        \/ PiKVMPosts(cap) = <<Post("hid/type")>> \/ PiKVMPosts(cap) = <<Post("hid/move")>>
        \/ PiKVMPosts(cap) = <<Post("hid/click")>> \/ PiKVMPosts(cap) = <<Post("msd/mount")>>
    BY <1>2 DEF PiKVMPosts, ObserveCaps, PiKVMCaps
  <2>2. \A r \in Resources : Post(r) \in Sends /\ Proper(cap, Post(r))
    BY <1>2 DEF Post, Sends, Proper
  <2>3. \A r \in Resources : Short(cap, <<Post(r)>>)
    BY <2>2 DEF Short
  <2>. QED
    BY <1>2, <2>1, <2>3 DEF PiKVMSends, Resources
<1>. QED
  BY <1>1, <1>2

\* RedfishObserveProvider likewise.
LEMMA RedfishSendsAreShort ==
  ASSUME NEW cap \in RedfishCaps
  PROVE  Short(cap, RedfishSends(cap))
<1>1. CASE cap \in ObserveCaps
  <2>1. \/ RedfishSends(cap) = <<Get("root"), Get("manager")>>
        \/ RedfishSends(cap) = <<Get("system")>> \/ RedfishSends(cap) = <<Get("sensors")>>
        \/ RedfishSends(cap) = <<Get("log")>>
    BY <1>1 DEF RedfishSends, RedfishCaps, RedfishResets, ObserveCaps
  <2>2. \A r \in Resources : Get(r) \in Sends /\ Proper(cap, Get(r))
    BY <1>1 DEF Get, Sends, Proper
  <2>3. /\ \A r \in Resources : Short(cap, <<Get(r)>>)
        /\ \A r, q \in Resources : Short(cap, <<Get(r), Get(q)>>)
    BY <2>2 DEF Short
  <2>. QED
    BY <2>1, <2>3 DEF Resources
<1>2. CASE cap \notin ObserveCaps
  <2>1. cap \in RedfishResets \cup {"boot.override", "bmc.reset"}
    BY <1>2 DEF RedfishCaps, RedfishResets, ObserveCaps
  <2>2. \/ RedfishSends(cap) = <<Post("system/reset")>>
        \/ RedfishSends(cap) = <<Patch("system")>>
        \/ RedfishSends(cap) = <<Post("manager/reset")>>
    BY <2>1 DEF RedfishSends, RedfishResets
  <2>3. \A r \in Resources : /\ Post(r) \in Sends /\ Proper(cap, Post(r))
                          /\ Patch(r) \in Sends /\ Proper(cap, Patch(r))
    BY <1>2 DEF Post, Patch, Sends, Proper
  <2>4. \A r \in Resources : Short(cap, <<Post(r)>>) /\ Short(cap, <<Patch(r)>>)
    BY <2>3 DEF Short
  <2>. QED
    BY <2>2, <2>4 DEF Resources
<1>. QED
  BY <1>1, <1>2

\* What a transport records is a prefix of what it is sent, the whole of it
\* when nothing fails (FakeTransport.request).
LEMMA RecordedIsPrefix ==
  ASSUME NEW cap, NEW fix, NEW sends, Short(cap, sends)
  PROVE  /\ Recorded(fix, sends) \in Seq(Sends)
         /\ \A i \in DOMAIN Recorded(fix, sends) : Proper(cap, Recorded(fix, sends)[i])
         /\ Failing(fix, sends) = {} => /\ Recorded(fix, sends) = sends
                                        /\ DOMAIN sends # {}
<1>1. /\ sends \in Seq(Sends) /\ Len(sends) \in {1, 2}
      /\ \A i \in 1..Len(sends) : sends[i] \in Sends /\ Proper(cap, sends[i])
  <2>1. CASE \E a \in Sends : Proper(cap, a) /\ sends = <<a>>
    BY <2>1
  <2>2. CASE \E a, b \in Sends : Proper(cap, a) /\ Proper(cap, b) /\ sends = <<a, b>>
    <3>1. PICK a \in Sends, b \in Sends :
            Proper(cap, a) /\ Proper(cap, b) /\ sends = <<a, b>>
      BY <2>2
    <3>. QED
      BY <3>1
  <2>. QED
    BY <2>1, <2>2 DEF Short
<1>2. CASE Failing(fix, sends) = {}
  BY <1>1, <1>2 DEF Recorded
<1>3. CASE Failing(fix, sends) # {}
  <2>1. Failing(fix, sends) \subseteq 1..2 /\ Failing(fix, sends) \subseteq 1..Len(sends)
    BY <1>1 DEF Failing
  <2>2. Min(Failing(fix, sends)) \in 1..Len(sends)
    <3>1. \E x \in Failing(fix, sends) : \A y \in Failing(fix, sends) : x =< y
      BY <1>3, <2>1
    <3>. QED
      BY <3>1, <2>1 DEF Min
  <2> DEFINE first == Min(Failing(fix, sends))
             last == IF Refuses(fix, sends[first]) THEN first - 1 ELSE first
  <2>3. Recorded(fix, sends) = SubSeq(sends, 1, last)
    BY <1>3 DEF Recorded
  <2>4. last \in 0..Len(sends)
    BY <2>2, <1>1
  <2>5. /\ SubSeq(sends, 1, last) \in Seq(Sends)
        /\ Len(SubSeq(sends, 1, last)) = last
        /\ \A i \in 1..last : SubSeq(sends, 1, last)[i] = sends[i]
    <3> HIDE DEF last
    <3>1. \A i \in 1..last : sends[i] \in Sends
      BY <1>1, <2>4
    <3>2. last \in Int /\ 1 \in Int
      BY <1>1, <2>4
    <3>. QED
      BY <3>1, <3>2, <2>4, SubSeqProperties
  <2>. QED
    <3> HIDE DEF last
    <3>. QED
      BY <1>1, <1>3, <2>3, <2>4, <2>5
<1>. QED
  BY <1>2, <1>3

Kinds == {"mock", "pikvm", "redfish"}

\* execute_authorized: only proper sends, and all of them, none failing, when
\* the outcome is ok.
LEMMA PerformProperly ==
  ASSUME NEW kind \in Kinds, NEW fix, NEW cap, NEW params
  PROVE  LET done == Perform(kind, fix, cap, params) IN
         /\ DOMAIN done.sends \subseteq Nat
         /\ done.outcome \in {"ok", "error", "raises"}
         /\ \A i \in DOMAIN done.sends :
              IF kind = "mock" THEN done.sends[i].method = "request"
              ELSE Proper(cap, done.sends[i])
         /\ done.outcome = "ok" =>
              /\ DOMAIN done.sends # {}
              /\ kind # "mock" => \A i \in DOMAIN done.sends : ~Fails(fix, done.sends[i])
<1> DEFINE done == Perform(kind, fix, cap, params)
<1>1. CASE ~Supports(kind, cap)
  BY <1>1 DEF Perform, Performed
<1>2. CASE Supports(kind, cap) /\ kind = "mock"
  BY <1>2 DEF Perform, Performed, Request
<1>3. CASE Supports(kind, cap) /\ kind = "pikvm" /\ ~Calibrates(cap, params)
  BY <1>3 DEF Perform, Performed
<1>4. CASE /\ Supports(kind, cap) /\ kind # "mock"
           /\ ~(kind = "pikvm" /\ ~Calibrates(cap, params))
  <2> DEFINE sends == SendsOf(kind, cap)
  <2>1. done = Performed(Recorded(fix, sends), SendOutcome(kind, fix, sends))
    BY <1>4 DEF Perform
  <2>2. Short(cap, sends)
    BY <1>4, PiKVMSendsAreShort, RedfishSendsAreShort DEF Kinds, Supports, SendsOf
  <2>3. /\ done.sends = Recorded(fix, sends)
        /\ done.outcome = SendOutcome(kind, fix, sends)
    BY <2>1 DEF Performed
  <2>4. done.outcome \in {"ok", "error", "raises"}
    BY <2>3 DEF SendOutcome, Failed
  <2>5. done.outcome = "ok" => Failing(fix, sends) = {}
    BY <2>3 DEF SendOutcome, Failed
  <2> HIDE DEF sends, done
  <2>6. /\ done.sends \in Seq(Sends)
        /\ \A i \in DOMAIN done.sends : Proper(cap, done.sends[i])
        /\ Failing(fix, sends) = {} => done.sends = sends /\ DOMAIN sends # {}
    BY <2>2, <2>3, RecordedIsPrefix
  <2>7. Failing(fix, sends) = {} => \A i \in DOMAIN sends : ~Fails(fix, sends[i])
    BY DEF Failing
  <2>. QED
    BY <1>4, <2>4, <2>5, <2>6, <2>7 DEF done
<1>. QED
  BY <1>1, <1>2, <1>3, <1>4

-----------------------------------------------------------------------------
(***************************************************************************)
(* What a call ends at.                                                    *)
(***************************************************************************)
\* TargetRegistry.resolve_enabled over an accepted configuration: the adapter
\* is the one of the provider entry the target names, a mock or a fixture.
LEMMA ResolvedAdapter ==
  ASSUME NEW raw, Accepted(raw), NEW id, NEW m, Resolves(raw, id, m)
  PROVE  LET target == TargetOf(raw, id)
             provider == ProviderOf(raw, target.provider)
             adapter == AdapterFor(raw, id)
         IN /\ target.enabled /\ provider.enabled
            /\ target.allowed_modes = {} \/ m \in target.allowed_modes
            /\ adapter.id = provider.id /\ adapter.kind = provider.type
            /\ adapter.kind \in Kinds
            /\ provider.type = "mock" \/ (provider.fixture_mode /\ ~provider.live_mode)
<1> DEFINE target == TargetOf(raw, id)
           provider == ProviderOf(raw, target.provider)
           adapter == AdapterFor(raw, id)
<1>1. adapter = AdapterOf(provider)
  BY DEF AdapterFor
<1>2. \E j \in DOMAIN raw.providers : provider = raw.providers[j]
  <2>1. \E i \in DOMAIN raw.targets : target = raw.targets[i]
    BY DEF Resolves, TargetIds, TargetOf
  <2>2. \E j \in DOMAIN raw.providers : raw.providers[j].id = target.provider
    BY <2>1 DEF Accepted, ValidTargets
  <2>. QED
    BY <2>2 DEF ProviderOf
<1>3. target.enabled /\ (target.allowed_modes = {} \/ m \in target.allowed_modes)
  BY DEF Resolves, AllowsMode
<1>4. IsExecutable(provider)
  BY DEF Resolves
<1> HIDE DEF target, provider, adapter
<1>5. provider.enabled /\ adapter # NoAdapter
  BY <1>1, <1>4 DEF IsExecutable
<1>6. ValidProvider(provider) /\ ValidEntry(provider)
  BY <1>2 DEF Accepted, ValidProviders
<1>7. adapter.id = provider.id /\ adapter.kind = provider.type
  BY <1>1, <1>5, <1>6 DEF ValidEntry
<1>8. \/ provider.type = "mock"
      \/ provider.type \in {"pikvm", "redfish"} /\ provider.fixture_mode
  BY <1>1, <1>5 DEF AdapterOf
<1>9. provider.type \in {"pikvm", "redfish"} =>
        ~(provider.fixture_mode /\ provider.live_mode)
  BY <1>6 DEF ValidProvider, ValidMetadata
<1>. QED
  BY <1>3, <1>5, <1>7, <1>8, <1>9 DEF target, provider, adapter, Kinds

\* Something was served in order: a sequence, of whatever.
ServedInOrder == \E S : served \in Seq(S)

\* Answer adds one call at the end and leaves the ones before alone.
LEMMA AnswerAppends ==
  ASSUME NEW req, NEW status, NEW events, Answer(req, status, events), ServedInOrder
  PROVE  /\ Len(served) \in Nat
         /\ Len(served)' = Len(served) + 1
         /\ DOMAIN served = 1..Len(served) /\ (DOMAIN served)' = 1..(Len(served) + 1)
         /\ ServedInOrder'
         /\ \A c \in 1..Len(served) : served'[c] = served[c]
         /\ served'[Len(served) + 1].req = req
         /\ served'[Len(served) + 1].status = status
<1> DEFINE item == [req |-> req, mode |-> mode, by |-> run.name, status |-> status]
<1>1. served' = Append(served, item)
  BY DEF Answer
<1>2. PICK S : served \in Seq(S)
  BY DEF ServedInOrder
<1>3. served \in Seq(S \cup {item}) /\ item \in S \cup {item}
  <2>1. Len(served) \in Nat /\ DOMAIN served = 1..Len(served)
    BY <1>2, LenProperties
  <2>2. served \in [1..Len(served) -> S]
    BY <1>2, LenProperties
  <2>3. served \in [1..Len(served) -> S \cup {item}]
    BY <2>2
  <2>. QED
    BY <2>1, <2>3, SeqDef
<1> HIDE DEF item
<1>4. /\ Append(served, item) \in Seq(S \cup {item})
      /\ Len(Append(served, item)) = Len(served) + 1
      /\ \A i \in 1..Len(served) : Append(served, item)[i] = served[i]
      /\ Append(served, item)[Len(served) + 1] = item
  BY <1>3, AppendProperties
<1>5. Len(served) \in Nat /\ DOMAIN served = 1..Len(served)
  BY <1>2, LenProperties
<1>6. (DOMAIN served)' = 1..(Len(served) + 1)
  BY <1>1, <1>4, LenProperties
<1>7. ServedInOrder'
  BY <1>1, <1>4 DEF ServedInOrder
<1>8. item.req = req /\ item.status = status
  BY DEF item
<1>. QED
  BY <1>1, <1>4, <1>5, <1>6, <1>7, <1>8

\* A call that is refused, held or lost sends nothing, and unless the caller
\* got an exception the log has its result.
Held == {"validation_error", "denied", "approval_required", "clearance_required"}
LEMMA QuietCall ==
  ASSUME NEW req, RefuseCall(req) \/ HoldCall(req) \/ LoseCall(req)
  PROVE  /\ NothingSent
         /\ \E status \in Held \cup {"policy_error"} : \E events :
              Answer(req, status, events) /\ (status \in Held => "result" \in events)
<1>1. CASE RefuseCall(req)
  BY <1>1 DEF RefuseCall, Held
<1>2. CASE HoldCall(req)
  BY <1>2 DEF HoldCall, Held
<1>3. CASE LoseCall(req)
  BY <1>3 DEF LoseCall, Held
<1>. QED
  BY <1>1, <1>2, <1>3

\* A call that runs: what its adapter is told, and what is said of it.
DoneFor(req) ==
  Perform(AdapterFor(config, req.target).kind, fixture, ToolCapability[req.tool], req.params)
LEMMA LoudCall ==
  ASSUME NEW req, RunCall(req)
  PROVE  /\ Routed(req)
         /\ sent' = sent \cup Told(AdapterFor(config, req.target).id, DoneFor(req).sends)
         /\ mock' = IF AdapterFor(config, req.target).kind = "mock"
                      THEN Simulate(mock, ToolCapability[req.tool]) ELSE mock
         /\ \E status \in {"ok", "provider_error", "policy_error"} : \E events :
              /\ Answer(req, status, events)
              /\ "started" \in events
              /\ status = "ok" => "ended" \in events /\ DoneFor(req).outcome = "ok"
<1>1. Routed(req)
  BY DEF RunCall, MayRun
<1>2. /\ sent' = sent \cup Told(AdapterFor(config, req.target).id, DoneFor(req).sends)
      /\ mock' = IF AdapterFor(config, req.target).kind = "mock"
                   THEN Simulate(mock, ToolCapability[req.tool]) ELSE mock
  BY DEF RunCall, DoneFor
<1>3. \/ Answer(req, StatusOf(DoneFor(req).outcome),
                IF DoneFor(req).outcome = "raises" THEN {"started"}
                ELSE {"started", "ended", "result"})
      \/ Answer(req, "policy_error", {"started"})
  BY DEF RunCall, DoneFor
<1>4. Resolves(config, req.target, mode)
  BY <1>1 DEF Routed
<1>. QED
  <2>1. CASE Answer(req, "policy_error", {"started"})
    BY <1>1, <1>2, <2>1
  <2>2. CASE Answer(req, StatusOf(DoneFor(req).outcome),
                    IF DoneFor(req).outcome = "raises" THEN {"started"}
                    ELSE {"started", "ended", "result"})
    <3>1. DoneFor(req).outcome \in {"ok", "error", "raises"}
      <4>1. SendOutcome(AdapterFor(config, req.target).kind, fixture,
              SendsOf(AdapterFor(config, req.target).kind, ToolCapability[req.tool]))
            \in {"ok", "error", "raises"}
        BY DEF SendOutcome, Failed
      <4>. QED
        BY <4>1 DEF DoneFor, Perform, Performed
    <3>2. CASE DoneFor(req).outcome = "ok"
      BY <1>1, <1>2, <2>2, <3>2 DEF StatusOf
    <3>3. CASE DoneFor(req).outcome = "error"
      BY <1>1, <1>2, <2>2, <3>3 DEF StatusOf
    <3>4. CASE DoneFor(req).outcome = "raises"
      BY <1>1, <1>2, <2>2, <3>4 DEF StatusOf
    <3>. QED
      BY <3>1, <3>2, <3>3, <3>4
  <2>. QED
    BY <1>3, <2>1, <2>2

-----------------------------------------------------------------------------
(***************************************************************************)
(* The invariant: an accepted configuration, a log of calls that only      *)
(* grows at its end, and nothing sent outside a call.                      *)
(***************************************************************************)
ServedInv ==
  /\ Accepted(config)
  /\ ServedInOrder
  /\ \A s \in sent : s.call \in 1..Len(served)

\* The steps that answer nothing.
Quiet == UNCHANGED <<config, mode, fixture, mock, served, sent, log>>

LEMMA NextIsCallOrQuiet ==
  ASSUME [DispatchNext]_dispatchVars
  PROVE  \/ \E req : Dispatch(req)
         \/ Quiet
<1>1. CASE CallTool
  BY <1>1 DEF CallTool
<1>2. CASE StartPlaybook
  BY <1>2 DEF StartPlaybook, Quiet
<1>3. CASE RunStep
  BY <1>3 DEF RunStep
<1>4. CASE Approve
  BY <1>4 DEF Approve, Quiet
<1>5. CASE UNCHANGED dispatchVars
  BY <1>5 DEF dispatchVars, Quiet
<1>. QED
  BY <1>1, <1>2, <1>3, <1>4, <1>5 DEF DispatchNext

LEMMA ServedStep ==
  ASSUME ServedInv, [DispatchNext]_dispatchVars
  PROVE  ServedInv'
<1>1. CASE Quiet
  BY <1>1 DEF Quiet, ServedInv, ServedInOrder
<1>2. ASSUME NEW req, RefuseCall(req) \/ HoldCall(req) \/ LoseCall(req)
      PROVE  ServedInv'
  <2>1. PICK status, events : Answer(req, status, events)
    BY <1>2, QuietCall
  <2>2. sent' = sent
    BY <1>2, QuietCall DEF NothingSent
  <2>3. ServedInOrder' /\ Len(served)' = Len(served) + 1 /\ Len(served) \in Nat
    BY <2>1, AnswerAppends DEF ServedInv
  <2>4. config' = config
    BY <2>1 DEF Answer
  <2>. QED
    BY <2>2, <2>3, <2>4 DEF ServedInv
<1>3. ASSUME NEW req, RunCall(req)
      PROVE  ServedInv'
  <2>1. PICK status, events : Answer(req, status, events)
    BY <1>3, LoudCall
  <2>2. sent' = sent \cup Told(AdapterFor(config, req.target).id, DoneFor(req).sends)
    BY <1>3, LoudCall
  <2>3. ServedInOrder' /\ Len(served)' = Len(served) + 1 /\ Len(served) \in Nat
    BY <2>1, AnswerAppends DEF ServedInv
  <2>4. config' = config
    BY <2>1 DEF Answer
  <2>5. \A s \in Told(AdapterFor(config, req.target).id, DoneFor(req).sends) :
          s.call = Len(served) + 1
    BY DEF Told
  <2>. QED
    BY <2>2, <2>3, <2>4, <2>5 DEF ServedInv
<1>. QED
  BY <1>1, <1>2, <1>3, NextIsCallOrQuiet DEF Dispatch

LEMMA ServedInvHolds == DispatchSpec => []ServedInv
<1>1. DispatchInit => ServedInv
  <2>1. <<>> \in Seq({})
    BY EmptySeq
  <2>. QED
    BY <2>1 DEF DispatchInit, ServedInv, ServedInOrder
<1>2. ServedInv /\ [DispatchNext]_dispatchVars => ServedInv'
  BY ServedStep
<1>. QED
  BY <1>1, <1>2, PTL DEF DispatchSpec

-----------------------------------------------------------------------------
(***************************************************************************)
(* The machine a call reaches.                                             *)
(***************************************************************************)
\* What ToldAsConfigured says of one send, of a request served over "raw".
ConfiguredSend(raw, m, req, s) ==
  LET target == TargetOf(raw, req.target)
      provider == ProviderOf(raw, target.provider)
  IN /\ s.adapter = provider.id
     /\ target.enabled /\ provider.enabled
     /\ provider.type = "mock" \/ (provider.fixture_mode /\ ~provider.live_mode)
     /\ target.allowed_modes = {} \/ m \in target.allowed_modes
     /\ s.send.method \in (IF provider.type = "mock" THEN {"request"}
                           ELSE IF ToolCapability[req.tool] \in ObserveCaps
                                  THEN {"GET"} ELSE {"POST", "PATCH"})

LEMMA ToldIsConfigured ==
  ASSUME Accepted(config), NEW req, Routed(req),
         NEW s \in Told(AdapterFor(config, req.target).id, DoneFor(req).sends)
  PROVE  ConfiguredSend(config, mode, req, s)
<1> DEFINE target == TargetOf(config, req.target)
           provider == ProviderOf(config, target.provider)
           adapter == AdapterFor(config, req.target)
<1>1. /\ target.enabled /\ provider.enabled
      /\ target.allowed_modes = {} \/ mode \in target.allowed_modes
      /\ adapter.id = provider.id /\ adapter.kind = provider.type
      /\ adapter.kind \in Kinds
      /\ provider.type = "mock" \/ (provider.fixture_mode /\ ~provider.live_mode)
  BY ResolvedAdapter DEF Routed
<1>2. PICK i \in DOMAIN DoneFor(req).sends :
        s.adapter = adapter.id /\ s.send = DoneFor(req).sends[i]
  BY DEF Told
<1>3. IF adapter.kind = "mock" THEN DoneFor(req).sends[i].method = "request"
      ELSE Proper(ToolCapability[req.tool], DoneFor(req).sends[i])
  BY <1>1, <1>2, PerformProperly DEF DoneFor
<1> HIDE DEF target, provider, adapter
<1>4. s.send.method \in (IF provider.type = "mock" THEN {"request"}
                         ELSE IF ToolCapability[req.tool] \in ObserveCaps
                                THEN {"GET"} ELSE {"POST", "PATCH"})
  BY <1>1, <1>2, <1>3 DEF Proper
<1>. QED
  BY <1>1, <1>2, <1>4 DEF ConfiguredSend, target, provider

LEMMA ToldStep ==
  ASSUME ServedInv, ToldAsConfigured, [DispatchNext]_dispatchVars
  PROVE  ToldAsConfigured'
<1>1. \A s \in sent : ConfiguredSend(config, mode, served[s.call].req, s)
  BY DEF ToldAsConfigured, ConfiguredSend
<1>2. SUFFICES \A s \in sent' : ConfiguredSend(config', mode', served'[s.call].req, s)
  BY DEF ToldAsConfigured, ConfiguredSend
<1>3. CASE Quiet
  BY <1>1, <1>3 DEF Quiet
<1>4. ASSUME NEW req, Dispatch(req)
      PROVE  \A s \in sent' : ConfiguredSend(config', mode', served'[s.call].req, s)
  <2>1. PICK status, events : Answer(req, status, events)
    BY <1>4, QuietCall, LoudCall DEF Dispatch
  <2>2. /\ \A c \in 1..Len(served) : served'[c] = served[c]
        /\ served'[Len(served) + 1].req = req
    BY <2>1, AnswerAppends DEF ServedInv
  <2>3. config' = config /\ mode' = mode
    BY <2>1 DEF Answer
  <2>4. \A s \in sent : ConfiguredSend(config', mode', served'[s.call].req, s)
    BY <1>1, <2>2, <2>3 DEF ServedInv
  <2>5. CASE RunCall(req)
    <3>1. \A s \in Told(AdapterFor(config, req.target).id, DoneFor(req).sends) :
            /\ ConfiguredSend(config, mode, req, s)
            /\ s.call = Len(served) + 1
      <4>1. \A s \in Told(AdapterFor(config, req.target).id, DoneFor(req).sends) :
              ConfiguredSend(config, mode, req, s)
        BY <2>5, LoudCall, ToldIsConfigured DEF ServedInv
      <4>2. \A s \in Told(AdapterFor(config, req.target).id, DoneFor(req).sends) :
              s.call = Len(served) + 1
        BY DEF Told
      <4>. QED
        BY <4>1, <4>2
    <3>2. sent' = sent \cup Told(AdapterFor(config, req.target).id, DoneFor(req).sends)
      BY <2>5, LoudCall
    <3>. QED
      BY <2>2, <2>3, <2>4, <3>1, <3>2
  <2>6. CASE sent' = sent
    BY <2>4, <2>6
  <2>. QED
    BY <1>4, <2>5, <2>6, QuietCall DEF Dispatch, NothingSent
<1>. QED
  BY <1>3, <1>4, NextIsCallOrQuiet

\* ToolDispatch.ToldAsConfigured, for every configuration, fixture and request:
\* the adapter a call reaches (router.handle_tool_request) is the one its
\* target's provider entry was given when the configuration was loaded.
THEOREM ToldAsConfiguredHolds == DispatchSpec => []ToldAsConfigured
<1>1. DispatchInit => ToldAsConfigured
  BY DEF DispatchInit, ToldAsConfigured
<1>2. ServedInv /\ ToldAsConfigured /\ [DispatchNext]_dispatchVars => ToldAsConfigured'
  BY ToldStep
<1>. QED
  BY <1>1, <1>2, ServedInvHolds, PTL DEF DispatchSpec

-----------------------------------------------------------------------------
(***************************************************************************)
(* What the caller is told of it.                                          *)
(***************************************************************************)
\* What AnswerMatchesWire says of one call.
Matches(status, sends, events, fix) ==
  /\ status \in Held => sends = {} /\ "result" \in events
  /\ status = "ok" =>
       /\ "ended" \in events
       /\ sends # {}
       /\ \A s \in sends : s.send.method # "request" => ~Fails(fix, s.send)
  /\ sends # {} => "started" \in events

\* What a call adds to the log is about itself.
LEMMA AnswerLogs ==
  ASSUME ServedInv, NEW req, NEW status, NEW events, Answer(req, status, events),
         NEW c \in 1..(Len(served) + 1)
  PROVE  /\ c # Len(served) + 1 => LogOf(c)' = LogOf(c)
         /\ c = Len(served) + 1 => events \subseteq LogOf(c)'
<1>1. log' = log \cup {[call |-> Len(served) + 1, event |-> e] : e \in events}
  BY DEF Answer
<1>2. ASSUME c # Len(served) + 1
      PROVE  LogOf(c)' = LogOf(c)
  <2>1. {f \in log' : f.call = c} = {f \in log : f.call = c}
    BY <1>1, <1>2
  <2>. QED
    BY <2>1 DEF LogOf
<1>3. ASSUME c = Len(served) + 1
      PROVE  events \subseteq LogOf(c)'
  <2>1. \A e \in events : [call |-> c, event |-> e] \in {f \in log' : f.call = c}
    BY <1>1, <1>3
  <2>2. ASSUME NEW e \in events
        PROVE  e \in LogOf(c)'
    <3>1. \E f \in {g \in log' : g.call = c} : f.event = e
      <4>1. [call |-> c, event |-> e].event = e
        OBVIOUS
      <4>. QED
        BY <2>1, <4>1
    <3>. QED
      BY <3>1 DEF LogOf
  <2>. QED
    BY <2>2
<1>. QED
  BY <1>2, <1>3

LEMMA MatchStep ==
  ASSUME ServedInv, AnswerMatchesWire, [DispatchNext]_dispatchVars
  PROVE  AnswerMatchesWire'
<1>1. \A c \in DOMAIN served : Matches(served[c].status, SentIn(c), LogOf(c), fixture)
  BY DEF AnswerMatchesWire, Matches, Calls, Held
<1>2. SUFFICES \A c \in DOMAIN served' :
                 Matches(served'[c].status, SentIn(c)', LogOf(c)', fixture')
  BY DEF AnswerMatchesWire, Matches, Calls, Held
<1>3. CASE Quiet
  BY <1>1, <1>3 DEF Quiet, SentIn, LogOf
<1>4. ASSUME NEW req, Dispatch(req), NEW c \in DOMAIN served'
      PROVE  Matches(served'[c].status, SentIn(c)', LogOf(c)', fixture')
  <2>1. CASE RunCall(req)
    <3>1. PICK status, events :
            /\ status \in {"ok", "provider_error", "policy_error"}
            /\ Answer(req, status, events)
            /\ "started" \in events
            /\ status = "ok" => "ended" \in events /\ DoneFor(req).outcome = "ok"
      BY <2>1, LoudCall
    <3>2. /\ Len(served) \in Nat
          /\ DOMAIN served = 1..Len(served) /\ DOMAIN served' = 1..(Len(served) + 1)
          /\ \A d \in 1..Len(served) : served'[d] = served[d]
          /\ served'[Len(served) + 1].status = status
      BY <3>1, AnswerAppends DEF ServedInv
    <3>3. /\ sent' = sent \cup Told(AdapterFor(config, req.target).id, DoneFor(req).sends)
          /\ fixture' = fixture
      BY <2>1, <3>1, LoudCall DEF Answer
    <3>4. CASE c # Len(served) + 1
      <4>1. SentIn(c)' = SentIn(c)
        BY <3>3, <3>4 DEF SentIn, Told
      <4>2. LogOf(c)' = LogOf(c)
        BY <3>1, <3>2, <3>4, AnswerLogs
      <4>. QED
        BY <1>1, <3>2, <3>3, <3>4, <4>1, <4>2
    <3>5. CASE c = Len(served) + 1
      <4>1. SentIn(c)' = Told(AdapterFor(config, req.target).id, DoneFor(req).sends)
        BY <3>2, <3>3, <3>5 DEF SentIn, Told, ServedInv
      <4>2. events \subseteq LogOf(c)'
        BY <3>1, <3>2, <3>5, AnswerLogs
      <4>3. AdapterFor(config, req.target).kind \in Kinds
        BY <2>1, LoudCall, ResolvedAdapter DEF Routed, ServedInv
      <4>4. status = "ok" =>
              /\ DOMAIN DoneFor(req).sends # {}
              /\ \A i \in DOMAIN DoneFor(req).sends :
                   \/ DoneFor(req).sends[i].method = "request"
                   \/ ~Fails(fixture, DoneFor(req).sends[i])
        BY <3>1, <4>3, PerformProperly DEF DoneFor
      <4>5. status = "ok" =>
              /\ SentIn(c)' # {}
              /\ \A s \in SentIn(c)' : s.send.method # "request" => ~Fails(fixture', s.send)
        <5> DEFINE sends == DoneFor(req).sends
        <5>1. \A s \in SentIn(c)' : \E i \in DOMAIN sends : s.send = sends[i]
          BY <4>1 DEF Told
        <5>2. DOMAIN sends # {} => SentIn(c)' # {}
          BY <4>1 DEF Told
        <5> HIDE DEF sends
        <5>. QED
          BY <3>3, <4>4, <5>1, <5>2 DEF sends
      <4>. QED
        BY <3>1, <3>2, <3>5, <4>2, <4>5 DEF Matches, Held
    <3>. QED
      BY <3>4, <3>5
  <2>2. CASE RefuseCall(req) \/ HoldCall(req) \/ LoseCall(req)
    <3>1. sent' = sent
      BY <2>2, QuietCall DEF NothingSent
    <3>2. PICK status, events :
            /\ status \in Held \cup {"policy_error"}
            /\ Answer(req, status, events) /\ (status \in Held => "result" \in events)
      BY <2>2, QuietCall
    <3>3. /\ Len(served) \in Nat
          /\ DOMAIN served = 1..Len(served) /\ DOMAIN served' = 1..(Len(served) + 1)
          /\ \A d \in 1..Len(served) : served'[d] = served[d]
          /\ served'[Len(served) + 1].status = status
      BY <3>2, AnswerAppends DEF ServedInv
    <3>4. SentIn(c)' = SentIn(c) /\ fixture' = fixture
      BY <3>1, <3>2 DEF SentIn, Answer
    <3>5. CASE c # Len(served) + 1
      <4>1. LogOf(c)' = LogOf(c)
        BY <3>2, <3>3, <3>5, AnswerLogs
      <4>. QED
        BY <1>1, <3>3, <3>4, <3>5, <4>1
    <3>6. CASE c = Len(served) + 1
      <4>1. SentIn(c) = {}
        BY <3>3, <3>6 DEF SentIn, ServedInv
      <4>2. events \subseteq LogOf(c)'
        BY <3>2, <3>3, <3>6, AnswerLogs
      <4>3. status # "ok"
        BY <3>2 DEF Held
      <4>. QED
        BY <3>2, <3>3, <3>4, <3>6, <4>1, <4>2, <4>3 DEF Matches
    <3>. QED
      BY <3>5, <3>6
  <2>. QED
    BY <1>4, <2>1, <2>2 DEF Dispatch
<1>. QED
  BY <1>3, <1>4, NextIsCallOrQuiet

\* ToolDispatch.AnswerMatchesWire, for every configuration, fixture and request:
\* whatever handle_tool_request answers, the wire and the log bear it out.
THEOREM AnswerMatchesWireHolds == DispatchSpec => []AnswerMatchesWire
<1>1. DispatchInit => AnswerMatchesWire
  BY DEF DispatchInit, AnswerMatchesWire, Calls
<1>2. ServedInv /\ AnswerMatchesWire /\ [DispatchNext]_dispatchVars => AnswerMatchesWire'
  BY MatchStep
<1>. QED
  BY <1>1, <1>2, ServedInvHolds, PTL DEF DispatchSpec

-----------------------------------------------------------------------------
(***************************************************************************)
(* Playbooks.                                                              *)
(***************************************************************************)
\* The invariants: the step to run is one of the playbook's, and the mock's
\* state has its five parts.
RunInv ==
  run # Idle =>
    /\ run.name \in Playbooks
    /\ run.step \in DOMAIN StepsOf(run.name)
    /\ \E name, target, step : run = [name |-> name, target |-> target, step |-> step]
MockInv ==
  \E power, media, boot, inputs, events :
    mock = [power |-> power, media |-> media, boot |-> boot,
            inputs |-> inputs, events |-> events]

\* MockProvider._simulate, and what a playbook may run: reading changes nothing.
LEMMA ObservingChangesNothing ==
  ASSUME MockInv, NEW cap \in ObserveCaps
  PROVE  Simulate(mock, cap) = mock
<1>1. cap \in SilentCaps /\ cap \notin InputCaps
  BY DEF SilentCaps, InputCaps, ObserveCaps
<1>2. /\ cap \notin {"power.graceful_shutdown", "power.force_off"}
      /\ cap \notin {"power.on", "power.graceful_restart", "power.force_restart",
                     "power.power_cycle"}
      /\ cap \notin {"media.mount_approved_iso", "media.mount_arbitrary_iso"}
      /\ cap # "media.eject" /\ cap # "boot.override"
  BY DEF ObserveCaps
<1>3. Simulate(mock, cap) =
        [power |-> mock.power, media |-> mock.media, boot |-> mock.boot,
         inputs |-> mock.inputs, events |-> mock.events]
  BY <1>1, <1>2 DEF Simulate
<1>. QED
  BY <1>3 DEF MockInv

LEMMA StepsObserve ==
  ASSUME NEW name \in Playbooks, NEW i \in DOMAIN StepsOf(name)
  PROVE  ToolCapability[StepsOf(name)[i]] \in ObserveCaps
<1>1. ToolCapability[StepsOf(name)[i]] \in RequiredOf(name)
  BY PlaybooksAreValid
<1>2. RequiredOf(name) \subseteq ObserveCaps
  BY DEF RequiredOf, Playbooks, ObserveCaps
<1>. QED
  BY <1>1, <1>2

LEMMA PlaybookStep ==
  ASSUME RunInv, [DispatchNext]_dispatchVars
  PROVE  RunInv'
<1>1. ASSUME NEW req, Dispatch(req)
      PROVE  RunInv'
  <2>1. PICK status, events : Answer(req, status, events)
    BY <1>1, QuietCall, LoudCall DEF Dispatch
  <2>2. run' = IF run = Idle THEN Idle ELSE AfterStep(run, status)
    BY <2>1 DEF Answer
  <2>3. CASE run' = Idle
    BY <2>3 DEF RunInv
  <2>4. CASE run' # Idle
    <3>1. /\ run # Idle
          /\ run' = [run EXCEPT !.step = @ + 1]
          /\ run.step < Len(StepsOf(run.name))
      BY <2>2, <2>4 DEF AfterStep
    <3>2. PICK name, target, step : run = [name |-> name, target |-> target, step |-> step]
      BY <3>1 DEF RunInv
    <3>3. run' = [name |-> name, target |-> target, step |-> step + 1]
      BY <3>1, <3>2
    <3>4. name \in Playbooks /\ step \in DOMAIN StepsOf(name) /\ step < Len(StepsOf(name))
      BY <3>1, <3>2 DEF RunInv
    <3>5. \E S : StepsOf(name) \in Seq(S)
      <4> DEFINE S == {"get_status", "get_power_state", "get_boot_status", "observe_screen"}
      <4>1. \A a, b, c, d \in S : /\ <<a>> \in Seq(S) /\ <<a, b>> \in Seq(S)
                                 /\ <<a, b, c, d>> \in Seq(S)
        OBVIOUS
      <4>2. \/ StepsOf(name) = <<"get_status", "get_power_state">>
            \/ StepsOf(name) = <<"observe_screen">> \/ StepsOf(name) = <<"get_boot_status">>
            \/ StepsOf(name) = <<"get_status", "get_power_state",
                                 "get_boot_status", "observe_screen">>
        BY <3>4 DEF StepsOf, Playbooks
      <4>3. StepsOf(name) \in Seq(S)
        BY <4>1, <4>2
      <4>. QED
        BY <4>3
    <3>6. step + 1 \in DOMAIN StepsOf(name)
      <4>1. DOMAIN StepsOf(name) = 1..Len(StepsOf(name)) /\ Len(StepsOf(name)) \in Nat
        BY <3>5, LenProperties
      <4>. QED
        BY <3>4, <4>1
    <3>. QED
      BY <3>3, <3>4, <3>6 DEF RunInv
  <2>. QED
    BY <2>3, <2>4
<1>2. CASE StartPlaybook
  <2>1. PICK name \in Playbooks, target \in TargetIds(config) :
          run' = [name |-> name, target |-> target, step |-> 1]
    BY <1>2 DEF StartPlaybook
  <2>2. 1 \in DOMAIN StepsOf(name)
    BY DEF StepsOf, Playbooks
  <2>. QED
    BY <2>1, <2>2 DEF RunInv
<1>3. CASE Approve \/ UNCHANGED dispatchVars
  BY <1>3 DEF Approve, dispatchVars, RunInv
<1>. QED
  BY <1>1, <1>2, <1>3 DEF DispatchNext, CallTool, RunStep

\* The mock's state keeps its five parts.
LEMMA MockStep ==
  ASSUME MockInv, [DispatchNext]_dispatchVars
  PROVE  MockInv'
<1>1. mock' = mock \/ \E cap : mock' = Simulate(mock, cap)
  <2>1. CASE Quiet
    BY <2>1 DEF Quiet
  <2>2. ASSUME NEW req, Dispatch(req)
        PROVE  mock' = mock \/ \E cap : mock' = Simulate(mock, cap)
    BY <2>2, QuietCall, LoudCall DEF Dispatch, NothingSent
  <2>. QED
    BY <2>1, <2>2, NextIsCallOrQuiet
<1>2. \A cap : \E power, media, boot, inputs, events :
        Simulate(mock, cap) = [power |-> power, media |-> media, boot |-> boot,
                               inputs |-> inputs, events |-> events]
  BY DEF Simulate
<1>. QED
  BY <1>1, <1>2 DEF MockInv

LEMMA PlaybookInvHolds == DispatchSpec => [](ServedInv /\ RunInv /\ MockInv)
<1>1. DispatchInit => RunInv /\ MockInv
  BY DEF DispatchInit, RunInv, MockInv, MockFresh
<1>2. RunInv /\ MockInv /\ [DispatchNext]_dispatchVars => RunInv' /\ MockInv'
  BY PlaybookStep, MockStep
<1>. QED
  BY <1>1, <1>2, ServedInvHolds, PTL DEF DispatchSpec

\* ToolDispatch.PlaybooksOnlyObserve, whatever a playbook is run on:
\* PlaybookRunner.run changes no mock machine and sends only reads.
THEOREM PlaybooksOnlyObserveHolds == DispatchSpec => PlaybooksOnlyObserve
<1>1. ServedInv /\ RunInv /\ MockInv /\ [DispatchNext]_dispatchVars =>
        [run # Idle => /\ mock' = mock
                       /\ \A s \in sent' \ sent : s.send.method \in {"GET", "request"}]_dispatchVars
  <2> SUFFICES ASSUME ServedInv, RunInv, MockInv, [DispatchNext]_dispatchVars, run # Idle
               PROVE  /\ mock' = mock
                      /\ \A s \in sent' \ sent : s.send.method \in {"GET", "request"}
    OBVIOUS
  <2>1. CASE ~RunStep
    <3>1. mock' = mock /\ sent' = sent
      BY <2>1 DEF DispatchNext, CallTool, StartPlaybook, Approve, dispatchVars
    <3>. QED
      BY <3>1
  <2>2. CASE RunStep
    <3> DEFINE req == StepRequest(run)
               cap == ToolCapability[req.tool]
    <3>1. Dispatch(req)
      BY <2>2 DEF RunStep
    <3>2. cap \in ObserveCaps
      BY StepsObserve DEF RunInv, StepRequest
    <3> HIDE DEF req
    <3>3. CASE RunCall(req)
      <4>1. mock' = mock
        BY <3>2, <3>3, LoudCall, ObservingChangesNothing
      <4>2. \A s \in sent' \ sent : ConfiguredSend(config, mode, req, s)
        BY <3>3, LoudCall, ToldIsConfigured DEF ServedInv
      <4>. QED
        BY <3>2, <4>1, <4>2 DEF ConfiguredSend
    <3>4. CASE RefuseCall(req) \/ HoldCall(req) \/ LoseCall(req)
      <4>1. mock' = mock /\ sent' = sent
        BY <3>4, QuietCall DEF NothingSent
      <4>. QED
        BY <4>1
    <3>. QED
      BY <3>1, <3>3, <3>4 DEF Dispatch
  <2>. QED
    BY <2>1, <2>2
<1>. QED
  BY <1>1, PlaybookInvHolds, PTL DEF DispatchSpec, PlaybooksOnlyObserve

-----------------------------------------------------------------------------
(***************************************************************************)
(* What a configuration file may lead to.                                  *)
(***************************************************************************)
\* ProviderRegistry.resolve_enabled over an accepted configuration does not
\* leave an enabled entry out: it has been given an adapter that may be called.
LEMMA EnabledResolves ==
  ASSUME NEW raw, Accepted(raw), NEW id \in TargetIds(raw), NEW m,
         TargetOf(raw, id).enabled, ProviderOf(raw, TargetOf(raw, id).provider).enabled,
         AllowsMode(TargetOf(raw, id), m)
  PROVE  Resolves(raw, id, m)
<1> DEFINE target == TargetOf(raw, id)
           provider == ProviderOf(raw, target.provider)
<1>1. \E i \in DOMAIN raw.targets : target = raw.targets[i]
  BY DEF TargetIds, TargetOf
<1>2. \E j \in DOMAIN raw.providers : raw.providers[j].id = target.provider
  BY <1>1 DEF Accepted, ValidTargets
<1>3. \E j \in DOMAIN raw.providers : provider = raw.providers[j]
  BY <1>2 DEF ProviderOf
<1> HIDE DEF target, provider
<1>4. ValidEntry(provider)
  BY <1>3 DEF Accepted, ValidProviders
<1>5. IsExecutable(provider)
  BY <1>4 DEF ValidEntry, IsExecutable, provider, target
<1>. QED
  BY <1>5 DEF Resolves, provider, target

\* The entry a resolved target ends at says how it is reached.
LEMMA ResolvedIsOffline ==
  ASSUME NEW raw, Accepted(raw), NEW id, NEW m, Resolves(raw, id, m)
  PROVE  LET provider == ProviderOf(raw, TargetOf(raw, id).provider)
             adapter == AdapterFor(raw, id)
         IN /\ ~adapter.real
            /\ adapter.kind = "mock" \/ (provider.fixture_mode /\ FixtureTransport(provider))
            /\ adapter.kind # "mock" => ~provider.live_mode
<1> DEFINE target == TargetOf(raw, id)
           provider == ProviderOf(raw, target.provider)
           adapter == AdapterFor(raw, id)
<1>1. adapter = AdapterOf(provider)
  BY DEF AdapterFor
<1>2. \E j \in DOMAIN raw.providers : provider = raw.providers[j]
  <2>1. \E i \in DOMAIN raw.targets : target = raw.targets[i]
    BY DEF Resolves, TargetIds, TargetOf
  <2>2. \E j \in DOMAIN raw.providers : raw.providers[j].id = target.provider
    BY <2>1 DEF Accepted, ValidTargets
  <2>. QED
    BY <2>2 DEF ProviderOf
<1>3. /\ adapter.kind = provider.type /\ adapter.kind \in Kinds
      /\ provider.type = "mock" \/ (provider.fixture_mode /\ ~provider.live_mode)
  BY ResolvedAdapter
<1>4. IsExecutable(provider)
  BY DEF Resolves
<1> HIDE DEF target, provider, adapter
<1>5. ValidMetadata(provider)
  BY <1>2 DEF Accepted, ValidProvider
<1>6. ~adapter.real
  BY <1>1, <1>4 DEF IsExecutable, AdapterOf, Fixture, NoAdapter, IsFixture
<1>7. adapter.kind # "mock" =>
        provider.fixture_mode /\ FixtureTransport(provider) /\ ~provider.live_mode
  BY <1>3, <1>5 DEF ValidMetadata, Kinds
<1>. QED
  BY <1>6, <1>7 DEF target, provider, adapter

\* ConfigLoading.AcceptedConfigsRunOffline, for every raw configuration:
\* what config_from_mapping accepts reaches no real machine.
THEOREM AcceptedConfigsRunOfflineHolds == LoadSpec => []AcceptedConfigsRunOffline
<1> DEFINE Judged == verdict = "accepted" => Accepted(file)
<1>1. LoadInit => Judged
  BY DEF LoadInit
<1>2. Judged /\ [Load]_loadVars => Judged'
  BY DEF Load, loadVars
<1>3. Judged => AcceptedConfigsRunOffline
  <2> SUFFICES ASSUME Accepted(file)
               PROVE  AcceptedConfigsRunOffline
    BY DEF AcceptedConfigsRunOffline
  <2>1. /\ file.keys \cap TellingKeys = {}
        /\ \A i \in DOMAIN file.providers :
             /\ file.providers[i].keys \cap TellingKeys = {}
             /\ file.providers[i].credential_ref # "literal"
        /\ \A i \in DOMAIN file.targets :
             /\ file.targets[i].keys \cap TellingKeys = {}
             /\ file.targets[i].credential_ref # "literal"
    BY DEF Accepted, SafeElsewhere, ValidProvider, ValidTarget, SafeKeys, TellingKeys
  <2>2. \A id \in TargetIds(file), m \in Modes :
          LET provider == ProviderOf(file, TargetOf(file, id).provider)
              adapter == AdapterFor(file, id)
          IN Resolves(file, id, m) =>
               /\ adapter.id = provider.id /\ ~adapter.real
               /\ adapter.kind = "mock" \/ (provider.fixture_mode /\ FixtureTransport(provider))
               /\ adapter.kind # "mock" => ~provider.live_mode
    BY ResolvedAdapter, ResolvedIsOffline
  <2>3. \A id \in TargetIds(file), m \in Modes :
          /\ TargetOf(file, id).enabled
          /\ ProviderOf(file, TargetOf(file, id).provider).enabled
          /\ AllowsMode(TargetOf(file, id), m)
          => Resolves(file, id, m)
    <3> SUFFICES ASSUME NEW id \in TargetIds(file), NEW m \in Modes,
                        TargetOf(file, id).enabled,
                        ProviderOf(file, TargetOf(file, id).provider).enabled,
                        AllowsMode(TargetOf(file, id), m)
                 PROVE  Resolves(file, id, m)
      OBVIOUS
    <3>. QED
      BY EnabledResolves
  <2>. QED
    BY <2>1, <2>2, <2>3 DEF AcceptedConfigsRunOffline
<1>. QED
  BY <1>1, <1>2, <1>3, PTL DEF LoadSpec

-----------------------------------------------------------------------------
(***************************************************************************)
(* What an approval pays for.                                              *)
(***************************************************************************)
\* The approvals of an action, the ones used up, and the calls that told a
\* machine of it.
Given(tool, target, params) ==
  {g \in store : g.tool = tool /\ g.target = target /\ g.params = params}
Used(tool, target, params) == {g \in Given(tool, target, params) : g.used}
Telling(tool, target, params) ==
  {c \in Calls : /\ served[c].req.tool = tool /\ served[c].req.target = target
                 /\ served[c].req.params = params
                 /\ SentIn(c) # {}}

\* The approvals are finitely many records, told apart by their ids.
GrantFields == {"id", "tool", "target", "params", "once", "used"}
StoreInv ==
  /\ IsFiniteSet(store)
  /\ \A g, h \in store : g.id = h.id => g = h
  /\ \A g \in store : DOMAIN g = GrantFields
\* Among approvals for one call each, every call that told a machine used one
\* up.  (ApprovalsBoundEffects counts the unused ones too, and is not inductive.)
AsksFirst(tool) == RequiresApproval(DefaultDecisionForMode(mode, ToolCapability[tool]))
Paid(tool, target, params) ==
  /\ ~UsesTower(config) /\ AsksFirst(tool)
  /\ \A g \in Given(tool, target, params) : g.once
  => Cardinality(Telling(tool, target, params)) <= Cardinality(Used(tool, target, params))
PaidInv == \A tool, target, params : Paid(tool, target, params)

\* decision_for without rules: refused, or what the mode says of the tool.
LEMMA DecisionIsDefault ==
  ASSUME NEW m, NEW req
  PROVE  \/ DecisionOf(m, req) = "deny"
         \/ DecisionOf(m, req) = DefaultDecisionForMode(m, ToolCapability[req.tool])
BY DEF DecisionOf, DecisionFor

\* CapabilityApprovalGrant consumed: the one approval changes, in "used" alone.
LEMMA ConsumeMarks ==
  ASSUME StoreInv, NEW g \in store
  PROVE  LET used == [g EXCEPT !.used = TRUE] IN
         /\ Consume(g) = (store \ {g}) \cup {used}
         /\ used.used /\ used.id = g.id /\ used.once = g.once
         /\ used.tool = g.tool /\ used.target = g.target /\ used.params = g.params
         /\ DOMAIN used = GrantFields
<1> DEFINE used == [g EXCEPT !.used = TRUE]
<1>1. DOMAIN g = GrantFields
  BY DEF StoreInv
<1>2. used = [f \in GrantFields |-> IF f = "used" THEN TRUE ELSE g[f]]
  BY <1>1
<1>3. DOMAIN used = GrantFields
  BY <1>2
<1>4. /\ used["used"] /\ used["id"] = g["id"] /\ used["once"] = g["once"]
      /\ used["tool"] = g["tool"] /\ used["target"] = g["target"]
      /\ used["params"] = g["params"]
  BY <1>2 DEF GrantFields
<1>. QED
  BY <1>3, <1>4 DEF Consume

\* What a call may do to the approvals: nothing, or use up one that fits it.
LEMMA CallPays ==
  ASSUME NEW req, Dispatch(req)
  PROVE  \/ store' = store
         \/ \E g \in GrantsFor(req) : store' = Consume(g)
BY DEF Dispatch, RefuseCall, HoldCall, LoseCall, RunCall, MayRun

LEMMA StoreStep ==
  ASSUME StoreInv, [DispatchNext]_dispatchVars
  PROVE  StoreInv'
<1>1. ASSUME NEW g \in store, store' = Consume(g)
      PROVE  StoreInv'
  <2> DEFINE used == [g EXCEPT !.used = TRUE]
  <2>1. /\ store' = (store \ {g}) \cup {used} /\ used.id = g.id
        /\ DOMAIN used = GrantFields
    BY <1>1, ConsumeMarks
  <2> HIDE DEF used
  <2>2. IsFiniteSet(store')
    <3>1. IsFiniteSet(store \ {g})
      BY FS_RemoveElement DEF StoreInv
    <3>. QED
      BY <2>1, <3>1, FS_AddElement
  <2>3. \A h, k \in store' : h.id = k.id => h = k
    BY <1>1, <2>1 DEF StoreInv
  <2>. QED
    BY <2>1, <2>2, <2>3 DEF StoreInv
<1>2. ASSUME NEW req, Dispatch(req)
      PROVE  StoreInv'
  <2>1. CASE store' = store
    BY <2>1 DEF StoreInv
  <2>2. CASE \E g \in GrantsFor(req) : store' = Consume(g)
    BY <1>1, <2>2 DEF GrantsFor
  <2>. QED
    BY <1>2, <2>1, <2>2, CallPays
<1>3. CASE Approve
  <2>1. PICK c \in DOMAIN served, once \in BOOLEAN :
          /\ \A g \in store : g.id # c
          /\ store' = store \cup
               {[id |-> c, tool |-> served[c].req.tool, target |-> served[c].req.target,
                 params |-> served[c].req.params, once |-> once, used |-> FALSE]}
    BY <1>3 DEF Approve
  <2>2. IsFiniteSet(store')
    BY <2>1, FS_AddElement DEF StoreInv
  <2>3. \A h, k \in store' : h.id = k.id => h = k
    <3> DEFINE new == [id |-> c, tool |-> served[c].req.tool, target |-> served[c].req.target,
                       params |-> served[c].req.params, once |-> once, used |-> FALSE]
    <3>1. store' = store \cup {new} /\ new.id = c
      BY <2>1
    <3> HIDE DEF new
    <3>. QED
      BY <2>1, <3>1 DEF StoreInv
  <2>4. \A h \in store' : DOMAIN h = GrantFields
    BY <2>1 DEF StoreInv, GrantFields
  <2>. QED
    BY <2>2, <2>3, <2>4 DEF StoreInv
<1>4. CASE StartPlaybook \/ UNCHANGED dispatchVars
  BY <1>4 DEF StartPlaybook, dispatchVars, StoreInv
<1>. QED
  BY <1>2, <1>3, <1>4 DEF DispatchNext, CallTool, RunStep

\* An approval used up counts once more among the used ones of its action, if it
\* was for one call; the other actions keep theirs.
LEMMA ConsumePays ==
  ASSUME StoreInv, NEW req, NEW g \in GrantsFor(req), store' = Consume(g),
         NEW tool, NEW target, NEW params, \A h \in Given(tool, target, params)' : h.once
  PROVE  /\ \A h \in Given(tool, target, params) : h.once
         /\ Cardinality(Used(tool, target, params)) \in Nat
         /\ Cardinality(Used(tool, target, params)')
              >= Cardinality(Used(tool, target, params))
         /\ req.tool = tool /\ req.target = target /\ req.params = params =>
              Cardinality(Used(tool, target, params)')
                >= Cardinality(Used(tool, target, params)) + 1
<1> DEFINE used == [g EXCEPT !.used = TRUE]
           U == Used(tool, target, params)
<1>1. /\ store' = (store \ {g}) \cup {used}
      /\ used.used /\ used.id = g.id /\ used.once = g.once
      /\ used.tool = g.tool /\ used.target = g.target /\ used.params = g.params
  BY ConsumeMarks DEF GrantsFor
<1> HIDE DEF used
<1>2. g \in store /\ g.tool = req.tool /\ g.target = req.target /\ g.params = req.params
      /\ (g.once => ~g.used)
  BY DEF GrantsFor
<1>3. \A h \in Given(tool, target, params) : h.once
  <2> SUFFICES ASSUME NEW h \in Given(tool, target, params)
               PROVE  h.once
    OBVIOUS
  <2>1. CASE h # g
    BY <1>1, <2>1 DEF Given
  <2>2. CASE h = g
    BY <1>1, <2>2 DEF Given
  <2>. QED
    BY <2>1, <2>2
<1>4. IsFiniteSet(store) /\ IsFiniteSet(store')
  <2>1. IsFiniteSet(store)
    BY DEF StoreInv
  <2>2. IsFiniteSet(store \ {g})
    BY <2>1, FS_RemoveElement
  <2>. QED
    BY <1>1, <2>1, <2>2, FS_AddElement
<1>5. IsFiniteSet(U) /\ IsFiniteSet(U')
  BY <1>4, FS_Subset DEF Used, Given
<1>6. U \subseteq U'
  <2> SUFFICES ASSUME NEW h \in U
               PROVE  h \in U'
    OBVIOUS
  <2>1. h # g
    BY <1>2, <1>3 DEF Used
  <2>. QED
    BY <1>1, <2>1 DEF Used, Given
<1>7. CASE ~(req.tool = tool /\ req.target = target /\ req.params = params)
  BY <1>3, <1>5, <1>6, <1>7, FS_Subset, FS_CardinalityType
<1>8. CASE req.tool = tool /\ req.target = target /\ req.params = params
  <2>1. used \in U' /\ g \in Given(tool, target, params)
    BY <1>1, <1>2, <1>8 DEF Used, Given
  <2>2. used \notin U
    BY <1>1, <1>2, <1>3, <2>1 DEF Used, Given, StoreInv
  <2>3. /\ IsFiniteSet(U \cup {used})
        /\ Cardinality(U \cup {used}) = Cardinality(U) + 1
    BY <1>5, <2>2, FS_AddElement
  <2>4. U \cup {used} \subseteq U'
    BY <1>6, <2>1
  <2>5. Cardinality(U \cup {used}) <= Cardinality(U')
    BY <1>5, <2>4, FS_Subset
  <2>. QED
    BY <1>3, <1>5, <2>3, <2>5, FS_CardinalityType
<1>. QED
  BY <1>7, <1>8

\* The calls that told a machine of an action: the one being answered is the
\* only one that may join them, and only when it is of that action.
LEMMA TellingAfter ==
  ASSUME ServedInv, NEW req, NEW status, NEW events, Answer(req, status, events),
         \A s \in sent' \ sent : s.call = Len(served) + 1, sent \subseteq sent',
         NEW tool, NEW target, NEW params
  PROVE  /\ IsFiniteSet(Telling(tool, target, params))
         /\ Telling(tool, target, params)' \subseteq
              Telling(tool, target, params) \cup {Len(served) + 1}
         /\ \/ sent' = sent
            \/ ~(req.tool = tool /\ req.target = target /\ req.params = params)
            => Telling(tool, target, params)' \subseteq Telling(tool, target, params)
<1>1. /\ Len(served) \in Nat
      /\ DOMAIN served = 1..Len(served) /\ DOMAIN served' = 1..(Len(served) + 1)
      /\ \A c \in 1..Len(served) : served'[c] = served[c]
      /\ served'[Len(served) + 1].req = req
  BY AnswerAppends DEF ServedInv
<1>2. \A c \in 1..Len(served) : SentIn(c)' = SentIn(c)
  BY <1>1 DEF SentIn
<1>3. SentIn(Len(served) + 1) = {}
  BY <1>1 DEF SentIn, ServedInv
<1>4. IsFiniteSet(1..Len(served))
  BY <1>1, FS_Interval
<1>5. Telling(tool, target, params) \subseteq 1..Len(served)
  BY <1>1 DEF Telling, Calls
<1>6. \A c \in Telling(tool, target, params)' :
        c \in Telling(tool, target, params) \/ c = Len(served) + 1
  BY <1>1, <1>2 DEF Telling, Calls
<1>7. Len(served) + 1 \in Telling(tool, target, params)' =>
        /\ req.tool = tool /\ req.target = target /\ req.params = params
        /\ sent' # sent
  BY <1>1, <1>3 DEF Telling, Calls, SentIn
<1>. QED
  BY <1>4, <1>5, <1>6, <1>7, FS_Subset

LEMMA PaidStep ==
  ASSUME ServedInv, StoreInv, PaidInv, [DispatchNext]_dispatchVars
  PROVE  PaidInv'
<1>1. SUFFICES ASSUME NEW tool, NEW target, NEW params,
                      (~UsesTower(config))', AsksFirst(tool)',
                      \A g \in Given(tool, target, params)' : g.once
               PROVE  (Cardinality(Telling(tool, target, params))
                         <= Cardinality(Used(tool, target, params)))'
  BY DEF PaidInv, Paid
<1> DEFINE T == Telling(tool, target, params)
           U == Used(tool, target, params)
<1>2. CASE Approve
  <2>1. PICK c \in DOMAIN served, once \in BOOLEAN :
          store' = store \cup
            {[id |-> c, tool |-> served[c].req.tool, target |-> served[c].req.target,
              params |-> served[c].req.params, once |-> once, used |-> FALSE]}
    BY <1>2 DEF Approve
  <2>2. UNCHANGED <<config, mode, served, sent>>
    BY <1>2 DEF Approve
  <2>3. U' = U
    BY <2>1 DEF Used, Given
  <2>4. T' = T
    BY <2>2 DEF Telling, Calls, SentIn
  <2>5. \A g \in Given(tool, target, params) : g.once
    BY <1>1, <2>1 DEF Given
  <2>. QED
    BY <1>1, <2>2, <2>3, <2>4, <2>5 DEF PaidInv, Paid, AsksFirst
<1>3. CASE StartPlaybook \/ UNCHANGED dispatchVars
  <2>1. UNCHANGED <<config, mode, store, served, sent>>
    BY <1>3 DEF StartPlaybook, dispatchVars
  <2>2. /\ T' = T /\ U' = U
        /\ Given(tool, target, params)' = Given(tool, target, params)
    BY <2>1 DEF Telling, Calls, SentIn, Used, Given
  <2>. QED
    BY <1>1, <2>1, <2>2 DEF PaidInv, Paid, AsksFirst
<1>4. ASSUME NEW req, Dispatch(req)
      PROVE  Cardinality(T') <= Cardinality(U')
  <2>1. PICK status, events : Answer(req, status, events)
    BY <1>4, QuietCall, LoudCall DEF Dispatch
  <2>2. UNCHANGED <<config, mode>>
    BY <2>1 DEF Answer
  <2>3. \/ sent' = sent
        \/ /\ RunCall(req)
           /\ sent' = sent \cup Told(AdapterFor(config, req.target).id, DoneFor(req).sends)
    BY <1>4, QuietCall, LoudCall DEF Dispatch, NothingSent
  <2>4. sent \subseteq sent' /\ \A s \in sent' \ sent : s.call = Len(served) + 1
    BY <2>3 DEF Told
  <2>5. /\ IsFiniteSet(T) /\ T' \subseteq T \cup {Len(served) + 1}
        /\ \/ sent' = sent
           \/ ~(req.tool = tool /\ req.target = target /\ req.params = params)
           => T' \subseteq T
    BY <2>1, <2>4, TellingAfter
  <2>6. Cardinality(T) \in Nat /\ Cardinality(T \cup {Len(served) + 1}) \in Nat
        /\ Cardinality(T \cup {Len(served) + 1}) <= Cardinality(T) + 1
        /\ IsFiniteSet(T \cup {Len(served) + 1})
    <3>1. Cardinality(T) \in Nat
      BY <2>5, FS_CardinalityType
    <3>2. /\ IsFiniteSet(T \cup {Len(served) + 1})
          /\ Cardinality(T \cup {Len(served) + 1}) =
               IF Len(served) + 1 \in T THEN Cardinality(T) ELSE Cardinality(T) + 1
      BY <2>5, FS_AddElement
    <3> HIDE DEF T
    <3>. QED
      BY <3>1, <3>2
  <2>7. Cardinality(T') \in Nat /\ Cardinality(T') <= Cardinality(T) + 1
        /\ (T' \subseteq T => Cardinality(T') <= Cardinality(T))
    <3>1. IsFiniteSet(T') /\ Cardinality(T') <= Cardinality(T \cup {Len(served) + 1})
      BY <2>5, <2>6, FS_Subset
    <3>2. T' \subseteq T => Cardinality(T') <= Cardinality(T)
      BY <2>5, FS_Subset
    <3>3. Cardinality(T') \in Nat
      BY <3>1, FS_CardinalityType
    <3>. QED
      BY <2>6, <3>1, <3>2, <3>3
  <2>8. ~UsesTower(config) /\ AsksFirst(tool)
    BY <1>1, <2>2 DEF AsksFirst
  <2>9. CASE store' = store
    <3>1. U' = U /\ \A g \in Given(tool, target, params) : g.once
      BY <1>1, <2>9 DEF Used, Given
    <3>2. Cardinality(T) <= Cardinality(U)
      BY <2>8, <3>1 DEF PaidInv, Paid
    <3>3. T' \subseteq T
      <4> SUFFICES ASSUME RunCall(req), req.tool = tool, req.target = target,
                          req.params = params
                   PROVE  T' \subseteq T
        BY <2>3, <2>5
      <4>1. RequiresApproval(DecisionOf(mode, req))
        BY <2>8, DecisionIsDefault DEF RunCall, MayRun, AsksFirst
      <4>2. PICK g \in GrantsFor(req) : store' = Consume(g)
        BY <2>8, <4>1 DEF RunCall, MayRun, AsksTower
      <4>3. g \in Given(tool, target, params) /\ g.once /\ ~g.used /\ g \in store
        BY <3>1, <4>2 DEF GrantsFor, Given
      <4>4. [g EXCEPT !.used = TRUE] \in store' /\ [g EXCEPT !.used = TRUE].used
            /\ [g EXCEPT !.used = TRUE].id = g.id
        BY <4>2, <4>3, ConsumeMarks
      <4>5. FALSE
        BY <2>9, <4>3, <4>4 DEF StoreInv
      <4>. QED
        BY <4>5
    <3>4. Cardinality(T') <= Cardinality(T)
      BY <2>7, <3>3
    <3>5. Cardinality(U) \in Nat
      <4>1. IsFiniteSet(U)
        BY FS_Subset DEF Used, Given, StoreInv
      <4>. QED
        BY <4>1, FS_CardinalityType
    <3> HIDE DEF T, U
    <3>. QED
      BY <2>6, <2>7, <3>1, <3>2, <3>4, <3>5
  <2>10. CASE \E g \in GrantsFor(req) : store' = Consume(g)
    <3>1. PICK g \in GrantsFor(req) : store' = Consume(g)
      BY <2>10
    <3>2. /\ \A h \in Given(tool, target, params) : h.once
          /\ Cardinality(U) \in Nat
          /\ Cardinality(U') >= Cardinality(U)
          /\ req.tool = tool /\ req.target = target /\ req.params = params =>
               Cardinality(U') >= Cardinality(U) + 1
      BY <1>1, <3>1, ConsumePays
    <3>3. Cardinality(T) <= Cardinality(U)
      BY <2>8, <3>2 DEF PaidInv, Paid
    <3>4. Cardinality(U') \in Nat
      <4>1. IsFiniteSet(store')
        BY StoreStep DEF StoreInv
      <4>2. IsFiniteSet(U')
        BY <4>1, FS_Subset DEF Used, Given
      <4>. QED
        BY <4>2, FS_CardinalityType
    <3> HIDE DEF T, U
    <3>. QED
      BY <2>5, <2>6, <2>7, <3>2, <3>3, <3>4
  <2>. QED
    BY <1>4, <2>9, <2>10, CallPays
<1>. QED
  BY <1>2, <1>3, <1>4 DEF DispatchNext, CallTool, RunStep

\* ToolDispatch.ApprovalsBoundEffects, for every configuration, fixture and
\* number of calls: ApprovalStore.find_action_grant never lets two calls tell a
\* machine of an action on one approval, in whatever way they fail.
THEOREM ApprovalsBoundEffectsHolds == DispatchSpec => []ApprovalsBoundEffects
<1>1. DispatchInit => StoreInv /\ PaidInv
  <2> SUFFICES ASSUME DispatchInit
               PROVE  StoreInv /\ PaidInv
    OBVIOUS
  <2>1. StoreInv
    BY FS_EmptySet DEF DispatchInit, StoreInv
  <2>2. \A tool, target, params : /\ Telling(tool, target, params) = {}
                                  /\ Used(tool, target, params) = {}
    BY DEF DispatchInit, Telling, Calls, Used, Given
  <2>3. Cardinality({}) <= Cardinality({})
    BY FS_EmptySet
  <2>. QED
    BY <2>1, <2>2, <2>3 DEF PaidInv, Paid
<1>2. ServedInv /\ StoreInv /\ PaidInv /\ [DispatchNext]_dispatchVars => StoreInv' /\ PaidInv'
  BY StoreStep, PaidStep
<1>3. ServedInv /\ StoreInv /\ PaidInv => ApprovalsBoundEffects
  <2> SUFFICES ASSUME ServedInv, StoreInv, PaidInv, NEW c \in Calls,
                      ~UsesTower(config), RequiresApproval(DecisionOf(mode, served[c].req)),
                      \A g \in Given(served[c].req.tool, served[c].req.target,
                                     served[c].req.params) : g.once
               PROVE  Cardinality({d \in Calls : Alike(d, served[c].req) /\ SentIn(d) # {}})
                        <= Cardinality(Given(served[c].req.tool, served[c].req.target,
                                             served[c].req.params))
    BY DEF ApprovalsBoundEffects, Given
  <2> DEFINE req == served[c].req
             T == Telling(req.tool, req.target, req.params)
             U == Used(req.tool, req.target, req.params)
             G == Given(req.tool, req.target, req.params)
  <2>1. {d \in Calls : Alike(d, req) /\ SentIn(d) # {}} = T
    BY DEF Telling, Alike
  <2>2. AsksFirst(req.tool)
    BY DecisionIsDefault DEF AsksFirst, RequiresApproval
  <2>3. Cardinality(T) <= Cardinality(U)
    BY <2>2 DEF PaidInv, Paid
  <2>4. IsFiniteSet(G) /\ U \subseteq G
    BY FS_Subset DEF Given, Used, StoreInv
  <2>5. IsFiniteSet(U) /\ Cardinality(U) <= Cardinality(G)
    BY <2>4, FS_Subset
  <2>6. IsFiniteSet(T)
    <3>1. PICK S : served \in Seq(S)
      BY DEF ServedInv, ServedInOrder
    <3>2. Len(served) \in Nat /\ DOMAIN served = 1..Len(served)
      BY <3>1, LenProperties
    <3>3. T \subseteq 1..Len(served)
      BY <3>2 DEF Telling, Calls
    <3>4. IsFiniteSet(1..Len(served))
      BY <3>2, FS_Interval
    <3> HIDE DEF T
    <3>. QED
      BY <3>3, <3>4, FS_Subset
  <2>7. /\ Cardinality(T) \in Nat /\ Cardinality(U) \in Nat /\ Cardinality(G) \in Nat
    BY <2>4, <2>5, <2>6, FS_CardinalityType
  <2> HIDE DEF T, U, G
  <2>8. Cardinality(T) <= Cardinality(G)
    BY <2>3, <2>5, <2>7
  <2>. QED
    BY <2>1, <2>8 DEF G
<1>. QED
  BY <1>1, <1>2, <1>3, ServedInvHolds, PTL DEF DispatchSpec

-----------------------------------------------------------------------------
(***************************************************************************)
(* The decision table of the policy as a whole.                            *)
(***************************************************************************)
Safe(cap) == FamilyOf(cap) \in {"observe", "session"} /\ cap \notin DangerousCaps

(***************************************************************************)
(* The tables of default_decision_for_mode.                                *)
(***************************************************************************)
LEMMA DefaultTable ==
  ASSUME NEW cap, cap \notin HardDenyCapabilities
  PROVE  /\ DefaultDecisionForMode("Custom", cap) = "deny"
         /\ DefaultDecisionForMode("Observe", cap) = IF Safe(cap) THEN "allow" ELSE "deny"
         /\ DefaultDecisionForMode("Assisted", cap) =
              IF Safe(cap) THEN "allow" ELSE AssistedDefault(cap)
         /\ DefaultDecisionForMode("Supervised", cap) =
              IF Safe(cap) THEN "allow" ELSE SupervisedDefault(cap)
         /\ DefaultDecisionForMode("Full Control", cap) =
              IF cap = "secrets.raw_reveal" THEN "ask_each_time" ELSE "allow"
BY DEF DefaultDecisionForMode, Safe

LEMMA RankOf ==
  /\ Rank("deny") = 0 /\ Rank("ask_each_time") = 1 /\ Rank("ask_once_per_session") = 2
  /\ Rank("allow_with_limits") = 3 /\ Rank("allow") = 4
BY DEF Rank

LEMMA CriticalIsDangerous ==
  /\ DestructiveCaps \cup CriticalCaps \subseteq DangerousCaps
  /\ "secrets.raw_reveal" \in DangerousCaps
  /\ \A cap \in DestructiveCaps \cup CriticalCaps :
       cap \notin {"media.mount_approved_iso", "secrets.inject_reference"}
BY DEF CriticalCaps, DangerousCaps, DestructiveCaps, HardDenyCapabilities

LEMMA DefaultsAreALadder ==
  ASSUME NEW cap, cap \notin HardDenyCapabilities
  PROVE  LET In(rung) == Rank(DefaultDecisionForMode(rung, cap)) IN
         /\ In("Custom") = 0
         /\ In("Observe") <= In("Assisted")
         /\ In("Assisted") <= In("Supervised")
         /\ In("Supervised") <= In("Full Control")
<1>. DEFINE observe == Rank(DefaultDecisionForMode("Observe", cap))
            assisted == Rank(DefaultDecisionForMode("Assisted", cap))
            supervised == Rank(DefaultDecisionForMode("Supervised", cap))
            full == Rank(DefaultDecisionForMode("Full Control", cap))
            asks == cap \in {"media.mount_approved_iso", "secrets.inject_reference"}
            critical == cap \in DestructiveCaps \cup CriticalCaps
<1>1. Rank(DefaultDecisionForMode("Custom", cap)) = 0
  BY DefaultTable, RankOf
<1>2. observe = IF Safe(cap) THEN 4 ELSE 0
  BY DefaultTable, RankOf
<1>3. assisted = IF Safe(cap) THEN 4 ELSE IF critical THEN 0 ELSE 1
  BY DefaultTable, RankOf DEF AssistedDefault
<1>4. supervised = IF Safe(cap) THEN 4 ELSE IF asks THEN 2
                   ELSE IF cap \in DangerousCaps THEN 1 ELSE 3
  BY DefaultTable, RankOf DEF SupervisedDefault
<1>5. full = IF cap = "secrets.raw_reveal" THEN 1 ELSE 4
  BY DefaultTable, RankOf
<1>6. cap = "secrets.raw_reveal" => cap \in DangerousCaps /\ ~Safe(cap) /\ ~asks
  BY CriticalIsDangerous DEF Safe
<1>. HIDE DEF observe, assisted, supervised, full, asks, critical
<1>7. observe <= assisted /\ assisted <= supervised /\ supervised <= full
  BY <1>2, <1>3, <1>4, <1>5, <1>6
<1>. QED  BY <1>1, <1>7 DEF observe, assisted, supervised, full

-----------------------------------------------------------------------------
(***************************************************************************)
(* decision_for.                                                           *)
(***************************************************************************)
\* A policy that is asked stays as it was, and the answer is decision_for's.
PolicyInv ==
  /\ \E rung \in Modes, targets \in ScopeChoices,
        rules \in {<<>>} \cup [{ask.cap} -> RuleDecisions] :
       pol = [mode |-> rung, targets |-> targets, sessions |-> AnySession,
              real_hardware |-> FALSE, rules |-> rules]
  /\ answer # "pending" => answer = Of(pol, ask)

LEMMA PolicyInvHolds == Spec => []PolicyInv
<1>1. Init => PolicyInv
  BY DEF Init, PolicyInv
<1>2. PolicyInv /\ [Evaluate]_vars => PolicyInv'
  <2>1. SUFFICES ASSUME PolicyInv, Evaluate \/ UNCHANGED vars PROVE PolicyInv'
    BY Zenon
  <2>2. pol' = pol /\ ask' = ask /\ (answer' = answer \/ answer' = Of(pol, ask))
    BY <2>1 DEF Evaluate, vars
  <2>. QED  BY <2>1, <2>2 DEF PolicyInv, Of
<1>. QED  BY <1>1, <1>2, PTL DEF Spec

LEMMA PolicyShape ==
  ASSUME PolicyInv
  PROVE  /\ pol = [mode |-> pol.mode, targets |-> pol.targets, sessions |-> AnySession,
                   real_hardware |-> FALSE, rules |-> pol.rules]
         /\ pol.mode \in Modes
         /\ pol.targets \in [allow : SUBSET Targets, deny : SUBSET Targets]
         /\ ask.cap \in DOMAIN pol.rules => pol.rules[ask.cap] \in Decisions
<1>1. PICK rung \in Modes, targets \in ScopeChoices,
           rules \in {<<>>} \cup [{ask.cap} -> RuleDecisions] :
        pol = [mode |-> rung, targets |-> targets, sessions |-> AnySession,
               real_hardware |-> FALSE, rules |-> rules]
  BY DEF PolicyInv
<1>2. ask.cap \in DOMAIN rules => rules[ask.cap] \in Decisions
  BY RuleDecisionsAssumption
<1>. QED  BY <1>1, <1>2, ScopesAssumption

LEMMA LadderStep == PolicyInv => ModesAreALadder
<1>. SUFFICES ASSUME PolicyInv PROVE ModesAreALadder
  OBVIOUS
<1>. DEFINE at(rung) == [pol EXCEPT !.mode = rung]
            In(rung) == Rank(Of(at(rung), ask))
            refused == Refused(pol, ask.cap, ask.target, ask.session, ask.cred)
<1>1. \A rung : /\ at(rung).mode = rung /\ at(rung).targets = pol.targets
                /\ at(rung).sessions = pol.sessions /\ at(rung).rules = pol.rules
  BY PolicyShape
<1>. HIDE DEF at
<1>2. \A rung : Of(at(rung), ask) =
         IF refused THEN "deny" ELSE IF ask.cap \in DOMAIN pol.rules THEN pol.rules[ask.cap]
         ELSE DefaultDecisionForMode(rung, ask.cap)
  BY <1>1 DEF Of, DecisionFor, Refused
<1>3. ~refused => ask.cap \notin HardDenyCapabilities
  BY DEF Refused
<1>4. pol.rules = <<>> => ask.cap \notin DOMAIN pol.rules
  OBVIOUS
<1>. HIDE DEF refused
<1>5. CASE refused \/ ask.cap \in DOMAIN pol.rules
  <2>1. \A rung : Of(at(rung), ask) = IF refused THEN "deny" ELSE pol.rules[ask.cap]
    BY <1>2, <1>5
  <2>2. ~refused => pol.rules[ask.cap] \in Decisions
    BY <1>5, PolicyShape
  <2>3. PICK k \in Nat : \A rung : In(rung) = k
    <3>1. \E k \in Nat : Rank(IF refused THEN "deny" ELSE pol.rules[ask.cap]) = k
      BY <2>2, RankOf DEF Decisions
    <3>. QED  BY <2>1, <3>1
  <2>4. pol.rules = <<>> => refused
    BY <1>4, <1>5
  <2>5. pol.rules = <<>> => In("Custom") = 0
    BY <2>1, <2>4, RankOf
  <2>6. /\ In("Observe") <= In("Assisted") /\ In("Assisted") <= In("Supervised")
        /\ In("Supervised") <= In("Full Control")
    <3>1. k <= k
      OBVIOUS
    <3>2. /\ In("Observe") = k /\ In("Assisted") = k /\ In("Supervised") = k
          /\ In("Full Control") = k
      BY <2>3, Zenon
    <3>. HIDE DEF In
    <3>. QED  BY <3>1, <3>2
  <2>. QED  BY <2>5, <2>6 DEF In, ModesAreALadder, at
<1>6. CASE ~(refused \/ ask.cap \in DOMAIN pol.rules)
  <2>1. \A rung : In(rung) = Rank(DefaultDecisionForMode(rung, ask.cap))
    BY <1>2, <1>6
  <2>2. ask.cap \notin HardDenyCapabilities
    BY <1>3, <1>6
  <2>. HIDE DEF In
  <2>3. /\ In("Custom") = 0
        /\ In("Observe") <= In("Assisted") /\ In("Assisted") <= In("Supervised")
        /\ In("Supervised") <= In("Full Control")
    BY <2>1, <2>2, DefaultsAreALadder
  <2>. QED  BY <2>3 DEF In, ModesAreALadder, at
<1>. QED  BY <1>5, <1>6

\* The four tables read as one: a mode gives at least what the one below gives,
\* whatever the scopes and the rule.
THEOREM ModesAreALadderHolds == Spec => []ModesAreALadder
BY PolicyInvHolds, LadderStep, PTL

LEMMA ScopeStep == PolicyInv => ScopesOnlyNarrow
<1>. SUFFICES ASSUME PolicyInv, answer # "pending", NEW t \in Targets
              PROVE  /\ Of([pol EXCEPT !.targets.deny = @ \cup {t}], ask) \in {answer, "deny"}
                     /\ pol.targets.allow \ {t} # {} =>
                          Of([pol EXCEPT !.targets.allow = @ \ {t}], ask) \in {answer, "deny"}
  BY DEF ScopesOnlyNarrow
<1>1. answer = Of(pol, ask)
  BY DEF PolicyInv
<1>2. /\ pol = [mode |-> pol.mode, targets |-> pol.targets, sessions |-> AnySession,
                real_hardware |-> FALSE, rules |-> pol.rules]
      /\ pol.targets \in [allow : SUBSET Targets, deny : SUBSET Targets]
  BY PolicyShape
\* A scope that admits no more than the policy's gives the answer or a denial.
<1>3. ASSUME NEW q, q.mode = pol.mode, q.rules = pol.rules, q.sessions = pol.sessions,
             ScopeAllows(q.targets, ask.target) => ScopeAllows(pol.targets, ask.target)
      PROVE  Of(q, ask) \in {answer, "deny"}
  BY <1>1, <1>3 DEF Of, DecisionFor, Refused
<1>4. Of([pol EXCEPT !.targets.deny = @ \cup {t}], ask) \in {answer, "deny"}
  <2>. DEFINE q == [pol EXCEPT !.targets.deny = @ \cup {t}]
  <2>1. /\ q.mode = pol.mode /\ q.rules = pol.rules /\ q.sessions = pol.sessions
        /\ q.targets.allow = pol.targets.allow
        /\ q.targets.deny = pol.targets.deny \cup {t}
    BY <1>2
  <2>. HIDE DEF q
  <2>2. ScopeAllows(q.targets, ask.target) => ScopeAllows(pol.targets, ask.target)
    BY <2>1 DEF ScopeAllows
  <2>3. Of(q, ask) \in {answer, "deny"}
    BY <1>3, <2>1, <2>2
  <2>. QED  BY <2>3 DEF q
<1>5. ASSUME pol.targets.allow \ {t} # {}
      PROVE  Of([pol EXCEPT !.targets.allow = @ \ {t}], ask) \in {answer, "deny"}
  <2>. DEFINE q == [pol EXCEPT !.targets.allow = @ \ {t}]
  <2>1. /\ q.mode = pol.mode /\ q.rules = pol.rules /\ q.sessions = pol.sessions
        /\ q.targets.allow = pol.targets.allow \ {t}
        /\ q.targets.deny = pol.targets.deny
    BY <1>2
  <2>. HIDE DEF q
  <2>2. ScopeAllows(q.targets, ask.target) => ScopeAllows(pol.targets, ask.target)
    BY <1>5, <2>1 DEF ScopeAllows
  <2>3. Of(q, ask) \in {answer, "deny"}
    BY <1>3, <2>1, <2>2
  <2>. QED  BY <2>3 DEF q
<1>. QED  BY <1>4, <1>5

\* Narrowing a target scope denies and does nothing else, for any targets, rules
\* and requests.
THEOREM ScopesOnlyNarrowHolds == Spec => []ScopesOnlyNarrow
BY PolicyInvHolds, ScopeStep, PTL

LEMMA GatedAreDangerous ==
  /\ SupervisedGates \subseteq CriticalCaps
  /\ SupervisedGates \cap HardDenyCapabilities = {}
BY DEF SupervisedGates, CriticalCaps, DestructiveCaps, HardDenyCapabilities

LEMMA HardDenied ==
  PolicyInv /\ answer # "pending" /\ ask.cap \in HardDenyCapabilities => answer = "deny"
BY DEF PolicyInv, Of, DecisionFor, Refused

LEMMA GateStep ==
  ASSUME PolicyInv, answer # "pending", pol.rules = <<>>
  PROVE  /\ ask.cap \in SupervisedGates =>
              /\ pol.mode = "Supervised" => answer \in {"ask_each_time", "deny"}
              /\ pol.mode \in {"Observe", "Assisted", "Custom"} => answer = "deny"
         /\ ask.cap = "secrets.raw_reveal" => answer \in {"ask_each_time", "deny"}
<1>1. DOMAIN pol.rules = {}
  OBVIOUS
<1>2. answer \in {"deny", DefaultDecisionForMode(pol.mode, ask.cap)}
  BY <1>1 DEF PolicyInv, Of, DecisionFor
<1>3. ask.cap \in CriticalCaps => ask.cap \in DangerousCaps /\ ~Safe(ask.cap)
  BY CriticalIsDangerous DEF Safe
<1>4. "secrets.raw_reveal" \in CriticalCaps /\ "secrets.raw_reveal" \notin HardDenyCapabilities
  BY DEF CriticalCaps, HardDenyCapabilities
<1>5. ASSUME ask.cap \in CriticalCaps, ask.cap \notin HardDenyCapabilities
      PROVE  /\ DefaultDecisionForMode("Observe", ask.cap) = "deny"
             /\ DefaultDecisionForMode("Custom", ask.cap) = "deny"
             /\ DefaultDecisionForMode("Assisted", ask.cap) = "deny"
             /\ DefaultDecisionForMode("Supervised", ask.cap) = "ask_each_time"
             /\ ask.cap = "secrets.raw_reveal" =>
                  DefaultDecisionForMode("Full Control", ask.cap) = "ask_each_time"
  <2>1. AssistedDefault(ask.cap) = "deny"
    BY <1>5 DEF AssistedDefault
  <2>2. SupervisedDefault(ask.cap) = "ask_each_time"
    BY <1>3, <1>5, CriticalIsDangerous DEF SupervisedDefault
  <2>. QED  BY <1>3, <1>5, <2>1, <2>2, DefaultTable
<1>6. ask.cap \in SupervisedGates =>
        ask.cap \in CriticalCaps /\ ask.cap \notin HardDenyCapabilities
  BY GatedAreDangerous
<1>7. pol.mode \in Modes
  BY PolicyShape
<1>. QED  BY <1>2, <1>4, <1>5, <1>6, <1>7 DEF Modes

\* Hard-denied capabilities are denied in every mode and whatever rule names them;
\* without a rule the documented dangers are gated in every mode but Full Control,
\* and a raw secret in that one too; on any targets and scopes.
THEOREM DangerIsGatedHolds == Spec => []DangerIsGated
<1>1. PolicyInv => DangerIsGated
  BY HardDenied, GateStep DEF DangerIsGated
<1>. QED  BY <1>1, PolicyInvHolds, PTL
=============================================================================
