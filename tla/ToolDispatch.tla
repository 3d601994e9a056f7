------------------------------ MODULE ToolDispatch ------------------------------
(***************************************************************************)
(* One process that serves tool calls: the MCP router (mcp/router.py) over *)
(* an accepted configuration, the control plane's answer, the adapter the  *)
(* call ends at, and the playbook runner (playbooks.py) that makes the     *)
(* same calls in a row.  A tool call is one action, since the router is    *)
(* synchronous; what can go wrong inside it (an adapter that raises, a     *)
(* transport without a route, an audit sink that fails before or after the *)
(* machine was told) is a choice of the action.  The inside of             *)
(* ControlPlane.handle is the module ControlPlane; here it is what a       *)
(* caller can tell of it.                                                  *)
(***************************************************************************)
EXTENDS Config, Adapters, FiniteSets

CONSTANTS
  RawConfigs,   \* configurations tried; the process starts on an accepted one
  Fixtures,     \* what the fake transports of an adapter answer
  Requests,     \* the tool calls an agent makes: [tool, target, provider, params, cred]
  PolicyModes,  \* modes of the --mode option, besides the configured one
  MaxCalls,     \* bound on the calls served
  MaxGrants     \* bound on the approvals given

ASSUME BoundsAssumption == MaxCalls \in Nat /\ MaxGrants \in Nat

VARIABLES
  config,   \* the configuration of the process
  mode,     \* the mode of its policy
  fixture,  \* the fixture behind its pikvm and redfish adapters
  mock,     \* MockProvider.state
  store,    \* the approvals given: [id (of the call), tool, target, params, once, used]
  served,   \* the calls answered so far, with their statuses
  sent,     \* what reached a transport, or the mock: [call, adapter, send]
  log,      \* what the audit log says of each call: [call, event]
  run       \* the playbook being run and its next step, or Idle
dispatchVars == <<config, mode, fixture, mock, store, served, sent, log, run>>

-----------------------------------------------------------------------------
(***************************************************************************)
(* Tools and playbooks.                                                    *)
(***************************************************************************)
\* DEFAULT_MCP_TOOLS
ToolCapability ==
  [observe_screen         |-> "observe.screenshot",
   get_status             |-> "observe.status",
   get_power_state        |-> "observe.power_state",
   get_hardware_inventory |-> "observe.hardware_inventory",
   get_sensors            |-> "observe.sensors",
   get_event_logs         |-> "observe.event_logs",
   get_boot_status        |-> "observe.boot_status",
   request_clearance      |-> "runtime.request_clearance",
   deny_clearance         |-> "runtime.deny_clearance",
   power_on               |-> "power.on",
   power_off              |-> "power.force_off",
   power_cycle            |-> "power.power_cycle",
   power_reset            |-> "power.reset",
   graceful_restart       |-> "power.graceful_restart",
   force_restart          |-> "power.force_restart",
   mount_media            |-> "media.mount_approved_iso",
   change_boot_order      |-> "boot.override",
   type_text              |-> "input.keyboard_type",
   mouse_move             |-> "input.mouse_move",
   mouse_click            |-> "input.mouse_click",
   modify_policy          |-> "session.modify_policy",
   reveal_secret          |-> "secrets.raw_reveal"]
Tools == DOMAIN ToolCapability

\* MCPToolRegistry.__init__ refuses a tool of an unknown capability.
ASSUME ToolsMapToCapabilities == \A tool \in Tools : ToolCapability[tool] \in KnownCaps

\* DEFAULT_PLAYBOOK_REGISTRY: the tools of each playbook's steps, and the
\* capabilities it declares it needs.
Playbooks ==
  {"observe-target-health", "capture-screen-evidence", "inspect-boot-status",
   "collect-pre-recovery-evidence", "wait-for-login-prompt"}
StepsOf(name) ==
  CASE name = "observe-target-health" -> <<"get_status", "get_power_state">>
    [] name \in {"capture-screen-evidence", "wait-for-login-prompt"} -> <<"observe_screen">>
    [] name = "inspect-boot-status" -> <<"get_boot_status">>
    [] name = "collect-pre-recovery-evidence" ->
         <<"get_status", "get_power_state", "get_boot_status", "observe_screen">>
RequiredOf(name) ==
  CASE name = "observe-target-health" -> {"observe.status", "observe.power_state"}
    [] name \in {"capture-screen-evidence", "wait-for-login-prompt"} -> {"observe.screenshot"}
    [] name = "inspect-boot-status" -> {"observe.boot_status"}
    [] name = "collect-pre-recovery-evidence" ->
         {"observe.status", "observe.power_state", "observe.boot_status", "observe.screenshot"}

\* PlaybookRegistry._validate_playbook
ASSUME PlaybooksAreValid ==
  \A name \in Playbooks : \A i \in DOMAIN StepsOf(name) :
    StepsOf(name)[i] \in Tools /\ ToolCapability[StepsOf(name)[i]] \in RequiredOf(name)

Idle == [name |-> None, target |-> None, step |-> 0]
\* The MCPToolRequest PlaybookRunner.run builds for a step.
StepRequest(r) ==
  [tool |-> StepsOf(r.name)[r.step], target |-> r.target, provider |-> None,
   params |-> "plain", cred |-> None]
\* PlaybookRunner.run after a step: on to the next one only when it was ok.
AfterStep(r, status) ==
  IF status = "ok" /\ r.step < Len(StepsOf(r.name)) THEN [r EXCEPT !.step = @ + 1] ELSE Idle

-----------------------------------------------------------------------------
(***************************************************************************)
(* One tool call.                                                          *)
(***************************************************************************)
Unscoped == [allow |-> {}, deny |-> {}]
\* mode_preset, and what the router asks it for a request
DecisionOf(m, req) ==
  DecisionFor([mode |-> m, targets |-> Unscoped, sessions |-> Unscoped, rules |-> <<>>],
              ToolCapability[req.tool], req.target, "s1", req.cred)

\* handle_tool_request before the control plane: a known tool, a target that
\* resolves in this mode, and the provider the caller names, if any.
Routed(req) ==
  /\ req.tool \in Tools
  /\ Resolves(config, req.target, mode)
  /\ req.provider \in {None, TargetOf(config, req.target).provider}

\* The grant the store finds for a request (ApprovalStore.find_action_grant).
GrantsFor_UsedToo(req) ==
  {g \in store : g.tool = req.tool /\ g.target = req.target /\ g.params = req.params}
GrantsFor(req) ==
  {g \in store : /\ g.tool = req.tool /\ g.target = req.target /\ g.params = req.params
                 /\ g.once => ~g.used}
Consume(g) == (store \ {g}) \cup {[g EXCEPT !.used = TRUE]}

\* A playbook's router is given no clearance client.
AsksTower == UsesTower(config) /\ run = Idle

\* Call number Len(served) + 1 is answered "status", and the log has "events".
Answer(req, status, events) ==
  /\ served' = Append(served, [req |-> req, mode |-> mode, by |-> run.name, status |-> status])
  /\ log' = log \cup {[call |-> Len(served) + 1, event |-> e] : e \in events}
  /\ run' = IF run = Idle THEN Idle ELSE AfterStep(run, status)
  /\ UNCHANGED <<config, mode, fixture>>
NothingSent == UNCHANGED <<mock, sent>>

\* handle_tool_request, the validation errors, and _audit_validation_error.
RefuseCall(req) ==
  /\ ~Routed(req)
  /\ \/ Answer(req, "validation_error", {"result"})
     \/ Answer(req, "policy_error", {})
  /\ NothingSent /\ UNCHANGED store

\* ControlPlane.handle without execution: denied by policy or by the tower, or
\* asking for an approval or a clearance first.
HoldCall(req) ==
  /\ Routed(req)
  /\ \/ DecisionOf(mode, req) = "deny" /\ Answer(req, "denied", {"decided", "result"})
     \/ /\ RequiresApproval(DecisionOf(mode, req))
        /\ \/ /\ ~AsksTower /\ GrantsFor(req) = {}
              /\ Answer(req, "approval_required", {"decided", "result"})
           \/ /\ AsksTower
              /\ \E status \in {"denied", "clearance_required"} :
                   Answer(req, status, {"decided", "result"})
  /\ NothingSent /\ UNCHANGED store

\* A call may run on what the store holds afterwards: allowed outright or
\* cleared by the tower the store stays, on a grant the grant is consumed.
MayRun(req) ==
  LET decision == DecisionOf(mode, req) IN
  /\ Routed(req)
  /\ decision # "deny"
  /\ \/ ~RequiresApproval(decision) /\ UNCHANGED store
     \/ RequiresApproval(decision) /\ AsksTower /\ UNCHANGED store
     \/ /\ RequiresApproval(decision) /\ ~AsksTower
        /\ \E g \in GrantsFor(req) : store' = Consume(g)

\* The audit sink raises before the adapter is called.  Of what is raised in a
\* call the router turns ValueError and RuntimeError into policy_error and lets
\* the rest through to its caller; one status stands for both.
LoseCall(req) ==
  /\ \/ MayRun(req)
     \/ Routed(req) /\ UNCHANGED store
  /\ Answer(req, "policy_error", {})
  /\ NothingSent

StatusOf(outcome) ==
  CASE outcome = "ok" -> "ok" [] outcome = "error" -> "provider_error"
    [] outcome = "raises" -> "policy_error"

\* Everything the adapter of a call was told in it.
Told(adapter, sends) ==
  {[call |-> Len(served) + 1, adapter |-> adapter, send |-> sends[i]] : i \in DOMAIN sends}

RunCall_AuditsAfter(req) ==
  /\ MayRun(req)
  /\ LET adapter == AdapterFor(config, req.target)
         cap == ToolCapability[req.tool]
         done == Perform(adapter.kind, fixture, cap, req.params)
     IN /\ sent' = sent \cup Told(adapter.id, done.sends)
        /\ mock' = IF adapter.kind = "mock" THEN Simulate(mock, cap) ELSE mock
        /\ \/ Answer(req, StatusOf(done.outcome), {"started", "ended", "result"})
           \/ Answer(req, "policy_error", {})

\* ControlPlane._execute_provider; after the adapter has been called, the sink
\* may still raise.
RunCall(req) ==
  /\ MayRun(req)
  /\ LET adapter == AdapterFor(config, req.target)
         cap == ToolCapability[req.tool]
         done == Perform(adapter.kind, fixture, cap, req.params)
     IN /\ sent' = sent \cup Told(adapter.id, done.sends)
        /\ mock' = IF adapter.kind = "mock" THEN Simulate(mock, cap) ELSE mock
        /\ \/ /\ Answer(req, StatusOf(done.outcome),
                        IF done.outcome = "raises" THEN {"started"}
                        ELSE {"started", "ended", "result"})
           \/ Answer(req, "policy_error", {"started"})

Dispatch(req) == RefuseCall(req) \/ HoldCall(req) \/ LoseCall(req) \/ RunCall(req)

-----------------------------------------------------------------------------
(***************************************************************************)
(* The process.                                                            *)
(***************************************************************************)
DispatchInit ==
  /\ config \in {raw \in RawConfigs : Accepted(raw)}
  /\ mode \in {config.mode} \cup PolicyModes
  /\ fixture \in Fixtures
  /\ mock = MockFresh
  /\ store = {} /\ served = <<>> /\ sent = {} /\ log = {}
  /\ run = Idle

\* An agent's call.
CallTool ==
  /\ run = Idle /\ Len(served) < MaxCalls
  /\ \E req \in Requests : Dispatch(req)

\* PlaybookRunner.run starts; its registry knows the name.
StartPlaybook ==
  /\ run = Idle /\ Len(served) < MaxCalls
  /\ \E name \in Playbooks, target \in TargetIds(config) :
       run' = [name |-> name, target |-> target, step |-> 1]
  /\ UNCHANGED <<config, mode, fixture, mock, store, served, sent, log>>

RunStep == run # Idle /\ Dispatch(StepRequest(run))

\* The operator answers an approval request: for one call, or for the session.
Approve ==
  /\ Cardinality(store) < MaxGrants
  /\ \E c \in DOMAIN served, once \in BOOLEAN :
       /\ served[c].status = "approval_required"
       /\ \A g \in store : g.id # c
       /\ store' = store \cup
            {[id |-> c, tool |-> served[c].req.tool, target |-> served[c].req.target,
              params |-> served[c].req.params, once |-> once, used |-> FALSE]}
  /\ UNCHANGED <<config, mode, fixture, mock, served, sent, log, run>>

DispatchNext == CallTool \/ StartPlaybook \/ RunStep \/ Approve
DispatchSpec == DispatchInit /\ [][DispatchNext]_dispatchVars

-----------------------------------------------------------------------------
(***************************************************************************)
(* Properties.                                                             *)
(***************************************************************************)
Calls == DOMAIN served
SentIn(c) == {s \in sent : s.call = c}
LogOf(c) == {e.event : e \in {f \in log : f.call = c}}
Alike(c, req) ==
  /\ served[c].req.tool = req.tool /\ served[c].req.target = req.target
  /\ served[c].req.params = req.params

\* However the calls fail and are tried again, an operator's one-time approvals
\* of an action are as many as the calls that told a machine of it: an approval
\* that met a missing route, a lost audit event or a bad parameter is gone.
\* (Unless one of its approvals is for the session, or the tower cleared it.)
ApprovalsBoundEffects ==
  \A c \in Calls :
    LET req == served[c].req
        given == {g \in store : /\ g.tool = req.tool /\ g.target = req.target
                                /\ g.params = req.params}
        told == {d \in Calls : Alike(d, req) /\ SentIn(d) # {}}
    IN /\ SentIn(c) # {} /\ ~UsesTower(config)
       /\ RequiresApproval(DecisionOf(mode, req))
       /\ \A g \in given : g.once
       => Cardinality(told) <= Cardinality(given)

\* The machine a call reaches is the one the configuration file names for its
\* target, both are enabled there, the provider is a mock or a fixture and not
\* a live one, the target takes calls in this mode, and nothing was sent that
\* the tool's capability does not stand for.
ToldAsConfigured ==
  \A s \in sent :
    LET req == served[s.call].req
        target == TargetOf(config, req.target)
        provider == ProviderOf(config, target.provider)
    IN /\ s.adapter = provider.id
       /\ target.enabled /\ provider.enabled
       /\ provider.type = "mock" \/ (provider.fixture_mode /\ ~provider.live_mode)
       /\ target.allowed_modes = {} \/ mode \in target.allowed_modes
       /\ s.send.method \in (IF provider.type = "mock" THEN {"request"}
                             ELSE IF ToolCapability[req.tool] \in ObserveCaps
                                    THEN {"GET"} ELSE {"POST", "PATCH"})

\* What the caller is told agrees with what the machine was told: a refusal or
\* a request for approval means nothing was sent and, unless the caller got an
\* exception, that the log has the result; ok means the call succeeded in full;
\* and whatever the answer, something sent is something the log says started.
AnswerMatchesWire ==
  \A c \in Calls :
    LET status == served[c].status IN
    /\ status \in {"validation_error", "denied", "approval_required", "clearance_required"}
         => SentIn(c) = {} /\ "result" \in LogOf(c)
    /\ status = "ok" =>
         /\ "ended" \in LogOf(c)
         /\ SentIn(c) # {}
         /\ \A s \in SentIn(c) : s.send.method # "request" => ~Fails(fixture, s.send)
    /\ SentIn(c) # {} => "started" \in LogOf(c)

\* docs/recovery-playbooks.md:22-24: a playbook reads.  Whatever it runs on, no
\* step of it changes the mock machine or sends anything but a GET.
PlaybooksOnlyObserve ==
  [][run # Idle => /\ mock' = mock
                   /\ \A s \in sent' \ sent : s.send.method \in {"GET", "request"}]_dispatchVars
=============================================================================
