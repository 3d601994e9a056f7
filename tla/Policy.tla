------------------------------- MODULE Policy -------------------------------
(***************************************************************************)
(* The policy engine (control_plane/policy.py) over the default capability *)
(* registry (control_plane/capabilities.py): a pure function from a policy *)
(* and a request to one of five decisions.  Every other component that     *)
(* asks "may this run?" asks DecisionFor.                                  *)
(*                                                                         *)
(* In this module and the others, a definition named Name_Slip is Name     *)
(* with a plausible slip in it; the mutants of PROJECT.json put it in      *)
(* Name's place to see the properties fail, and nothing else uses it.      *)
(***************************************************************************)
\* Python's None: a target, session or credential the request does not name.
None == "none"

\* PolicyDecision and ControlMode (decisions.py).
Decisions == {"deny", "ask_each_time", "ask_once_per_session",
              "allow_with_limits", "allow"}
Modes == {"Observe", "Assisted", "Supervised", "Full Control", "Custom"}

-----------------------------------------------------------------------------
(***************************************************************************)
(* The default capability registry, by the attributes policy reads: the    *)
(* family, whether the risk is critical, dangerous and destructive, and    *)
(* the scope a request must name.                                          *)
(***************************************************************************)
HardDenyCapabilities ==
  {"session.modify_policy", "session.disable_audit",
   "session.disable_emergency_stop"}

SafeSessionCaps == {"session.start", "session.end", "session.select_target"}
ObserveCaps ==
  {"observe.status", "observe.screen", "observe.screenshot",
   "observe.power_state", "observe.hardware_inventory", "observe.sensors",
   "observe.event_logs", "observe.boot_status"}
DestructiveCaps ==
  {"power.force_off", "power.force_restart", "power.power_cycle",
   "power.reset", "power.nmi", "firmware.update_bios", "firmware.update_bmc",
   "storage.wipe_disk", "storage.repartition_disk", "storage.restore_backup",
   "runtime.execute_untrusted_script"}
CriticalCaps ==
  HardDenyCapabilities \cup DestructiveCaps \cup
  {"media.mount_arbitrary_iso", "boot.override", "bios.change_setting",
   "network.change_bmc_ip", "network.change_host_ip", "bmc.rotate_password",
   "bmc.reset", "secrets.raw_reveal", "runtime.call_external_webhook",
   "runtime.spawn_subagent"}
DangerousCaps ==
  CriticalCaps \cup
  {"input.mouse_move", "input.mouse_click", "input.keyboard_type",
   "input.keyboard_shortcut", "power.on", "power.graceful_shutdown",
   "power.graceful_restart", "media.mount_approved_iso", "boot.enter_bios",
   "secrets.inject_reference", "runtime.run_approved_playbook"}
PlainCaps ==
  {"input.keyboard_key", "media.eject", "bios.view_settings",
   "storage.view_disk_layout", "network.read_config", "bmc.account_list",
   "runtime.noop", "runtime.request_clearance", "runtime.deny_clearance"}
KnownCaps == SafeSessionCaps \cup ObserveCaps \cup DangerousCaps \cup PlainCaps

\* Capability.family, as far as anything tells families apart: the ten
\* families no check names are "other".
FamilyOf(cap) ==
  CASE cap \in SafeSessionCaps \cup HardDenyCapabilities -> "session"
    [] cap \in ObserveCaps -> "observe"
    [] cap \in {"runtime.noop", "runtime.request_clearance",
                "runtime.deny_clearance", "runtime.run_approved_playbook",
                "runtime.execute_untrusted_script",
                "runtime.call_external_webhook", "runtime.spawn_subagent"} -> "runtime"
    [] OTHER -> "other"

RequiredScope(cap) ==
  CASE cap = "secrets.raw_reveal" -> {"target", "session", "credential"}
    [] \/ cap \in HardDenyCapabilities
       \/ cap \in {"session.start", "session.end", "runtime.noop",
                   "runtime.request_clearance", "runtime.deny_clearance"} -> {"session"}
    [] OTHER -> {"target", "session"}

-----------------------------------------------------------------------------
(***************************************************************************)
(* A policy is a record [mode, targets, sessions, real_hardware, rules]:   *)
(* the two scopes have an allow and a deny set, rules maps some known      *)
(* capabilities to an explicit decision.                                   *)
(***************************************************************************)
ScopeAllows_DenyListOpens(scope, id) ==
  IF id = None THEN scope.allow = {} /\ scope.deny = {}
  ELSE IF scope.deny # {} THEN id \notin scope.deny
  ELSE scope.allow = {} \/ id \in scope.allow

\* TargetScope.allows and SessionScope.allows: deny wins, an empty allow set
\* admits everything, and an unnamed id is inside only an unrestricted scope.
ScopeAllows(scope, id) ==
  IF id = None
    THEN scope.allow = {} /\ scope.deny = {}
    ELSE id \notin scope.deny /\ (scope.allow = {} \/ id \in scope.allow)

\* The scope the capability requires and the request leaves out.
MissingScope(cap, target, session, cred) ==
  {s \in RequiredScope(cap) :
     \/ s = "target" /\ target = None
     \/ s = "session" /\ session = None
     \/ s = "credential" /\ cred = None}

AssistedDefault_AsksForAll(cap) == "ask_each_time"

\* default_decision_for_mode: the Assisted and Supervised answers for what is
\* not a harmless observation or session step, then the table of modes.
AssistedDefault(cap) ==
  IF cap \in DestructiveCaps \cup CriticalCaps THEN "deny" ELSE "ask_each_time"

SupervisedDefault_DeniesCritical(cap) ==
  IF cap \in {"media.mount_approved_iso", "secrets.inject_reference"}
    THEN "ask_once_per_session"
  ELSE IF cap \in DangerousCaps THEN "deny" ELSE "allow_with_limits"
SupervisedDefault(cap) ==
  IF cap \in {"media.mount_approved_iso", "secrets.inject_reference"}
    THEN "ask_once_per_session"
  ELSE IF cap \in DangerousCaps THEN "ask_each_time" ELSE "allow_with_limits"

DefaultDecisionForMode(mode, cap) ==
  LET safe == FamilyOf(cap) \in {"observe", "session"} /\ cap \notin DangerousCaps IN
  CASE cap \in HardDenyCapabilities -> "deny"
    [] mode = "Custom"       -> "deny"
    [] mode = "Observe"      -> IF safe THEN "allow" ELSE "deny"
    [] mode = "Assisted"     -> IF safe THEN "allow" ELSE AssistedDefault(cap)
    [] mode = "Supervised"   -> IF safe THEN "allow" ELSE SupervisedDefault(cap)
    [] mode = "Full Control" -> IF cap = "secrets.raw_reveal"
                                  THEN "ask_each_time" ELSE "allow"

\* The checks of decision_for that come before any rule is looked at.
Refused(pol, cap, target, session, cred) ==
  \/ cap \notin KnownCaps
  \/ cap \in HardDenyCapabilities
  \/ MissingScope(cap, target, session, cred) # {}
  \/ ~ScopeAllows(pol.targets, target)
  \/ ~ScopeAllows(pol.sessions, session)

\* CapabilityPolicy.decision_for
DecisionFor(pol, cap, target, session, cred) ==
  IF Refused(pol, cap, target, session, cred) THEN "deny"
  ELSE IF cap \in DOMAIN pol.rules THEN pol.rules[cap]
  ELSE DefaultDecisionForMode(pol.mode, cap)

\* PolicyDecisionResult.requires_approval
RequiresApproval(decision) == decision \in {"ask_each_time", "ask_once_per_session"}

\* APPROVAL_RESUMPTION_BLOCKED_CAPABILITIES (approvals.py)
BlockedCapabilities == HardDenyCapabilities \cup {"secrets.raw_reveal"}
=============================================================================
