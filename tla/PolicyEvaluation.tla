-------------------------- MODULE PolicyEvaluation --------------------------
(***************************************************************************)
(* One evaluation of CapabilityPolicy.decision_for, for every capability   *)
(* of the default registry and one it does not know, every mode, and small *)
(* scopes: what must hold of the table of decisions as a whole.            *)
(***************************************************************************)
EXTENDS Policy, Integers

CONSTANTS
  Targets,       \* target ids, None excepted
  ScopeChoices,  \* target scopes tried, records [allow, deny]
  RuleDecisions  \* decisions an explicit rule may give the asked capability

ASSUME RuleDecisionsAssumption == RuleDecisions \subseteq Decisions
ASSUME ScopesAssumption ==
  ScopeChoices \subseteq [allow : SUBSET Targets, deny : SUBSET Targets] /\ None \notin Targets

VARIABLES
  pol,    \* the policy
  ask,    \* what decision_for is called with
  answer  \* the decision, "pending" until it is computed
vars == <<pol, ask, answer>>

AnySession == [allow |-> {}, deny |-> {}]
Asks == [cap : KnownCaps \cup {"unknown.capability"}, target : Targets \cup {None},
         session : {"s1", None}, cred : {"c1", None}]

Of(p, a) == DecisionFor(p, a.cap, a.target, a.session, a.cred)

Init ==
  /\ ask \in Asks
  /\ answer = "pending"
  /\ \E mode \in Modes, targets \in ScopeChoices,
        rules \in {<<>>} \cup [{ask.cap} -> RuleDecisions] :
       pol = [mode |-> mode, targets |-> targets, sessions |-> AnySession,
              real_hardware |-> FALSE, rules |-> rules]

Evaluate == answer = "pending" /\ answer' = Of(pol, ask) /\ UNCHANGED <<pol, ask>>

Spec == Init /\ [][Evaluate]_vars

-----------------------------------------------------------------------------
(***************************************************************************)
(* Properties.                                                             *)
(***************************************************************************)
Rank(d) == CASE d = "deny" -> 0 [] d = "ask_each_time" -> 1
             [] d = "ask_once_per_session" -> 2 [] d = "allow_with_limits" -> 3
             [] d = "allow" -> 4

\* default_decision_for_mode is four separate tables; read as one they are a
\* ladder: Observe, Assisted, Supervised, Full Control never take back what the
\* mode below gives, and Custom gives nothing of its own.
ModesAreALadder ==
  LET In(mode) == Rank(Of([pol EXCEPT !.mode = mode], ask)) IN
  /\ In("Observe") <= In("Assisted")
  /\ In("Assisted") <= In("Supervised")
  /\ In("Supervised") <= In("Full Control")
  /\ pol.rules = <<>> => In("Custom") = 0

\* Denying one more target, or trimming an allow list that keeps an entry, can
\* turn an answer into a denial and nothing else; no rule survives it.
ScopesOnlyNarrow ==
  answer # "pending" =>
    \A t \in Targets :
      /\ Of([pol EXCEPT !.targets.deny = @ \cup {t}], ask) \in {answer, "deny"}
      /\ pol.targets.allow \ {t} # {} =>
           Of([pol EXCEPT !.targets.allow = @ \ {t}], ask) \in {answer, "deny"}

\* docs/control-plane.md:71-90, by capability.
SupervisedGates ==
  {"power.force_off", "power.force_restart", "power.power_cycle", "power.reset",
   "power.nmi", "bmc.reset", "media.mount_arbitrary_iso", "boot.override",
   "bios.change_setting", "firmware.update_bios", "firmware.update_bmc",
   "network.change_bmc_ip", "network.change_host_ip", "bmc.rotate_password",
   "storage.wipe_disk", "storage.repartition_disk", "storage.restore_backup",
   "secrets.raw_reveal", "runtime.execute_untrusted_script",
   "runtime.call_external_webhook", "runtime.spawn_subagent"}

\* A hard-denied capability is denied in every mode, whatever rule names it.
\* Without a rule, Supervised mode runs nothing on the documented list of dangerous
\* actions without asking each time, Observe, Assisted and Custom run none of it,
\* and no mode reveals a raw secret unasked.  Full Control answers "allow" for the
\* rest of the list (decision_for, default_decision_for_mode).
DangerIsGated ==
  answer # "pending" =>
    /\ ask.cap \in HardDenyCapabilities => answer = "deny"
    /\ pol.rules = <<>> /\ ask.cap \in SupervisedGates =>
         /\ pol.mode = "Supervised" => answer \in {"ask_each_time", "deny"}
         /\ pol.mode \in {"Observe", "Assisted", "Custom"} => answer = "deny"
    /\ pol.rules = <<>> /\ ask.cap = "secrets.raw_reveal" =>
         answer \in {"ask_each_time", "deny"}
=============================================================================
