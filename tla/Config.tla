--------------------------------- MODULE Config ---------------------------------
(***************************************************************************)
(* The configuration loader (config/) and the two registries it fills      *)
(* (providers/registry.py, control_plane/targets.py), as operators on a    *)
(* raw configuration: is it accepted, which adapter does each provider     *)
(* entry get, and what does a target resolve to.                           *)
(*                                                                         *)
(* A raw configuration is a record [providers, targets, mode, channel,     *)
(* tower, keys]: two sequences of items, the policy mode, the auth channel *)
(* (None when left out), whether the act section is complete, and what the *)
(* rest of the file holds.  Of a mapping the loader searches, "keys" holds *)
(* the kinds of telling key it has, at any depth: "secret" (a password, a  *)
(* token), "import" (class, factory, module), "credential_ref" with a      *)
(* reference of an allowed scheme, and "literal", one with anything else.  *)
(* tls_verify is "on" (true, or left out), "off" (the JSON false) or       *)
(* "falsy" (0, null, the text "false"): only "off" is false to the loader. *)
(***************************************************************************)
EXTENDS Policy, Integers, Sequences

ExecutableTypes == {"mock"}
PlaceholderTypes ==
  {"pikvm", "redfish", "ilo", "idrac", "ipmi", "supermicro", "proxmox"}
KnownTypes == ExecutableTypes \cup PlaceholderTypes
TestFixtureRisks == {"test_fake_observe_only", "test_fake_clearance_gated"}
Channels == {"mobile_signed", "local_terminal"}

-----------------------------------------------------------------------------
(***************************************************************************)
(* Loading.                                                                *)
(***************************************************************************)
\* reject_unsafe_config_keys: no secret-like and no import-like key at any depth,
\* and a credential reference only by an allowed scheme.
SafeElsewhere(raw) == raw.keys \subseteq {"credential_ref"}
SafeKeys(item) ==
  /\ item.keys \subseteq {"credential_ref"}
  /\ item.credential_ref \in {"absent", "reference"}

FixtureTransport(p) == p.transport \in {"fake", "fixture"}

ValidMetadata_LiveFixtures(p) ==
  p.type \in {"pikvm", "redfish"} =>
    /\ p.tls_verify = "off" => p.allow_insecure_tls
    /\ p.fixture_mode => FixtureTransport(p)
    /\ p.enabled /\ p.type = "pikvm" => p.fixture_mode
\* _validate_provider_metadata
ValidMetadata(p) ==
  p.type \in {"pikvm", "redfish"} =>
    /\ ~(p.fixture_mode /\ p.live_mode)
    /\ p.tls_verify = "off" => p.allow_insecure_tls
    /\ p.fixture_mode => FixtureTransport(p)
    /\ p.enabled /\ p.type = "pikvm" => p.fixture_mode

ValidProvider(p) == SafeKeys(p) /\ p.type \in KnownTypes /\ ValidMetadata(p)
ValidTarget(t) == SafeKeys(t) /\ t.allowed_modes \subseteq Modes

NoAdapter == [id |-> None, kind |-> None, risk |-> None, real |-> TRUE]
Fixture(p) ==
  [id |-> p.id, kind |-> p.type, risk |-> "test_fake_clearance_gated", real |-> FALSE]

\* _provider_adapter_from_config; MockProvider's id is "mock", whatever the
\* entry is called.
AdapterOf(p) ==
  CASE ~p.enabled -> NoAdapter
    [] p.enabled /\ p.type = "mock" ->
         [id |-> "mock", kind |-> "mock", risk |-> "unknown", real |-> FALSE]
    [] p.enabled /\ p.type \in {"pikvm", "redfish"} /\ p.fixture_mode -> Fixture(p)
    [] OTHER -> NoAdapter

\* _is_test_fixture_adapter
IsFixture(adapter, type) ==
  adapter.kind = type /\ ~adapter.real /\ adapter.risk \in TestFixtureRisks

\* ProviderEntry.__post_init__
ValidEntry(p) ==
  LET adapter == AdapterOf(p) IN
  /\ p.keys = {}
  /\ p.enabled =>
       /\ p.type \in ExecutableTypes \/ IsFixture(adapter, p.type)
       /\ adapter # NoAdapter
  /\ adapter # NoAdapter => adapter.id = p.id /\ adapter.kind = p.type

DistinctIds(items) ==
  \A i, j \in DOMAIN items : items[i].id = items[j].id => i = j
\* ProviderRegistry.register and build_provider_registry
ValidProviders(ps) == DistinctIds(ps) /\ \A i \in DOMAIN ps : ValidEntry(ps[i])
\* TargetDefinition.__post_init__, TargetRegistry.register, build_target_registry
ValidTargets(ts, ps) ==
  /\ DistinctIds(ts)
  /\ \A i \in DOMAIN ts :
       /\ ts[i].keys = {}
       /\ \E j \in DOMAIN ps : ps[j].id = ts[i].provider

\* resolve_auth_channel
ValidChannel(channel) == channel \in Channels \cup {None}
ResolveChannel(channel) == IF channel = None THEN "mobile_signed" ELSE channel

\* config_from_mapping
Accepted(raw) ==
  /\ SafeElsewhere(raw)
  /\ \A i \in DOMAIN raw.providers : ValidProvider(raw.providers[i])
  /\ \A i \in DOMAIN raw.targets : ValidTarget(raw.targets[i])
  /\ ValidChannel(raw.channel)
  /\ raw.mode \in Modes
  /\ ValidProviders(raw.providers)
  /\ ValidTargets(raw.targets, raw.providers)

Item(id, type) ==
  [id |-> id, type |-> type, enabled |-> TRUE, credential_ref |-> "absent",
   keys |-> {}, fixture_mode |-> FALSE, live_mode |-> FALSE, tls_verify |-> "on",
   allow_insecure_tls |-> FALSE, transport |-> "fake"]
Scope(id, provider) ==
  [id |-> id, provider |-> provider, enabled |-> TRUE, allowed_modes |-> {},
   credential_ref |-> "absent", keys |-> {}]
\* mock_only_config
MockOnlyConfig ==
  [providers |-> <<Item("mock", "mock")>>,
   targets |-> <<[Scope("mock-host", "mock") EXCEPT !.allowed_modes =
                    {"Observe", "Assisted", "Supervised", "Full Control"}]>>,
   mode |-> "Supervised", channel |-> None, tower |-> FALSE, keys |-> {}]

\* build_runtime: with a complete act section, approvals on the default channel
\* go to the tower.
UsesTower(raw) == raw.tower /\ ResolveChannel(raw.channel) = "mobile_signed"

-----------------------------------------------------------------------------
(***************************************************************************)
(* Resolving.  "raw" is accepted.                                          *)
(***************************************************************************)
TargetIds(raw) == {raw.targets[i].id : i \in DOMAIN raw.targets}
TargetOf(raw, id) ==
  raw.targets[CHOOSE i \in DOMAIN raw.targets : raw.targets[i].id = id]
ProviderOf(raw, id) ==
  raw.providers[CHOOSE i \in DOMAIN raw.providers : raw.providers[i].id = id]

\* _is_executable_entry
IsExecutable(p) ==
  /\ p.enabled /\ AdapterOf(p) # NoAdapter
  /\ p.type \in ExecutableTypes \/ IsFixture(AdapterOf(p), p.type)

AllowsMode(t, mode) == t.allowed_modes = {} \/ mode \in t.allowed_modes

Resolves_AnyMode(raw, id, mode) ==
  /\ id \in TargetIds(raw)
  /\ TargetOf(raw, id).enabled
  /\ IsExecutable(ProviderOf(raw, TargetOf(raw, id).provider))
\* TargetRegistry.resolve_enabled, with ProviderRegistry.resolve_enabled in it
Resolves(raw, id, mode) ==
  /\ id \in TargetIds(raw)
  /\ TargetOf(raw, id).enabled
  /\ IsExecutable(ProviderOf(raw, TargetOf(raw, id).provider))
  /\ AllowsMode(TargetOf(raw, id), mode)

\* The adapter a resolved target's calls go to.
AdapterFor(raw, id) == AdapterOf(ProviderOf(raw, TargetOf(raw, id).provider))
=============================================================================
