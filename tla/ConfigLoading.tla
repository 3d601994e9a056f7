------------------------------ MODULE ConfigLoading ------------------------------
(***************************************************************************)
(* config_from_mapping on one raw configuration (config/loader.py): it     *)
(* ends with an AgenticKVMConfig, or raises.                               *)
(***************************************************************************)
EXTENDS Config

CONSTANT RawFiles  \* the raw configurations tried

VARIABLES
  file,    \* the raw configuration
  verdict  \* "pending", then "accepted" or "rejected"
loadVars == <<file, verdict>>

LoadInit == file \in RawFiles /\ verdict = "pending"
Load ==
  /\ verdict = "pending"
  /\ verdict' = IF Accepted(file) THEN "accepted" ELSE "rejected"
  /\ UNCHANGED file

LoadSpec == LoadInit /\ [][Load]_loadVars

-----------------------------------------------------------------------------
\* A secret in the clear, or a class to import.
TellingKeys == {"secret", "literal", "import"}
\* docs/configuration.md:58: whatever file is accepted, no call of it can reach a
\* real machine.  A target that resolves in some mode ends at the mock or at a
\* fake adapter that bears its provider's id and never claims real hardware,
\* and its entry is not live; a file with a secret or an import in an entry, in
\* a target or in the rest of it is not accepted; and an accepted enabled target
\* of an enabled provider is not silently left out.
AcceptedConfigsRunOffline ==
  verdict = "accepted" =>
    /\ file.keys \cap TellingKeys = {}
    /\ \A i \in DOMAIN file.providers :
         /\ file.providers[i].keys \cap TellingKeys = {}
         /\ file.providers[i].credential_ref # "literal"
    /\ \A i \in DOMAIN file.targets :
         /\ file.targets[i].keys \cap TellingKeys = {}
         /\ file.targets[i].credential_ref # "literal"
    /\ \A id \in TargetIds(file), mode \in Modes :
         LET target == TargetOf(file, id)
             provider == ProviderOf(file, target.provider)
             adapter == AdapterFor(file, id)
         IN /\ Resolves(file, id, mode) =>
                 /\ adapter.id = provider.id /\ ~adapter.real
                 /\ adapter.kind = "mock" \/ (provider.fixture_mode /\ FixtureTransport(provider))
                 /\ adapter.kind # "mock" => ~provider.live_mode
            /\ target.enabled /\ provider.enabled /\ AllowsMode(target, mode)
                 => Resolves(file, id, mode)
=============================================================================
