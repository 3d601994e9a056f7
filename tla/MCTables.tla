-------------------------------- MODULE MCTables --------------------------------
(* The parts one process goes through, side by side: a behaviour is one policy *)
(* decision, one configuration being loaded, one record being redacted, or one *)
(* process that serves tool calls and playbooks.                                *)
EXTENDS PolicyEvaluation, ConfigLoading, Redaction, ToolDispatch

VARIABLE scene
allVars == <<scene, vars, loadVars, redactionVars, dispatchVars>>

MCScopes ==
  {[allow |-> {}, deny |-> {}], [allow |-> {}, deny |-> {"t1"}],
   [allow |-> {"t1"}, deny |-> {}], [allow |-> {"t1", "t2"}, deny |-> {}],
   [allow |-> {"t1", "t2"}, deny |-> {"t1"}]}

\* One provider entry of any shape, beside the mock, with a target of it and one
\* of the mock; and, with that entry a fixture, any keys in any part of the file.
KeyKinds == {{}} \cup {{kind} : kind \in {"secret", "import", "credential_ref", "literal"}}
MCEntries ==
  [id : {"mock", "p1"}, type : {"mock", "pikvm", "redfish", "ilo", "vmware"},
   enabled : BOOLEAN, credential_ref : {"absent", "reference"},
   keys : {{}, {"import"}}, fixture_mode : BOOLEAN, live_mode : BOOLEAN,
   tls_verify : {"on", "off", "falsy"}, allow_insecure_tls : BOOLEAN, transport : {"fake", "https"}]
FileOf(entry, target, keys) ==
  [providers |-> <<entry, Item("mock", "mock")>>, targets |-> <<target, Scope("t2", "mock")>>,
   mode |-> "Supervised", channel |-> None, tower |-> FALSE, keys |-> keys]
MCFiles ==
  {FileOf(entry, [Scope("t1", entry.id) EXCEPT !.enabled = enabled, !.allowed_modes = modes], {}) :
     entry \in MCEntries, enabled \in BOOLEAN, modes \in {{}, {"Observe"}}}
  \cup
  {FileOf([Item("p1", type) EXCEPT !.fixture_mode = TRUE, !.keys = inEntry, !.credential_ref = ref],
          [Scope("t1", "p1") EXCEPT !.keys = inTarget, !.credential_ref = targetRef], keys) :
     type \in {"pikvm", "redfish"}, inEntry, inTarget, keys \in KeyKinds,
     ref, targetRef \in {"absent", "reference", "literal"}}

\* Records of a result under one key, with or without a posture around it.
Keys == {"note", "text", "password", "event_id", "redactions"}
Tree(kind) == [p \in {<<>>} |-> kind]
At(k, tree) == [p \in {<<k>> \o q : q \in DOMAIN tree} |-> tree[Tail(p)]]
Leaves == {Tree("plain"), Tree("secret"), Tree("bytes")}
Lists(trees) == {Tree("list") @@ At("#1", t) @@ At("#2", u) : t, u \in trees}
Posed(posture) == Tree("mapping") @@ posture
Postures ==
  {Posed(<<>>), Posed(At("full_capture", Tree("on"))), Posed(At("full_capture", Tree("off"))),
   Posed(At("hid_capture", Posed(At("full_capture", Tree("on"))))),
   Posed(At("hid_capture", Tree("mapping")))}
Results ==
  {posture @@ At(key, t) :
     posture \in Postures, key \in Keys, t \in Leaves \cup Lists(Leaves)}
MCRecords ==
  {posture @@ At(key, t) :
     posture \in Postures, key \in Keys,
     t \in Leaves \cup {Tree("[REDACTED]")} \cup Results
             \cup {Tree("list") @@ At("#1", r) : r \in Results}}

\* A process with a PiKVM or a Redfish box of fixtures, the tower's or the
\* operator's approvals, and a target that only takes observation.
Box(type) == [Item("p1", type) EXCEPT !.fixture_mode = TRUE]
WithBox(type) ==
  [providers |-> <<Box(type)>>,
   targets |-> <<Scope("box", "p1"),
                 [Scope("quiet", "p1") EXCEPT !.allowed_modes = {"Observe"}]>>,
   mode |-> "Supervised", channel |-> "local_terminal", tower |-> TRUE,
   keys |-> {}]
MCConfigs ==
  {MockOnlyConfig, WithBox("pikvm"), [WithBox("redfish") EXCEPT !.channel = None]}
MCFixtures ==
  {[methods |-> {"GET", "POST", "PATCH"}, missing |-> {}],
   [methods |-> {"GET", "POST"}, missing |-> {"screenshot", "atx/cycle", "manager"}]}
Ask(tool, target) ==
  [tool |-> tool, target |-> target, provider |-> None, params |-> "plain", cred |-> None]
MCRequests ==
  {Ask("observe_screen", "box"), Ask("power_cycle", "box"), Ask("mouse_move", "quiet"),
   [Ask("power_on", "mock-host") EXCEPT !.provider = "p1"], Ask("power_off", "mock-host"),
   [Ask("mouse_move", "box") EXCEPT !.params = "tiny"], Ask("change_boot_order", "box")}

-----------------------------------------------------------------------------
\* The parts a behaviour is not about stay in one initial state.
MCInit ==
  /\ scene \in {"policy", "config", "record", "process"}
  /\ IF scene = "policy" THEN Init
     ELSE /\ pol = [mode |-> "Observe", targets |-> AnySession, sessions |-> AnySession,
                    real_hardware |-> FALSE, rules |-> <<>>]
          /\ ask = [cap |-> "observe.status", target |-> None, session |-> "s1", cred |-> None]
          /\ answer = "pending"
  /\ IF scene = "config" THEN LoadInit ELSE file = MockOnlyConfig /\ verdict = "pending"
  /\ IF scene = "record" THEN RedactionInit
     ELSE /\ original = Tree("mapping") /\ record = original
          /\ capture = FALSE /\ reports = <<>>
  /\ IF scene = "process" THEN DispatchInit
     ELSE /\ config = MockOnlyConfig /\ mode = config.mode
          /\ fixture = [methods |-> {}, missing |-> {}] /\ mock = MockFresh
          /\ store = {} /\ served = <<>> /\ sent = {} /\ log = {} /\ run = Idle
MCNext ==
  /\ \/ /\ scene = "policy" /\ Evaluate
        /\ UNCHANGED <<loadVars, redactionVars, dispatchVars>>
     \/ /\ scene = "config" /\ Load
        /\ UNCHANGED <<vars, redactionVars, dispatchVars>>
     \/ /\ scene = "record" /\ RedactMapping
        /\ UNCHANGED <<vars, loadVars, dispatchVars>>
     \/ /\ scene = "process" /\ DispatchNext
        /\ UNCHANGED <<vars, loadVars, redactionVars>>
  /\ UNCHANGED scene
MCSpec == MCInit /\ [][MCNext]_allVars
=============================================================================
