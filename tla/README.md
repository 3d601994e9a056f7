# A TLA+ verification project for AgenticKVM

AgenticKVM lets agents drive out-of-band hardware controllers (PiKVM, Redfish)
under an operator's policy.  Every request passes one control plane, which asks
the policy, an operator, a signed grant or a remote tower, writes an audit log,
and only then calls a provider.  An operator's own live sessions reach real
hardware by another path, through pinned clients and mutation gates.  The models
below describe both paths, what a process reads before it serves (configuration,
targets) and writes after it (redacted records), and the files its processes
share.  Paths are those of the repository; the Python package is
`src/agentickvm`.

## The system

| Part | State it keeps | Operations |
| --- | --- | --- |
| Policy engine, capability registry (`control_plane/policy.py`, `capabilities.py`) | none: a function of policy and request | `decision_for` |
| Control plane (`control_plane/engine.py`) | ids of spent signed grants; the locals of one call | `handle`, `_handle_act_clearance`, `_verify_signed_approval_grant`, `_execute_provider` |
| Approval store (`control_plane/approvals.py`) | action grants, consumed response ids | `add_action_grant`, `grant_from_response`, `find_action_grant`, `consume` |
| Signed grants (`approval_broker.py`, `grants.py`, `signer_trust.py`, `approval_store.py`) | a cache file behind a lock; trusted keys | append, find, register a signer, verify |
| ACT clearance (`clearance.py`, `act_client.py`, `act_http_client.py`, `act_proof.py`) | none between calls | build a request, ask the tower, verify the answer |
| MCP router, SDK adapter, host (`mcp/`, `mcp_sdk/`) | pending requests and their states | call, submit a response, resume |
| Local approval queue (`approval_transport.py`) | one JSON file | enqueue, approve, deny, expire, consume |
| Audit sinks, checkpoints, export (`audit*.py`) | a log file; the last hash (JSONL); checkpoints | emit, verify, checkpoint |
| Configuration, provider and target registries (`config/`, `providers/registry.py`, `control_plane/targets.py`) | an immutable configuration | load, register, resolve |
| Provider adapters (`providers/mock.py`, `pikvm.py`, `redfish.py`) | the mock's state; what a fake transport recorded | `execute_authorized` |
| Playbooks (`playbooks.py`) | the step it is at | run |
| Mutation gate and transports (`providers/mutation_gate.py`, `*_mutation_transport.py`, `live_validation/*_mutate.py`) | issued handles, a ledger of spent clearances | build behind a pin, issue, call a verb |
| Read transports (`providers/*_transport.py`, `live_validation/*`) | `_resource_cache` | build behind a pin, read |
| Redaction (`redaction.py`) | none | `redact_mapping` |
| Command line (`cli/`) | none | a process per command |

How they meet: the CLI or a host builds a router, the router a control plane
around the resolved provider **for every request**; the control plane reads the
policy and the approval store, emits to the audit sink, calls the tower's client
and the provider.  The host and the CLI queue feed operators' answers back.
Playbooks call the router like an agent does.  The live transports are not
wired to the router: an operator's session builds them, and a mutation needs a
handle made from a clearance the tower gave.  All of this is sequential Python, and
nothing in the repository starts a thread; but a mutation transport and a ledger
are objects that a session may hand to several callers, and nothing in them takes a
lock.  Otherwise concurrency exists between processes: a CLI invocation per
command, a host that stays up, all on the same queue, cache and audit files.

What is hard: an exception from the audit sink or the provider leaves `handle`
between any two steps; approvals live in memory and the log does not; time
passes while the tower is asked; the tower's answer may be old, another's, or
never come; two processes load and save one file; a write may be cut short; a
lock's holder dies; a configuration has entries that contradict each other; an
adapter fails half way through a capability; the machine at an address is
replaced between the check of its certificate and its use; a call whose answer
was lost is made again.
`PROJECT.json` lists the hazards line by line with the property aimed at each, and
for the few without one why no property covers them: the fork of two SQLite sinks,
a signer trusted too long, and a ledger that a restart or a second transport
begins anew are what the code allows.

What makes each part correct: the decision table is consistent across modes,
scopes and rules (policy); nothing reaches a provider without an unexpired
authority for that exact action, an authority is used as often as it says, the
log precedes the effect, and the result tells the truth (control plane, store,
grants, clearance); what runs stands on a logged answer and refusals stay
refusals (host, queue); the log keeps what was acknowledged and checkpoints
vouch for what they were made over (audit); an accepted configuration reaches no
real machine, and a call reaches the machine its target names (configuration,
registries, router, adapters); a playbook only reads; a clearance reaches the wire once,
for what it cleared, and only the pinned peer is told (gates, transports);
nothing a redacted record hides comes back (redaction).

## The modules

- **Policy** - the registry's 55 capabilities as sets by attribute, and
  `decision_for` as `DecisionFor`.  Used by every other control-plane module.
- **PolicyEvaluation** - one evaluation over every capability, mode, scope and
  one explicit rule; the properties of the table as a whole.
- **Config** - a raw configuration, when it is accepted, which adapter each
  provider entry gets and what a target resolves to in a mode, as operators.
  **ConfigLoading** is the loader on one file.
- **Adapters** - what each adapter maps, what it sends for a capability, what
  comes back when the fixture refuses a method or lacks a route, and how a
  capability changes the mock.
- **ToolDispatch** - extends Config and Adapters: a process that serves tool calls
  and playbooks.  `Dispatch(req)` is one call of the router: `RefuseCall`,
  `HoldCall` (denied, or an approval or a clearance is asked for), `LoseCall` (the
  audit sink raises before the adapter is called) or `RunCall` (the adapter is
  called; the sink may raise after it).  `Approve` is the operator.  `served`,
  `sent` and `log` are histories; `store`, `mock` and `run` are the code's.  The
  inside of `handle` is left to ControlPlane.
- **Redaction** - `redact_value`, applied to one record several times, as a result
  is: when it is returned, when it is audited, when it is exported.  A record is a
  tree, a function from its places (the paths to them) to kinds that are only what
  redaction tells apart.  The recursion is the function `CallsOn`: what
  `redact_value` is called with at each place follows from the call that made it.
  `Redacted` and `Reported` read its value and its paths off those calls.
- **ControlPlane** - `handle`.  A call is a sequence of actions cut where
  something may happen in between: `Receive` (decision, three events) then
  `Refuse`, or `VerifySignedGrant`, `UseStoredGrant`, `AskOperator`, or
  `RequestClearance`, `ClearanceAnswered`, then `StartExecution`,
  `InvokeProvider`, `FinishExecution`.  `pc` is the position in the call.  Around
  it: `GrantFromResponse` (the operator), `NewControlPlane` (the router),
  `Restart` (only the log and the machines survive, from any `pc`), `Tick`.
  An action that emits may instead raise after any prefix of its events
  (`AuditRaises`).  `store`, `consumed`, `signedUsed` are the code's fields;
  `asked` the approval requests handed back.  `approvals`, `trail`, `executed`,
  `result` are history.  A request's id is the number of its call, a response's
  the request and the operator.  A target, a parameter set and a grant are
  values that only compare; signatures and proofs are booleans.
- **Authorization** - what the owners of the machines are promised, in two steps:
  `Give` adds authorities, `Act` is one effect that is allowed outright or covered
  by an authority given before, of a call that had none yet, and spends no single
  use twice.  `EffectOf` and `Authorities` of ControlPlane are the refinement
  mapping; `ImplementsAuthorization` the claim.
- **ApprovalHost** - extends ControlPlane with the host: its pending requests are
  ControlPlane's `asked`, its state dictionary `states`, its audit events
  `events`.  `Submit` handles one response (`Verdict`, then `Settle`), `Resume`
  calls the tool again unless the request was refused.
- **ApprovalQueue** - the queue file under CLI processes: `Load` (read, check,
  change in memory), `Truncate` and `Write` (`write_text`), `Audit` (after the
  save), `Crash` at any point.  `shared` remembers that two commands overlapped,
  `emptied` that one died with the file truncated and not rewritten.
- **SignedGrantCache** - the cache file under processes: an append reads under the
  lock, lets it go, and takes it again to write a temporary file and replace the
  cache; a look-up reads, then checks with the keys its verifier was built with.
  `Dies` frees the lock, `Edit` is something else writing the file, `Register` an
  operator who trusts or revokes a signer meanwhile.
- **LiveMutation** - clearances become handles (`IssueClearance`, which binds the
  print of the response or of any parameters its caller passes), transports are
  built behind a pin (`BuildTransport`), and a call goes through `CallVerb` (every
  gate; the last looks the request up in the ledger), `Consume` (the ledger adds it),
  `BuildClient`, `Connect` (the expiry again, the handshake), `Send` (the pin of this
  connection, then credentials and body) and `Answer`.  Around it `Tick`, a peer
  that changes, and a restart, which loses handles and ledgers.  `issued` and `sent`
  are histories; `overlapped` remembers whose look-up came between another's
  look-up and addition.
- **LiveRead** - a transport built behind a pin or certificate roots, a read as
  its GETs one by one (`Fetch`), the cache of raw resources, a machine and a peer
  that change meanwhile.  `held` and `window` remember what the machine has said
  since the transport was built and since the read began.
- **AuditLog** - the abstract log: it grows by one event, and a checkpoint vouches
  for all it held.
- **AuditChain** - the JSONL sink, which caches the last hash, and the SQLite sink,
  which selects it before the insert; torn writes, failed inserts, closing and
  opening, checkpoints, and changes from outside, by two processes on either
  backend.  `shared` remembers that two sinks were open at once.  A hash is the sequence of the
  events it covers (SHA-256 taken as collision free).
- **MC...** - the instances TLC checks; each `.cfg` says in a comment what it is.
  **MCTables**, **MCBrokerFiles** and **MCLive** put parts side by side that share
  no state: a behaviour is about one of them and the others stay in one initial
  state, so the number of states is a sum.
- **ControlPlaneProofs**, **ControlPlaneEffectProofs**,
  **ControlPlaneRefinementProofs**, **AuditChainProofs**, **LiveProofs**,
  **BrokerFilesProofs**, **ToolDispatchProofs** (with the configuration's and the
  policy's), **RedactionProofs** - theorems.

A definition called `Name_Slip` is `Name` with a plausible mistake; a mutant in
`PROJECT.json` puts it in place of `Name` to see that a property notices.

## The runs

| Run | Instance | Shows |
| --- | --- | --- |
| `tables` | decisions: every capability plus an unknown one, 5 modes, targets t1, t2 in small scopes, an optional rule; loading: one provider entry of every shape beside the mock, secrets and imports in each part of the file; records: two levels of nesting, mixed lists, postures, 2 passes; serving: 3 configurations, 2 fixtures, 7 requests, 5 playbooks, 3 calls, 2 approvals | modes form a ladder; narrowing a scope only denies; documented dangers are gated in Supervised, Observe and Assisted, hard denials in every mode; no accepted configuration reaches a real machine; redaction leaves no secret and reports exactly what it did; approvals bound effects, calls go where the configuration says, answers agree with the wire, playbooks only observe |
| `control_local` | 6 requests (one action under two parameter sets, one blocked, one hard-denied; with good, foreign and stray signed grants), 2 providers, 1 operator, 3 calls, 1 stored grant per process, 2 processes or planes, clock to 1 | every run is authorised; one-time means once, signed or not; log before effect; results tell the truth; a rule opens no hard denial; all of it implements Authorization |
| `control_act` | 4 requests, one naming the first call's clearance, the tower answers anything and after any time, 2 calls, clock to 2 | a clearance is good for its own call and action; the wait ends; Authorization is implemented |
| `host_lifecycle` | 1 action, 2 operators, 2 answers, 3 calls, a restart | what runs, and what waits in the store, stands on a logged answer |
| `queue` | queue: 2 records, 3 commands, 2 processes; cache: 2 grants and a forged one, 2 keys, 3 commands or registrations, 2 processes, 1 edit | what reads as approved was approved in time, however writes race; while processes take turns decisions stand in the file, unless one dies with it truncated, and the log follows it; appends that do not overlap keep what was appended; a look-up returns verified grants only, even from an edited file; a command that waits for the lock gets on |
| `audit` | both backends, 2 processes, 4 events, 1 torn write, 1 change from outside | a log that verifies has lost nothing; what the chain detects and what only a checkpoint does; undisturbed, the chain implements AuditLog |
| `live` | mutations: 2 callers, a PiKVM and a Redfish transport on one ledger, 3 responses (a redacted print, an early expiry, a forged one) issued with their own print or with any parameters, 2 issuances, 2 certificates, clock to 1, 2 requests, 1 restart; reads: both kinds of transport, pinned or not, 2 peers | no caller sends a clearance twice through a ledger, and two send it only where their look-ups overlapped; what is sent is what was issued, to the pinned peer; calls end; reads tell credentials to trusted peers only and answer what was true |

Why the bounds suffice: a second use of an approval needs two calls and a third
to have asked; two grants (the host's run) tell the first usable from a later
one; a restart needs a second plane; a grant expires one tick after it is given.
A lost update needs two commands after an enqueue, a chain fork two inserts.
An approval that a failed call used up needs the call that asks, the one that
fails and the one that tries again; a playbook that is held needs the same.  A
wrong look-up needs a key registered, an append and the look-up.  A second send
of one clearance needs two calls, on two transports of one ledger, and two that
overlap need two callers (the run reaches such a pair); a restart
empties that ledger.  A handle for other parameters than its response's and one for
the same need two issuances.  A second pass tells whether redaction is stable, and a
stale cached resource needs two reads.  The inputs of `tables` are whole spaces
rather than samples: every shape of a provider entry, every small scope.
All counters (`MaxCalls`, `MaxPlanes`, `MaxGrants`, `MaxClock`, `MaxAnswers`,
`MaxCommands`, `MaxUses`, `MaxEvents`, `MaxTears`, `MaxEdits`, `MaxPasses`,
`MaxTime`, `MaxIssued`, `MaxSent`, `MaxEpoch`) are bounds of the instance and stand in the
guards.  They are the reason deadlock is not checked: when they are used up the
callers of these programs have simply stopped.

Fairness: `FairSpec` has weak fairness of `Step`, one step of the call in flight.
`handle` is straight-line code; its only wait is the client's exchange with the
tower.  `urlopen`'s timeout (`act_http_client.py:91`) is one of each socket operation,
not of the exchange: a tower that is silent is given up, so an answer (perhaps
`tower_unavailable`) arrives, unless the tower goes on sending a little at a time for
ever.  That it does not is the assumption of `FairSpec` about the tower.  How long the
exchange takes is not bounded in the model: `Tick` may happen any number of times
before the answer.  Nothing is assumed of operators, of time between calls, or of
restarts.  The liveness property is `CallsTerminate`.

`LiveCallsEnd` (run `live`) assumes weak fairness of each caller's `CallStep`: a
cleared call is straight-line code; its handshake and exchange end because a silent
peer is given up after the socket's timeout and an answer is read up to a size limit.
`CacheCommandsEnd` (run `queue`) assumes weak fairness of each process's
`CacheStep`: it waits for nothing but `flock`, which the kernel grants when
the holder lets go or dies.  Weak fairness is enough because commands are few
(`MaxUses`): under unbounded competition `flock` promises nothing, and neither
does the model.  Nothing is assumed of operators, deaths, edits, time, peers or
restarts.

### Where the code and its documents part

Five runs expect a violation; each is a finding in `PROJECT.json`.

- `control_eachtime` - a session-scoped grant answers later `ask_each_time` requests.
- `control_expired` - `now` is read before the tower is asked.
- `host_denied` - a denial leaves an earlier grant in the store.
- `queue_lost` - load and save without a lock lose a decision.
- `live_stale` - a Redfish read transport repeats the first power state it read
  for as long as it lives.

The models also have these behaviours, which no run is spent on:

- two operators' one-time answers to one request make two grants and two runs
  (`mcp_sdk/host.py:255`; `docs/mcp-host-compatibility.md:116` speaks of exactly one);
- approving a queued request too late saves it as expired and audits it as
  granted (`approval_transport.py:398-406`; `docs/operator-approval-transport.md:101-102`
  has `approval_expired` for that): `AuditFollowsFile` states this exception;
- a process that dies between `write_text`'s truncation and its write
  (`approval_transport.py:515`) leaves a queue no later command can load, and every
  decision in it is gone: the exception of `DecisionsStandInTurns`;
- the ledger of spent clearances is tested and then added to without a lock
  (`mutation_gate.py:106-110`): two callers whose look-ups overlap both send one
  clearance, the exception of `OncePerLedger`; and a restart, or a transport with a
  ledger of its own, starts an empty one (`pikvm_mutation_transport.py:123`);
- a handle may be issued for parameters its response does not bear: those passed
  are fingerprinted and bound, and compared with nothing (`mutation_gate.py:169-173`).
  A response with a redacted print could not be used otherwise.  `SentAsCleared`
  therefore speaks of the parameters the issuance bound;
- Full Control answers `allow` for the documented dangers that are not denied
  outright (`policy.py`), the exception of `DangerIsGated`;
- only a `tls_verify` of `false` needs `allow_insecure_tls`: 0, null or the text `"false"`
  does not (`config/loader.py:343` tests `is False`).  No adapter a configuration
  reaches reads the setting;
- a look-up trusts the keys its verifier was built with: a signer revoked meanwhile
  still counts for that verifier (`FoundIsVerified` asks for `trusted`, not `registry`);
- two processes on one SQLite log can chain two events to one predecessor, after
  which the log does not verify (`audit_sqlite.py:62`; the review notes of
  `docs/sqlite-audit-hardening.md:109-110` and 142 leave it open).
  `VerifiedMeansComplete` covers it: such a log never passes for a whole one;
- two appends to the signed grant cache at once lose one of them: each reads
  under one lock and writes under another (`approval_store.py:55-56`).
  `AppendedStays` therefore speaks of appends that do not overlap;
- a one-time approval is used up before the adapter is called, so a call that then
  fails has spent it (`ApprovalsBoundEffects` is an upper bound, not an equality);
- an enabled mock entry whose id is not `mock` is rejected, since the mock's adapter
  always bears that id (`ValidEntry` in Config);
- the command line's `call` queues an approval request and never reads the queue
  for a decision (`cli/main.py:60`, 133-134): what `approvals approve` decides
  there, no later `call` runs on;
- after a JSONL write cut short, the next event goes onto the broken line and its
  emit returns (`audit.py:156`); it cannot be read back, and the log does not verify.

## What is proved

TLAPS proves, for every value of the constants that meets the module's
assumptions (`RequestsAssumption`, `ExpiryAssumption`, `BoundsAssumption`,
`WiringAssumption`):

- `TypeCorrect`: `Spec => []TypeOK`, from the inductive `TypeInv`, which adds what
  the updates need (`store` is a sequence of grants that come from possible
  requests, `trail` and `result` are functions on calls, a call in flight has a
  number).  The lemmas `EmitOK`, `AuditRaisesOK`, `EmitThenOK` and
  `EmitAndReturnOK` say once what leaving a step does to log, result and `pc`.
- `OneTimeOnceHolds`: `Spec => []OneTimeOnce`.  The obvious invariant, "a spent
  response is in `consumed`", is false after a restart, which empties `consumed`.
  `OnceInv` says instead that a spent response is in `consumed` **or** its request
  is no longer among `asked`, that the store holds answers to asked requests only,
  that a request is asked by a call that is over (so ids are not asked again), and
  that a grant about to be used is spent and no run stands on it.

- `HardInvariantsHold` and `AuthorisedHolds`: `Spec => []HardInvariants`,
  `Spec => []Authorised`.  The decision is taken in `Receive`, the provider is
  reached many steps later; `pc` is what remembers it.  `HardInv` says that a
  request past `refuse` was not denied and that the store has no grant for a
  blocked capability; `AuthInv` that a request in an approval branch needs one,
  that every stored grant was made from a recorded approval, that the time a
  clearance will be compared with was read after the call began (`ReadInTime`), and
  that what stands before the provider is already `Backed`.
- `AuditBeforeEffectHolds` and `ResultMatchesEffectHolds`:
  `Spec => []AuditBeforeEffect`, `Spec => []ResultMatchesEffect`.  `AuditInv` gives
  each position of `handle` the events the call has behind it (`StepGrowsTrail`: no
  step takes one away); `ResultInv` says at which positions the call has run.

- `SignedOncePerPlaneHolds` and `ClearanceOnceHolds` (`ControlPlaneRefinementProofs`):
  a spent signed grant of this ControlPlane object is in `signedUsed`, and runs of
  earlier objects bear smaller numbers; a clearance under a minted id bears the
  number of its call, and no call runs twice.
- `AuthorizationImplemented`: `Spec => ImplementsAuthorization`.  A step that runs
  nothing is a `Give` (no step takes an approval away) and `InvokeProvider` is an
  `Act`: the invariants of the theorems above say of the call that stands before
  the provider what `Act` demands.  Of a clearance `Act` demands that it was in
  force at some time since the call began (`InForceAt`), which is all the code's
  early reading of the time gives; `control_expired` shows the rest missing.
- `HostIsControlPlane`: `HostSpec => Spec`: a submission is `GrantFromResponse` or leaves
  the control plane alone, so all of the above holds of the host too; and
  `RunsOnLoggedAnswerHolds`: `HostSpec => []RunsOnLoggedAnswer`.
- `CallsDescend` and `CallsTerminateHolds`: `StepsLeft` counts the steps a call has
  left at most, from its place in `handle`; every step lessens it (`StepDescends`), what
  happens around a call leaves it or ends it (`NobodyHoldsUp`), and a call is nowhere
  without a step it can take (`NeverStuck`: among the stored grants one is the first
  usable or none is, and the tower may always answer or time out).  Under `FairSpec` a
  call with at most `k` steps left then comes to have fewer, five times over (`Descends`,
  PTL).  No prover here knows `ENABLED`: `StepsAsGuarded`, that `Step` is enabled where
  its guards hold, is a hypothesis of the theorem, true by what `ENABLED` means; TLC,
  which evaluates `ENABLED`, checks `CallsTerminate` without it.

About the live paths (`LiveProofs`; mutations from `PinAssumption`,
`LedgerAssumption`, `ExpiryAssumption`, `BoundsAssumption` and `PrintAssumption`, which
only says what a print is):

- `LiveTypeCorrect`: `[]LiveTypeOK`.
- `LedgerIsSingleUse`: `[]OncePerLedger`, for any number of callers and transports.
  The look-up and the addition are two steps.  What is inductive is that a request id
  sent, or in a caller's hands past the addition, is in its ledger; that no caller
  holds what it has sent (a caller adds before it calls again); and that where two
  callers hold one request, or one holds what the other sent, the look-up of one
  fell between the two steps of the other.
- `OnlyClearedIsSent`: `[]SentAsCleared`.  Every issuance is from a valid, complete
  response, and a call past its gates is for what an issuance of its process
  bound, whichever parameters were passed to it; once connected it was checked in time.
- `OnlyPinnedIsTold`: `[]OnlyPinnedPeer`.
- `LiveCallEnds`: a caller that is scheduled fairly ends its call, whatever the other
  callers, the clock and the peer do; the argument and the hypothesis are those of
  `CallsTerminateHolds`.  It is `LiveCallsEnd` for one caller: tlapm does not quantify
  over temporal formulas.
- `OnlyTrustedPeersHolds` and `AnswersAreCurrentHolds`: `ReadSpec =>` the two properties
  of reads, for any peers.  `ReadInv` says that a cached resource is what the machine
  said to this transport and that a read in progress still ends with the GET its
  operation is answered by (`ReadsEnd`): a raw one only for the computer system.

About the operator's two files (`BrokerFilesProofs`; no assumption on the constants
but the modules' own):

- `ApprovedInTimeHolds`: `[]ApprovedInTime`, for any number of processes.  A process
  may write back what it read long ago, so the invariant says of every record set a
  process holds what it says of the file.
- `DecisionsStandInTurnsHolds` and `AuditFollowsFileHolds`, both about what the file
  holds.  `QueueTurns` says that while processes take turns at most one is under way;
  that a file that loads is what was last saved, and one that does not is being
  written or was left by a death; that the process under way holds what was last
  saved with its own record changed as `Outcome` allows; that an event's type and
  status are those of a decision that was saved (`EventSaved`), and that a saved decision
  is told, cut short, or about to be told by the process that saved it (`Accounted`).
- `FoundIsVerifiedHolds`: `CacheSpec => []FoundIsVerified`: the answer of a look-up
  and the command it answers stay together until the process begins another.
- `AppendedStaysHolds`: `CacheSpec => []AppendedStays`.  While no two appends
  overlap, what an appending process has read is what the file holds, so its
  rewrite is the file with one grant more.

About the policy (`ToolDispatchProofs`, from `RuleDecisionsAssumption` and
`ScopesAssumption`; any targets, scopes and rules):

- `ModesAreALadderHolds`, `ScopesOnlyNarrowHolds`, `DangerIsGatedHolds`.  A policy
  that is asked stays as it was, so what is left is the table: `DefaultTable` reads it
  by mode, `DefaultsAreALadder` compares its columns, `HardDenied` says that neither a
  mode nor a rule opens a hard denial.

About the audit log (`AuditChainProofs`, from `BackendAssumption`; any number of
processes, events, torn writes and changes from outside):

- `CheckpointVouchesHolds` and `EditsDetectedHolds`: `[]CheckpointVouches` and
  `EditsDetected`.  Nothing is assumed of the file but its type; `ChainTells` says that
  in a file that verifies the hash of record i is the sequence of the first i events,
  by looking at the first record that would be different (`LeastNatural`).
- `CheckpointsLastHolds` and `AuditLogImplemented`: `[]CheckpointsLast` and `IsAuditLog`.
  `TurnInv` says that in an undisturbed log at most one sink is not closed and that
  one about to write holds the hash of the last record; the SQLite sink only
  between its select and its insert.
- `VerifiedMeansCompleteHolds`: `[]VerifiedMeansComplete`.  `KeptInv` needs no chain: a
  file that parses has appended every record written to it, so its events rise and
  hold all that were acknowledged; a write into the middle of a line
  leaves one that never parses again.

About a serving process (`ToolDispatchProofs`; it needs `PlaybooksAreValid`, which
is `PlaybookRegistry`'s own check, and nothing of the configurations, fixtures
and requests):

- `ToldAsConfiguredHolds`: `[]ToldAsConfigured`.  `ServedInv` says that the
  configuration stays an accepted one, that calls are only added at the end
  and that nothing is sent outside a call.  `ResolvedAdapter` then goes from what
  `Accepted` and `Resolves` say to the adapter, and `PerformProperly` from the
  adapter to its sends.
- `AnswerMatchesWireHolds`: `[]AnswerMatchesWire`.  Every call is quiet
  (`QuietCall`: nothing sent) or loud (`LoudCall`: started in the log first);
  `RecordedIsPrefix` says what a fixture that fails lets through.
- `PlaybooksOnlyObserveHolds`: an action property; `RunInv` says that the step
  to run is one of the playbook's, `ObservingChangesNothing` that the mock stands still.
- `AcceptedConfigsRunOfflineHolds`: `[]AcceptedConfigsRunOffline`, of `LoadSpec`.  What
  is accepted satisfies `Accepted`, which looks for secrets and imports in the whole
  file; `ResolvedAdapter` and `ResolvedIsOffline` go from a
  target that resolves to what its entry must say, `EnabledResolves` the other way.
- `ApprovalsBoundEffectsHolds`: `[]ApprovalsBoundEffects`.  The property counts every
  approval and a call may leave one unused, so it is not inductive: `PaidInv` compares
  the calls that told a machine with the approvals used up.  It needs `StoreInv`
  (distinct ids, so that marking one as used adds one to the count) and
  `DecisionIsDefault` (the credential of a request can refuse it but not spare
  it the approval that another request for the same action needs).

About redaction (`RedactionProofs`, from `RecordsAssumption`: a record is a tree;
of any size, depth and mix of lists and mappings, through any number of passes):

- `NoSecretLeftHolds`: `[]NoSecretLeft`, and `ReportIsExactHolds`: `[]ReportIsExact`.
  The run has records of two levels under one key; the theorems speak of every record.
  The prover knows no induction over trees, but a set of naturals has a smallest
  member (`SmallestOf`), so a set of places that holds the root and every place whose
  parent it holds holds them all: `PathInduction`.  From it `CallsOnEquation` (the
  recursive function exists and satisfies its equation) and `CallsFollowPaths`: a place
  is judged by the last name on its path and by the posture of the innermost mapping
  around it, which is how the property says it.  For the second pass,
  `RedactedIsTree`, `PostureLeft` and `CallsLeft`: what is left is a tree with the same
  postures, and `redact_value` is called on it as before; hence `NothingNew`.  The
  inductive invariant `RecordInv` adds that a further pass would report only what the
  first did (`NothingUnreported`): what earlier reports say tells nothing of what
  the next pass finds in the record.

The bounds appear in the theorems only as arbitrary natural numbers.
ControlPlane's `ExpiryAssumption` is that a time is never `None`.  Every safety and
action property of a passing run is stated by a theorem.  Of liveness,
`CallsTerminate` and, caller by caller, `LiveCallsEnd` are proved from the meaning of
`ENABLED`.  `CacheCommandsEnd` is only model-checked: a command that waits for the
lock is let in because the others are bounded in number, an argument by induction
over the bound that PTL, which is propositional, cannot make.

## What is left out, and the plan

Not modelled:

- formatting, HTTP, command-line parsing, prompts, evidence files, schemas, tool
  listing: text and I/O without state of the program;
- audit export and retention, notifiers, risk families, the preflight report and
  artifact metadata: functions from what a model already holds to text;
- the regular expressions of redaction (a string is secret or it is not) and
  the JSON text of a configuration;
- the tower's keys, which only `build_runtime` looks at;
- `EmergencyStopState` and `SessionApprovalGrant`, which exist in `approvals.py`
  but `handle` uses neither; `allow_with_limits` runs like `allow`: the limits are
  only copied into approval requests.

The clearance branch has no check of the blocked capabilities, which is why
`HardInvariants` speaks of operators and signatures.  With
`act_parity_fingerprint` the fingerprint leaves parameters out; the model has the
switch (`ActParity`), no run sets it yet.  `NoSecretLeft` excepts what the code
leaves alone: structural ids and lists named `redactions`.

Next, in this order:

1. A run with `ActParity`, and one of the host over the mobile channel.
2. The SDK adapter's result validation and audit export as operators.
