-------------------------------- MODULE LiveRead --------------------------------
(***************************************************************************)
(* The live read path: a PiKVM or Redfish read transport built behind a     *)
(* certificate preflight (providers/pikvm_transport.py, redfish_transport), *)
(* reading one machine through the GET-only client                          *)
(* (live_validation/http_read.py).  A Redfish transport walks from the      *)
(* service root to the resource it wants, one GET per resource, and keeps   *)
(* the resources it reads raw; the machine changes meanwhile.               *)
(***************************************************************************)
EXTENDS Naturals, Sequences

CONSTANTS Peers,       \* who may answer at the machine's address
          PinnedPeer,  \* the one whose certificate is pinned
          Vouched,     \* those the system's certificate roots vouch for
          Absent       \* no resource in the cache, no read going on

VARIABLES config,   \* kind of transport, and how its peer is trusted
          device,   \* what the machine's resources say now
          peer,     \* who answers now
          reader,   \* whether the transport exists
          cache,    \* _resource_cache
          reading,  \* the operation being read, and the GETs still to make
          held,     \* what the machine said since the transport was built
          told,     \* peers that were sent credentials
          answer    \* the last operation answered

readVars == <<config, device, peer, reader, cache, reading, held, told, answer>>

DeviceStates == {"on", "off"}
Links == "links"

\* Resources read for the references they hold; the others hold the state.
Resources == {"root", "Systems", "system", "Managers", "manager", "Chassis",
              "chassis", "thermal", "logs", "log", "entries", "api"}
Content(path) ==
    IF path \in {"root", "Systems", "Managers", "Chassis", "chassis", "logs", "log"}
    THEN Links ELSE device

Raw(path) == [path |-> path, raw |-> TRUE]
Redacted(path) == [path |-> path, raw |-> FALSE]

\* The GETs of each Redfish read, the last one giving the answer.
SystemResource == <<Raw("root"), Raw("Systems"), Raw("system")>>
ManagerStatus == <<Raw("root"), Raw("Managers"), Redacted("manager")>>
RedfishReads ==
    [status |-> <<Redacted("root")>> \o ManagerStatus,
     power_state |-> SystemResource,
     boot_status |-> SystemResource,
     hardware_inventory |-> SystemResource,
     sensors |-> <<Raw("root"), Raw("Chassis"), Raw("chassis"), Redacted("thermal")>>,
     event_logs |-> <<Raw("root"), Raw("Managers"), Raw("manager"), Raw("logs"),
                      Raw("log"), Redacted("entries")>>]

\* A PiKVM read is one GET.
PiKVMReads ==
    [op \in {"health", "screen_state", "power_state", "boot_status", "device_info"} |->
        <<Redacted("api")>>]

Reads == IF config.kind = "redfish" THEN RedfishReads ELSE PiKVMReads

\* The parts of the computer system resource.
SystemReads == {"power_state", "boot_status", "hardware_inventory"}

\* Without a pin verify_ssl must be on; with one it makes no difference.
Configs == [kind : {"redfish", "pikvm"}, pinned : BOOLEAN]

ReadInit ==
    /\ config \in Configs
    /\ device \in DeviceStates
    /\ peer \in Peers
    /\ reader = "none"
    /\ cache = [p \in Resources |-> Absent]
    /\ reading = Absent
    /\ held = {}
    /\ told = {}
    /\ answer = Absent

-------------------------------------------------------------------------------
EmptyCache_Kept == cache

\* Each transport starts with an empty cache of its own.
EmptyCache == [p \in Resources |-> Absent]

\* The preflight probe sends no credentials; without a pin there is none, and
\* the certificate roots are asked at each connection.
BuildReader ==
    /\ reader = "none"
    /\ config.pinned => peer = PinnedPeer
    /\ reader' = "ready"
    /\ cache' = EmptyCache
    /\ held' = {device}
    /\ UNCHANGED <<config, device, peer, reading, told, answer>>

\* The operator's session ends, and the transport with it.
DropReader ==
    /\ reader = "ready"
    /\ reading = Absent
    /\ reader' = "none"
    /\ answer' = Absent
    /\ UNCHANGED <<config, device, peer, cache, reading, held, told>>

StartRead(op) ==
    /\ reader = "ready"
    /\ reading = Absent
    /\ reading' = [op |-> op, todo |-> Reads[op], window |-> {device}]
    /\ UNCHANGED <<config, device, peer, reader, cache, held, told, answer>>

\* The next GET is answered from the cache when it is a raw one read before.
ReadsCache(get) == get.raw /\ cache[get.path] # Absent

AcceptsPeer_Preflighted == TRUE

\* The handshake of every connection: the pin, or the certificate roots.
AcceptsPeer == IF config.pinned THEN peer = PinnedPeer ELSE peer \in Vouched

Advance(value) ==
    IF Len(reading.todo) = 1
    THEN /\ answer' = [op |-> reading.op, value |-> value,
                       window |-> reading.window, held |-> held]
         /\ reading' = Absent
    ELSE /\ reading' = [reading EXCEPT !.todo = Tail(@)]
         /\ UNCHANGED answer

\* A GET: from the cache, where raw resources stay for the transport's
\* life, over the wire, or failing and ending the read.
Fetch ==
    /\ reading # Absent
    /\ LET get == Head(reading.todo) IN
       \/ /\ ReadsCache(get)
          /\ Advance(cache[get.path])
          /\ UNCHANGED <<cache, told>>
       \/ /\ ~ReadsCache(get)
          /\ AcceptsPeer
          /\ told' = told \cup {peer}
          /\ cache' = IF get.raw THEN [cache EXCEPT ![get.path] = Content(get.path)]
                                    ELSE cache
          /\ Advance(Content(get.path))
       \/ /\ ~ReadsCache(get)
          /\ told' = IF AcceptsPeer THEN told \cup {peer} ELSE told
          /\ reading' = Absent
          /\ UNCHANGED <<cache, answer>>
    /\ UNCHANGED <<config, device, peer, reader, held>>

\* A mutation, the power button or the operating system changes the machine.
DeviceChanges ==
    /\ device' \in DeviceStates \ {device}
    /\ held' = held \cup {device'}
    /\ reading' = IF reading = Absent THEN Absent
                  ELSE [reading EXCEPT !.window = @ \cup {device'}]
    /\ UNCHANGED <<config, peer, reader, cache, told, answer>>

ReadPeerChanges ==
    /\ peer' \in Peers \ {peer}
    /\ UNCHANGED <<config, device, reader, cache, reading, held, told, answer>>

ReadNext ==
    \/ BuildReader
    \/ DropReader
    \/ \E op \in DOMAIN Reads : StartRead(op)
    \/ Fetch
    \/ DeviceChanges
    \/ ReadPeerChanges

ReadSpec == ReadInit /\ [][ReadNext]_readVars

-------------------------------------------------------------------------------
(* Properties. *)

\* Credentials go only to a peer trusted at that connection: the pinned one, or
\* without a pin one the certificate roots vouch for, even if the peer changed
\* since the preflight (http_read.py _enforce_pin, _build_ssl_context).
OnlyTrustedPeers ==
    told \subseteq (IF config.pinned THEN {PinnedPeer} ELSE Vouched)

\* A read that does not come from the cached computer system answers with
\* something the machine said while the read went on (_read_json, raw=False);
\* and even a cached answer is one the machine gave to this transport: a new
\* one never repeats what an earlier one was told (_resource_cache).
AnswersAreCurrent ==
    answer # Absent =>
        answer.value \in (IF config.kind = "redfish" /\ answer.op \in SystemReads
                          THEN answer.held ELSE answer.window)

\* power_state promises "the system power state": the answer is one that was
\* true while the read went on (redfish_transport.py:204-208).
PowerStateCurrent ==
    answer # Absent /\ answer.op = "power_state" => answer.value \in answer.window
===============================================================================
