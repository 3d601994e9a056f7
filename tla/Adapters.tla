-------------------------------- MODULE Adapters --------------------------------
(***************************************************************************)
(* The provider adapters (providers/base.py, mock.py, pikvm.py,            *)
(* redfish.py) behind execute_authorized: which capabilities each maps,    *)
(* what it sends to its transport for one, and how it comes back.  The     *)
(* transports are FakeTransports: a fixture is the methods it allows and   *)
(* the resources it has no usable route for.                               *)
(***************************************************************************)
EXTENDS Policy, Sequences, FiniteSetsExt

Get(resource)   == [method |-> "GET", resource |-> resource]
Post(resource)  == [method |-> "POST", resource |-> resource]
Patch(resource) == [method |-> "PATCH", resource |-> resource]
\* MockProvider.requests
Request(cap)    == [method |-> "request", resource |-> cap]

-----------------------------------------------------------------------------
\* PIKVM_OBSERVE_CAPABILITIES, PIKVM_ACTUATION_CAPABILITIES
PiKVMCaps ==
  {"observe.status", "observe.screen", "observe.screenshot", "observe.power_state",
   "observe.hardware_inventory", "observe.event_logs", "observe.boot_status",
   "power.on", "power.force_off", "power.power_cycle", "power.reset",
   "input.keyboard_type", "input.mouse_move", "input.mouse_click",
   "media.mount_approved_iso"}

\* PiKVMObserveClient: the reads through FakePiKVMObserveTransport, then the
\* posts.  A screenshot is read in two steps.
PiKVMReads(cap) ==
  CASE cap = "observe.status"             -> <<Get("health")>>
    [] cap = "observe.screen"             -> <<Get("screen")>>
    [] cap = "observe.screenshot"         -> <<Get("screen"), Get("screenshot")>>
    [] cap = "observe.power_state"        -> <<Get("power")>>
    [] cap = "observe.hardware_inventory" -> <<Get("inventory")>>
    [] cap = "observe.event_logs"         -> <<Get("events")>>
    [] cap = "observe.boot_status"        -> <<Get("boot")>>
PiKVMPosts(cap) ==
  CASE cap = "power.on"                 -> <<Post("atx/on")>>
    [] cap = "power.force_off"          -> <<Post("atx/off")>>
    [] cap = "power.power_cycle"        -> <<Post("atx/cycle")>>
    [] cap = "power.reset"              -> <<Post("atx/reset")>>
    [] cap = "input.keyboard_type"      -> <<Post("hid/type")>>
    [] cap = "input.mouse_move"         -> <<Post("hid/move")>>
    [] cap = "input.mouse_click"        -> <<Post("hid/click")>>
    [] cap = "media.mount_approved_iso" -> <<Post("msd/mount")>>

\* PiKVMObserveProvider.execute_authorized, its branches
PiKVMSends(cap) == IF cap \in ObserveCaps THEN PiKVMReads(cap) ELSE PiKVMPosts(cap)

\* PiKVMScreenshotCalibration rejects a screen of one pixel before anything is
\* sent; "tiny" are parameters that give one.
Calibrates(cap, params) ==
  cap \in {"input.mouse_move", "input.mouse_click"} => params # "tiny"

-----------------------------------------------------------------------------
\* REDFISH_OBSERVE_CAPABILITIES, _REDFISH_RESET_TYPES and the rest
RedfishResets ==
  {"power.on", "power.force_off", "power.graceful_shutdown",
   "power.graceful_restart", "power.force_restart", "power.power_cycle",
   "power.nmi"}
RedfishCaps ==
  {"observe.status", "observe.power_state", "observe.hardware_inventory",
   "observe.sensors", "observe.event_logs", "observe.boot_status"}
  \cup RedfishResets \cup {"boot.override", "bmc.reset"}

RedfishSends_SetsToRead(cap) ==
  CASE cap = "observe.status" -> <<Get("root"), Get("manager")>>
    [] cap \in {"observe.power_state", "observe.hardware_inventory"} -> <<Get("system")>>
    [] cap = "observe.sensors"    -> <<Get("sensors")>>
    [] cap = "observe.event_logs" -> <<Get("log")>>
    [] cap \in RedfishResets      -> <<Post("system/reset")>>
    [] cap \in {"observe.boot_status", "boot.override"} -> <<Patch("system")>>
    [] cap = "bmc.reset"          -> <<Post("manager/reset")>>
\* RedfishObserveClient and RedfishObserveProvider.execute_authorized: power
\* state, inventory and boot status are read from one system resource.
RedfishSends(cap) ==
  CASE cap = "observe.status" -> <<Get("root"), Get("manager")>>
    [] cap \in {"observe.power_state", "observe.hardware_inventory",
                "observe.boot_status"} -> <<Get("system")>>
    [] cap = "observe.sensors"    -> <<Get("sensors")>>
    [] cap = "observe.event_logs" -> <<Get("log")>>
    [] cap \in RedfishResets      -> <<Post("system/reset")>>
    [] cap = "boot.override"      -> <<Patch("system")>>
    [] cap = "bmc.reset"          -> <<Post("manager/reset")>>

-----------------------------------------------------------------------------
\* Provider.validate_authorized and the supported_capabilities of each kind
Supports(kind, cap) ==
  CASE kind = "mock"    -> cap \in KnownCaps
    [] kind = "pikvm"   -> cap \in PiKVMCaps
    [] kind = "redfish" -> cap \in RedfishCaps

SendsOf(kind, cap) == IF kind = "pikvm" THEN PiKVMSends(cap) ELSE RedfishSends(cap)

\* FakeTransport.request: a method that is not allowed is refused before the
\* call is recorded, a missing route after it.
Refuses(fixture, send) == send.method \notin fixture.methods
Fails(fixture, send) == Refuses(fixture, send) \/ send.resource \in fixture.missing
Failing(fixture, sends) == {i \in DOMAIN sends : Fails(fixture, sends[i])}

\* The calls the transport records: everything up to the first that fails.
Recorded(fixture, sends) ==
  IF Failing(fixture, sends) = {} THEN sends
  ELSE LET first == Min(Failing(fixture, sends)) IN
       SubSeq(sends, 1, IF Refuses(fixture, sends[first]) THEN first - 1 ELSE first)

\* A failed send becomes a ProviderError, and that a result (errors.py); only
\* RedfishObserveClient._get lets the TransportError go on to the caller.
Failed(kind, send) == IF kind = "redfish" /\ send.method = "GET" THEN "raises" ELSE "error"
SendOutcome(kind, fixture, sends) ==
  IF Failing(fixture, sends) = {} THEN "ok"
  ELSE Failed(kind, sends[Min(Failing(fixture, sends))])

Performed(sends, outcome) == [sends |-> sends, outcome |-> outcome]
\* execute_authorized: what the adapter's transport records, or the request the
\* mock keeps, and how the call comes back.
Perform(kind, fixture, cap, params) ==
  CASE ~Supports(kind, cap) -> Performed(<<>>, "error")
    [] Supports(kind, cap) /\ kind = "mock" -> Performed(<<Request(cap)>>, "ok")
    [] Supports(kind, cap) /\ kind = "pikvm" /\ ~Calibrates(cap, params) ->
         Performed(<<>>, "raises")
    [] OTHER -> Performed(Recorded(fixture, SendsOf(kind, cap)),
                          SendOutcome(kind, fixture, SendsOf(kind, cap)))

-----------------------------------------------------------------------------
\* MockProviderState, as far as a capability changes it: power, medium, boot
\* override, and how many inputs and simulated events it has recorded.
MockFresh == [power |-> "off", media |-> None, boot |-> None, inputs |-> 0, events |-> 0]

SilentCaps ==
  ObserveCaps \cup SafeSessionCaps \cup HardDenyCapabilities \cup
  {"power.on", "power.reset", "media.eject", "boot.enter_bios",
   "storage.view_disk_layout", "network.read_config"}
InputCaps ==
  {"input.mouse_move", "input.mouse_click", "input.keyboard_type",
   "input.keyboard_key", "input.keyboard_shortcut"}

\* MockProvider._simulate; power.reset is accepted and changes nothing.
Simulate(mock, cap) ==
  [power |-> CASE cap \in {"power.graceful_shutdown", "power.force_off"} -> "off"
               [] cap \in {"power.on", "power.graceful_restart",
                           "power.force_restart", "power.power_cycle"} -> "on"
               [] OTHER -> mock.power,
   media |-> CASE cap \in {"media.mount_approved_iso", "media.mount_arbitrary_iso"} -> "iso"
               [] cap = "media.eject" -> None
               [] OTHER -> mock.media,
   boot   |-> IF cap = "boot.override" THEN "override" ELSE mock.boot,
   inputs |-> IF cap \in InputCaps THEN mock.inputs + 1 ELSE mock.inputs,
   events |-> IF cap \in SilentCaps \cup InputCaps THEN mock.events ELSE mock.events + 1]
=============================================================================
