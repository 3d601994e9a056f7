--------------------------------- MODULE MCLive ---------------------------------
(* The live paths side by side: a behaviour is one of the mutation path, with *)
(* a Redfish and a PiKVM transport that share a ledger, or one of the read    *)
(* path.                                                                      *)
EXTENDS LiveMutation, LiveRead

VARIABLE path

Transport(kind, provider, ledger) ==
    [kind |-> kind, target |-> "box", provider |-> provider, ledger |-> ledger,
     pinned |-> TRUE, system_path |-> TRUE]

MCTransportOf ==
    [bmc |-> Transport("redfish", "bmc", "l1"), kvm |-> Transport("pikvm", "kvm", "l1")]
MCTransports == DOMAIN MCTransportOf

Answered(request, capability, provider, fp, expires) ==
    [request |-> request, capability |-> capability, target |-> "box",
     provider |-> provider, fp |-> fp, expires |-> expires,
     valid |-> TRUE, complete |-> TRUE]

MCResponseOf ==
    [boot |-> Answered("q2", "boot.override", "bmc", RedactedPrint, 1),
     off |-> Answered("q3", "power.force_off", "kvm", NoParams, 2),
     forged |-> [Answered("q4", "power.on", "bmc", NoParams, 2)
                     EXCEPT !.valid = FALSE]]
MCResponses == DOMAIN MCResponseOf
MCAskedTargets == {"Pxe", "Floppy"}

\* The part a behaviour is not about starts in one state only.
MCInit ==
    /\ path \in {"mutate", "read"}
    /\ LiveInit /\ ReadInit
    /\ path = "mutate" =>
          /\ config = [kind |-> "pikvm", pinned |-> TRUE]
          /\ device = "on" /\ peer = PinnedPeer
    /\ path = "read" => cert = Pin
MCNext ==
    /\ \/ path = "mutate" /\ LiveNext /\ UNCHANGED readVars
       \/ path = "read" /\ ReadNext /\ UNCHANGED liveVars
    /\ UNCHANGED path
MCSpec ==
    /\ MCInit
    /\ [][MCNext]_<<path, liveVars, readVars>>
    /\ \A c \in Callers : WF_liveVars(path = "mutate" /\ CallStep(c) /\ UNCHANGED <<path, readVars>>)
===============================================================================
