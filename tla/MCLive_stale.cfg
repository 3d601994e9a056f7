SPECIFICATION MCSpec
CONSTANTS
  Callers = {c1, c2}
  Transports <- MCTransports
  TransportOf <- MCTransportOf
  Ledgers = {"l1"}
  Responses <- MCResponses
  ResponseOf <- MCResponseOf
  AskedTargets <- MCAskedTargets
  NotAHandle = NotAHandle
  Certs = {"pinned", "other"}
  Pin = "pinned"
  MaxTime = 1
  MaxIssued = 2
  MaxSent = 2
  MaxEpoch = 1
  Peers = {"bmc", "twin"}
  PinnedPeer = "bmc"
  Vouched = {"twin"}
  Absent = Absent
INVARIANT PowerStateCurrent
CHECK_DEADLOCK FALSE
