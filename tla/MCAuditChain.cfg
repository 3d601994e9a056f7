\* Two processes on either backend, which come and go; events, writes cut
\* short and changes from outside are bounded, and the process may stop.
SPECIFICATION Spec
CONSTANTS
  p1 = p1
  p2 = p2
  Processes = {p1, p2}
  Backends = {"jsonl", "sqlite"}
  MaxEvents = 4
  MaxTears = 1
  MaxEdits = 1
INVARIANTS VerifiedMeansComplete CheckpointVouches CheckpointsLast
PROPERTIES EditsDetected IsAuditLog
CHECK_DEADLOCK FALSE
