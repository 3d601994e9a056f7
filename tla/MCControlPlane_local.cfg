\* The local terminal channel: one-time and session grants of an operator, signed
\* grants, two providers.  Calls, restarts, grants and time are bounded.
SPECIFICATION Spec
CONSTANTS
  mock = mock
  pikvm = pikvm
  alice = alice
  bob = bob
  key = key
  stray = stray
  g1 = g1
  g2 = g2
  g3 = g3
  x1 = x1
  NoGrant = NoGrant
  NoId = NoId
  Requests <- LocalRequests
  SignedGrants <- SignedSet
  Providers = {mock, pikvm}
  RealHardware = {pikvm}
  Operators = {alice}
  TrustedSigners = {key}
  Tower = tower
  Pol <- MCPol
  AuthChannel = "local_terminal"
  ClearanceClient = FALSE
  ClearanceVerifier = FALSE
  GrantVerifier = TRUE
  ActParity = FALSE
  ApprovalTtl = 1
  MaxCalls = 3
  MaxPlanes = 2
  MaxGrants = 1
  MaxClock = 1
INVARIANTS TypeOK Authorised OneTimeOnce SignedOncePerPlane AuditBeforeEffect ResultMatchesEffect HardInvariants
PROPERTY ImplementsAuthorization
CHECK_DEADLOCK FALSE
