\* The local terminal channel: operators, one-time and session grants.
SPECIFICATION Spec
CONSTANTS
  mock = mock
  pikvm = pikvm
  alice = alice
  bob = bob
  key = key
  stray = stray
  g1 = g1
  g2 = g2
  g3 = g3
  x1 = x1
  NoGrant = NoGrant
  NoId = NoId
  Requests <- LocalRequests
  SignedGrants <- SignedSet
  Providers = {mock, pikvm}
  RealHardware = {pikvm}
  Operators = {alice}
  TrustedSigners = {}
  Tower = tower
  Pol <- MCPol
  AuthChannel = "local_terminal"
  ClearanceClient = FALSE
  ClearanceVerifier = FALSE
  GrantVerifier = FALSE
  ActParity = FALSE
  ApprovalTtl = 1
  MaxCalls = 3
  MaxPlanes = 2
  MaxGrants = 1
  MaxClock = 2
INVARIANT EachTimeApproved
CHECK_DEADLOCK FALSE
