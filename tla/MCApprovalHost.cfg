\* A host over the local channel: two operators answer, calls are resumed.
SPECIFICATION HostSpec
CONSTANTS
  mock = mock
  pikvm = pikvm
  alice = alice
  bob = bob
  key = key
  stray = stray
  g1 = g1
  g2 = g2
  g3 = g3
  x1 = x1
  NoGrant = NoGrant
  NoId = NoId
  Requests <- HostRequests
  SignedGrants <- NoGrants
  Providers = {mock}
  RealHardware = {}
  Operators = {alice, bob}
  TrustedSigners = {}
  Tower = tower
  Pol <- MCPol
  AuthChannel = "local_terminal"
  ClearanceClient = FALSE
  ClearanceVerifier = FALSE
  GrantVerifier = FALSE
  ActParity = FALSE
  ApprovalTtl = 1
  MaxCalls = 3
  MaxPlanes = 2
  MaxGrants = 2
  MaxClock = 1
  MaxAnswers = 2
INVARIANT RunsOnLoggedAnswer
CHECK_DEADLOCK FALSE
