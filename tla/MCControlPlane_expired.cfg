\* The mobile channel: every gated action is cleared by the tower.
SPECIFICATION Spec
CONSTANTS
  mock = mock
  pikvm = pikvm
  alice = alice
  bob = bob
  key = key
  stray = stray
  g1 = g1
  g2 = g2
  g3 = g3
  x1 = x1
  NoGrant = NoGrant
  NoId = NoId
  Requests <- ActRequests
  SignedGrants <- NoGrants
  Providers = {mock}
  RealHardware = {}
  Operators = {}
  TrustedSigners = {}
  Tower = tower
  Pol <- MCPol
  AuthChannel = "mobile_signed"
  ClearanceClient = TRUE
  ClearanceVerifier = TRUE
  GrantVerifier = FALSE
  ActParity = FALSE
  ApprovalTtl = 1
  MaxCalls = 2
  MaxPlanes = 1
  MaxGrants = 0
  MaxClock = 2
INVARIANT NoExpiredClearance
CHECK_DEADLOCK FALSE
