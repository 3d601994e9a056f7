\* Two processes, each of which may die; the commands issued are bounded.
SPECIFICATION MCSpec
CONSTANTS
  r1 = r1
  r2 = r2
  agent = agent
  operator = operator
  broker = broker
  g1 = g1
  g2 = g2
  Ids = {r1, r2}
  Procs = {agent, operator}
  Ttl = 1
  MaxClock = 2
  MaxCommands = 3
  Brokers = {operator, broker}
  Grants = {g1, g2, forged}
  forged = forged
  GrantOf <- MCGrantOf
  Keys = {"prod", "dev"}
  AllowDevelopment = FALSE
  NoOne = NoOne
  MaxUses = 3
INVARIANTS ApprovedInTime AuditFollowsFile AppendedStays FoundIsVerified
PROPERTIES DecisionsStandInTurns CacheCommandsEnd
CHECK_DEADLOCK FALSE
