\* Two processes at once: a decision is overwritten.
SPECIFICATION Spec
CONSTANTS
  r1 = r1
  r2 = r2
  agent = agent
  operator = operator
  Ids = {r1, r2}
  Procs = {agent, operator}
  Ttl = 1
  MaxClock = 2
  MaxCommands = 3
PROPERTY DecisionsStand
CHECK_DEADLOCK FALSE
