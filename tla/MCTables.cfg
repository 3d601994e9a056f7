\* Decisions, configurations, redactions and a serving process; each ends.
SPECIFICATION MCSpec
CONSTANTS
  Targets = {"t1", "t2"}
  ScopeChoices <- MCScopes
  RuleDecisions = {"allow", "ask_each_time"}
  RawFiles <- MCFiles
  Records <- MCRecords
  MaxPasses = 2
  RawConfigs <- MCConfigs
  Fixtures <- MCFixtures
  Requests <- MCRequests
  PolicyModes = {"Full Control"}
  MaxCalls = 3
  MaxGrants = 2
INVARIANTS ModesAreALadder ScopesOnlyNarrow DangerIsGated
  AcceptedConfigsRunOffline NoSecretLeft ReportIsExact
  ApprovalsBoundEffects ToldAsConfigured AnswerMatchesWire
PROPERTY PlaybooksOnlyObserve
CHECK_DEADLOCK FALSE
