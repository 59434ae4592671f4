SPECIFICATION Spec
CONSTANTS
  Calls = {"a", "b", "p", "u"}
  OfProject = {"a", "b"}
  ByTier = {"a", "b", "u"}
  Tier <- Tiers
  MaxCalls = 1
  Window = 2
  MaxAttempts = 2
  RateLimitDelay = 1
  Horizon = 3
  MaxIncidents = 1
INVARIANTS WindowIsKept WaitIsExact ExhaustedMeansAll
CHECK_DEADLOCK FALSE
