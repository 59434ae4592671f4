SPECIFICATION FairSpec
CONSTANTS
  Inputs <- Passed
  Threads = {}
  MaxCommits = 2
  MaxResumes = 1
  MaxLost = 0
  CounterCap = 3
  ConfigBrakes <- SmallBrakes
  MAX_BABYSIT_WAITS = 1
  MAX_PENDING_CI_WAITS = 2
  ExternalPushes = TRUE
  ExternalClose = FALSE
  Settlements <- OpenSettlements
INVARIANTS MergedHeadIsValidated WorkspaceOutlivesUse
PROPERTIES KeepsLandingPromise SignalsAreAnswered SettledRunEnds
CHECK_DEADLOCK FALSE
