SPECIFICATION Spec
CONSTANTS
  t1 = t1
  Inputs <- NoForks
  Threads = {t1}
  MaxCommits = 3
  MaxResumes = 1
  MaxLost = 1
  CounterCap = 5
  ConfigBrakes <- RepairBrakes
  MAX_BABYSIT_WAITS = 1
  MAX_PENDING_CI_WAITS = 2
  ExternalPushes = FALSE
  ExternalClose = TRUE
  Settlements <- NeverSettles
INVARIANTS MergedContentWasVerified RepairsAreBounded
CHECK_DEADLOCK FALSE
