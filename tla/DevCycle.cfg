SPECIFICATION FairSpec
CONSTANTS
  Inputs <- DevCycleInputs
  MaxResumes = 2
  CounterCap = 20
  ConfigBrakes <- SmallBrakes
  MAX_VERDICT_CALLS = 2
  ActivitiesFail = TRUE
  ExternalPushes = TRUE
INVARIANTS OpenedPrPassedTheGates ReturnLeavesNothingBehind OneWorktreeOwner
PROPERTY RunEndsOrWaits
CHECK_DEADLOCK FALSE
