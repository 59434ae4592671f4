SPECIFICATION WorktreesSpec
CONSTANTS
  Tasks = {"landing", "repair", "cycle"}
  Variant <- LandingAndRepair
  BranchOf <- FeatureTwiceAndNew
  Synthetic = {"agentops"}
  RemoteBranches = {"feature"}
  MaxAttempts = 1
  MaxIncidents = 2
INVARIANTS WorktreeIsItsOwn OneWorktreePerBranch LeftoversAreReclaimed
CHECK_DEADLOCK FALSE
