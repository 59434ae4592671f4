SPECIFICATION ChatSpec
CONSTANTS
  MAX_TURN_CALLS = 2
  CONTINUE_AS_NEW_AFTER = 4
  MaximumAttempts = 2
  MaxInputs = 4
  MaxIncidents = 2
INVARIANTS OnlyApprovedRuns NamesAreFresh OpenProposalIsShown
CHECK_DEADLOCK FALSE
