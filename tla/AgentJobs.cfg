SPECIFICATION FairSpec
CONSTANTS
  NCalls = 2
  Coordinates <- OwnOrShared
  Workflows <- FallbackOrTwoCalls
  MaxAttempts = 2
  MaxIncidents = 1
INVARIANTS ResultIsOfItsCoordinates FailuresAreFresh NoAgentIsForgotten
PROPERTY CallsEnd
CHECK_DEADLOCK FALSE
