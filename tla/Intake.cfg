SPECIFICATION IntakeFairSpec
CONSTANTS
  Filers = {f1, f2}
  Requests = {r1, r2}
  MaxIssues = 3
  MaxEvents = 2
  MaxDeliveries = 2
INVARIANTS FindingFiledOnce OneOwner
PROPERTIES FindingGetsFiled LandingIsInvited
CHECK_DEADLOCK FALSE
