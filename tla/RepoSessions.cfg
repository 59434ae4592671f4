SPECIFICATION FairSpec
CONSTANTS
  p1 = p1
  p2 = p2
  r1 = r1
  r2 = r2
  Sweeper = sweeper
  None = None
  Callers = {p1, p2}
  Requests = {r1, r2}
  NSlots = 2
  Asks <- SameOrOther
  NRepos = 2
  MaxStarts = 2
  MaxAccidents = 1
INVARIANT SessionIsWhole
PROPERTIES SweepSparesTheLiving LeftoversGo
CHECK_DEADLOCK FALSE
