SPECIFICATION FairSpec
CONSTANTS
  Puts = {r1, r2}
  Tiers = {t1, t2}
  MaxFixes = 1
  MaxActs = 2
  MaxFaults = 2
  MaxEvents = 3
INVARIANTS SwitchIsObeyed TiersAreWhole RunsEndHonestly
PROPERTY TiersReachTheWorker
CHECK_DEADLOCK FALSE
