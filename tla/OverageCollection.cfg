CONSTANTS
  Worker = {w1, w2}
  NoOwner = NoOwner
  Webhook = {h1}
  Periods = 1
  MaxUsage = 1
  Quota = 0
  UnitRequests = 2
  MaxCuts = 1
SPECIFICATION FairSpec
INVARIANTS
  OverageInv
  RecordedAsCharged
PROPERTIES
  ImplementsPeriodBilling
  PeriodsAreCollected
CHECK_DEADLOCK FALSE
