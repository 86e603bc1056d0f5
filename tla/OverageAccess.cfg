CONSTANTS
  Worker = {w1, w2}
  NoOwner = NoOwner
  Webhook = {h1}
  Periods = 1
  MaxUsage = 1
  Quota = 0
  UnitRequests = 2
  MaxCuts = 1
SPECIFICATION Spec
PROPERTY OverageLeavesAccess
CHECK_DEADLOCK FALSE
