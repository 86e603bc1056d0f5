CONSTANTS
  Webhook = {w1}
  Reconciler = {r}
  Periods = 2
  MaxBacklog = 2
  MaxFaults = 1
SPECIFICATION FairSpec
INVARIANT SyncInv
PROPERTY ReconciliationRepairs
CHECK_DEADLOCK FALSE
