CONSTANTS
  Webhook = {w1}
  Reconciler = {r}
  Periods = 1
  MaxBacklog = 2
  MaxFaults = 0
SPECIFICATION FairSpec
PROPERTY CancellationStays
CHECK_DEADLOCK FALSE
