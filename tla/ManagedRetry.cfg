CONSTANTS
  Worker = {w1, w2}
  Webhook = {h1}
  Reconciler = {r1}
  NoOwner = NoOwner
  Delays = 1
  MaxCuts = 1
SPECIFICATION FairSpec
INVARIANT RetryInv
PROPERTIES
  RetriesRunOut
  RecoveryIsClean
CHECK_DEADLOCK FALSE
