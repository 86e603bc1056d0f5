CONSTANTS
  Worker = {w1, w2}
  NoOwner = NoOwner
  Target = {t1}
  NoTarget = NoTarget
  Text = {x}
  Details = {d1, d2}
  Quiet = Quiet
  Cooldown = 2
  MaxChanges = 2
  MaxCuts = 2
SPECIFICATION FairSpec
INVARIANT AlertInv
PROPERTY AlertsReachTargets
CHECK_DEADLOCK FALSE
