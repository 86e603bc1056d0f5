CONSTANTS
  Worker = {w1}
  NoOwner = NoOwner
  Target = {t1}
  NoTarget = NoTarget
  Text = {x}
  Details = {d1, d2}
  Quiet = Quiet
  Cooldown = 2
  MaxChanges = 1
  MaxCuts = 0
SPECIFICATION Spec
PROPERTY UnchangedAlertsWait
CHECK_DEADLOCK FALSE
