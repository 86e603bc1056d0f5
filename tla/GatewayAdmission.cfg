CONSTANTS
  Call = {c1, c2, c3}
  MaxRequest = 2
  Quota = 3
  AllowOverage = FALSE
  Rpm = 2
  RateWindowLength = 1
  Burst = 2
  BurstWindow = 2
  MaxTime = 3
  MaxReports = 1
SYMMETRY Symmetry
SPECIFICATION Spec
INVARIANT GateInv
INVARIANT RateInOrder
PROPERTY ImplementsMeteredAccess
CHECK_DEADLOCK FALSE
