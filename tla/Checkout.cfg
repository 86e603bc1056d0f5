CONSTANTS
  Sub = {s1, s2}
  NoSub = NoSub
  Caller = {c1, c2}
  GraceDays = 1
  Period = 1
  MaxTime = 3
  MaxCrashes = 1
SYMMETRY Symmetry
SPECIFICATION CheckoutSpec
INVARIANTS
  CheckoutInv
  AccessIsEarned
  OneOpenSubscription
