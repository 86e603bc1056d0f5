CONSTANTS
  Owner = {o1, o2, o3}
  Nobody = Nobody
  Duration = 2
  MaxTime = 6
SYMMETRY Symmetry
SPECIFICATION LeaseSpec
INVARIANTS
  LeaseInv
  ExclusiveCycle
PROPERTY ImplementsExclusiveLease
CHECK_DEADLOCK FALSE
