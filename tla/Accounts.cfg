CONSTANTS Request = {q1, q2}
          Token = {t1, t2, t3, t4}
          NoToken = NoToken
          MaxChanges = 2
          Version = {v1}
SPECIFICATION Spec
SYMMETRY Alike
INVARIANTS SessionInv CatalogInv SoldIsNoDraft OwnersMaySell
CHECK_DEADLOCK FALSE
