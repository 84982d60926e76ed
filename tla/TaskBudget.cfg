SPECIFICATION Spec
CONSTANTS
  Root = root
  Children = {c1, c2}
  Calls = {k1, k2, k3}
  Limits = {4, 11}
  Amounts = {1, 2}
  Usages = {0, 1, 3}
INVARIANTS TypeOK AccountWithinLimit ParentReserveKept ReservedIsHeld ChargedExactlyOnce NoOverspend
PROPERTY ReservationFinal
CHECK_DEADLOCK FALSE
SYMMETRY Symmetry
