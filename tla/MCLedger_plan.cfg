CONSTANTS
  Bills = {b1}
  Payments = {p1, p2}
  Splits = {s1, s2}
  Diners = {d1, d2}
  Requests = {r1}
  MaxVes = 2
  None = None
SPECIFICATION Spec
SYMMETRY Symmetry
CHECK_DEADLOCK FALSE
INVARIANTS
  LedgerAgrees ShareAgrees
PROPERTIES
  InFlightKeepsItsPlan ImplementsAccount
