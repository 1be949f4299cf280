SPECIFICATION Spec
CONSTANTS
  none = none
  Local = {c1, c2}
  Payers = {p1, p2}
  Sources = {x1, x2}
  Debits = {d1, d2, d3}
  Sessions = {s1, s2}
SYMMETRY Symmetry
CHECK_DEADLOCK FALSE
INVARIANTS
  RowOwedByItsPayer
  RetryChargesItsPayer
