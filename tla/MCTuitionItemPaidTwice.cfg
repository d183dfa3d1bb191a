\* Two batches of one item, both waiting; their callbacks come one after the other.
CONSTANTS
  i1 = i1
  i2 = i2
  c1 = c1
  c2 = c2
  Surplus = Surplus
  None = None
  Mark = {m1, m2}
  Item = {i1, i2}
  Coupon = {c1, c2}
  Thread = {t1}
  Bills <- CashBills
  OpeningRetained = 6
  OpeningZhimi = 6
  MaxRollback = 2
  Exclusive = TRUE
SYMMETRY MarkSymmetry
SPECIFICATION Spec
INVARIANTS ItemPaidOnce
CHECK_DEADLOCK FALSE
