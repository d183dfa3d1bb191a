\* One batch of each bill at a time, callbacks of one batch never overlap.
CONSTANTS
  i1 = i1
  i2 = i2
  c1 = c1
  c2 = c2
  Surplus = Surplus
  None = None
  Mark = {m1, m2}
  Item = {i1, i2}
  Coupon = {c1, c2}
  Thread = {t1, t2}
  Bills <- MCBills
  OpeningRetained = 3
  OpeningZhimi = 3
  MaxRollback = 2
  Exclusive = TRUE
SYMMETRY MarkSymmetry
SPECIFICATION Spec
INVARIANTS TypeOK PaidIsBacked RetainedBookedOnce OncePerAttempt
PROPERTIES FinalIsFinal KeepsPromise
CHECK_DEADLOCK FALSE
