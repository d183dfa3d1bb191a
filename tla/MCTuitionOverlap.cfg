\* Callbacks of one batch may overlap (a resend while the first one runs).
CONSTANTS
  i1 = i1
  i2 = i2
  c1 = c1
  c2 = c2
  Surplus = Surplus
  None = None
  Mark = {m1, m2}
  Item = {i1, i2}
  Coupon = {c1, c2}
  Thread = {t1, t2}
  Bills <- MCBills
  OpeningRetained = 3
  OpeningZhimi = 3
  MaxRollback = 2
  Exclusive = FALSE
SPECIFICATION FairSpec
INVARIANTS SettledIsPaid RetainedConserved ZhimiConserved
PROPERTIES ExecutionsEnd
CHECK_DEADLOCK FALSE
