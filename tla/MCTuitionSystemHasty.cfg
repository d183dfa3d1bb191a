\* An operator who resends a bad payment before its event has been handled.
CONSTANTS
  i1 = i1
  i2 = i2
  c1 = c1
  Surplus = Surplus
  None = None
  Mark = {m1}
  Item = {i1, i2}
  Coupon = {c1}
  Bills <- MCBills
  OpeningRetained = 2
  OpeningZhimi = 1
  MaxRollback = 9
  Event = {e1, e2}
  MaxNotify = 1
  MaxResend = 2
  Shards = 2
  OperatorWaits = FALSE
  KeyOutlives = TRUE
  Client = {t1}
SPECIFICATION Spec
PROPERTIES FinalStays
CHECK_DEADLOCK FALSE
