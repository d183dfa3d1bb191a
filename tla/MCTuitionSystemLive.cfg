\* One batch whose events may overlap: two notifications, one resend, late answers.
CONSTANTS
  i1 = i1
  i2 = i2
  c1 = c1
  Surplus = Surplus
  None = None
  Mark = {m1}
  Item = {i1, i2}
  Coupon = {c1}
  Bills <- MCBills
  OpeningRetained = 2
  OpeningZhimi = 1
  MaxRollback = 9
  Event = {e1, e2}
  MaxNotify = 2
  MaxResend = 1
  Shards = 2
  OperatorWaits = FALSE
  KeyOutlives = FALSE
  Client = {t1}
SPECIFICATION FairSpec
PROPERTIES PaymentHandled
CHECK_DEADLOCK FALSE
