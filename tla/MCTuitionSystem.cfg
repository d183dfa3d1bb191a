\* Two batches, two events under way, one client; an operator who waits.
CONSTANTS
  i1 = i1
  i2 = i2
  c1 = c1
  Surplus = Surplus
  None = None
  Mark = {m1, m2}
  Item = {i1, i2}
  Coupon = {c1}
  Bills <- MCBills
  OpeningRetained = 2
  OpeningZhimi = 1
  MaxRollback = 9
  Event = {e1, e2}
  MaxNotify = 2
  MaxResend = 1
  Shards = 1
  OperatorWaits = TRUE
  KeyOutlives = TRUE
  Client = {t1}
SYMMETRY Symmetry
SPECIFICATION Spec
INVARIANTS ExecutionBelongs NothingForFree AccountReconciles
PROPERTIES ServiceAsAssumed PromiseToStudent PipelineAsAssumed
CHECK_DEADLOCK FALSE
