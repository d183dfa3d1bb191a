\* All requests over three items with fees up to 2 and deductions up to 5.
CONSTANTS
  i1 = i1
  i2 = i2
  i3 = i3
  Surplus = Surplus
  Item = {i1, i2, i3}
  MaxFee = 2
  MaxAsked = 5
  Requests <- MCRequests
  ZmCouponNum <- MCZmCouponNum
  DelayNum <- MCDelayNum
SPECIFICATION Spec
INVARIANTS TypeOK DoneIsBill EverySerialHasASubSerial DeductionsAddUp
CHECK_DEADLOCK FALSE
