\* The button that also prints the receipt.
CONSTANTS
  y0 = y0
  y1 = y1
  s1 = s1
  y2 = y2
  big = big
  small = small
  other = other
  Item = {y0, y1, s1, y2}
  YCodes = {y0, y1, y2}
  Coaching = {y2}
  Fee <- MCFee
  Coupon = {big, small}
  Worth <- MCWorth
  Covers <- MCCovers
  RowNo <- MCRowNo
  CouponNo <- MCCouponNo
  ZmCouponNum <- MCZmCouponNum
  DelayNum <- MCDelayNum
  None = None
  Years = 3
  YearOf <- MCYearOf
  ZmFields = {0, 2}
  AccFields = {0, 1}
  OpeningZhimi = 2
  OpeningRetained = 1
  MaxElsewhere = 2
SPECIFICATION Spec
INVARIANT BooksWhatIsShown
CHECK_DEADLOCK FALSE
