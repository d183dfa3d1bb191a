\* Three callers, no faults: a WATCH that is lost.
CONSTANTS
  u1 = u1
  u2 = u2
  User = {u1, u2}
  Call = {a, b, c}
  Gone = Gone
  Works <- MCWorks
  SalesPrice = 2
  OnceCount = 2
  SumCount = 1
  OpeningZhimi <- MCOpeningZhimi
  OpeningStock = 2
  LoadsInTime = TRUE
  Confirms = TRUE
  MaxFault = 0
  MaxForget = 0
SPECIFICATION Spec
INVARIANTS UnrefusedIsApplied
CHECK_DEADLOCK FALSE
