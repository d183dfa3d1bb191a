\* Two callers with any work, two faults, two keys that vanish and are loaded in time.
CONSTANTS
  u1 = u1
  u2 = u2
  User = {u1, u2}
  Call = {a, b}
  Gone = Gone
  Works <- MCWorks
  SalesPrice = 2
  OnceCount = 2
  SumCount = 1
  OpeningZhimi <- MCOpeningZhimi
  OpeningStock = 2
  LoadsInTime = TRUE
  Confirms = TRUE
  MaxFault = 2
  MaxForget = 2
SPECIFICATION FairSpec
INVARIANTS TypeOK SnapshotHolds NeverOverdrawn OrderFollowsExchange BookedIsApplied CopyLagsBehind EffectsAddUp
PROPERTIES KeepsPromise CatchesUp
CHECK_DEADLOCK FALSE
