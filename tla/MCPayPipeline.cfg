\* Two batches, up to three events under way, two shards; an operator who
\* waits and counters that outlive the notifications.
CONSTANTS
  Mark = {m1, m2}
  Event = {e1, e2, e3}
  None = None
  Shards = 2
  MaxNotify = 2
  MaxResend = 2
  OperatorWaits = TRUE
  KeyOutlives = TRUE
SPECIFICATION FairSpec
INVARIANTS TypeOK OneUnderWay NothingVanishes
PROPERTIES Handled
CHECK_DEADLOCK FALSE
