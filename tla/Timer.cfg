SPECIFICATION MCSpec
CONSTANTS
  t1 = t1  t2 = t2
  Runners = {t1, t2}
  MaxNodes = 4
  Second = 3
  Keys = {0, 1, 2}
  head_ = head_
  NULL = NULL
  max_depth_ = 10
  UintRange = 16
INVARIANTS TypeOK OneOwner WaitingListUsable ListSound
PROPERTIES  DetachedIsRun
CHECK_DEADLOCK FALSE
