SPECIFICATION Spec
CONSTANTS
  t1 = t1  t2 = t2
  Runners = {t1, t2}
  MaxNodes = 3
  Second = 4
  Keys = {0, 1, 2, 3}
  head_ = head_
  NULL = NULL
  max_depth_ = 10
  UintRange = 16
INVARIANT OnTime
CHECK_DEADLOCK FALSE
