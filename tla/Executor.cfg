SPECIFICATION FairSpec
CONSTANTS
  w1 = w1  w2 = w2  p1 = p1  p2 = p2  main = main  x1 = x1  x2 = x2  x3 = x3
  Workers = {w1, w2}
  Posters = {p1, p2, main}
  Main = main
  Tasks = {x1, x2, x3}
  kMaxSize_ = 1
  NULL = NULL
INVARIANTS TypeOK PostersServed NothingLeaked
PROPERTIES ImplementsPool QueuedIsRun PostTaskReturns StopReturnsUnlessLate
CHECK_DEADLOCK FALSE
