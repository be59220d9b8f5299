SPECIFICATION FairSpec
CONSTANTS
  w1 = w1  w2 = w2  main = main  x1 = x1  x2 = x2
  Workers = {w1, w2}
  Posters = {main}
  Main = main
  Tasks = {x1, x2}
  kMaxSize_ = 1
  NULL = NULL
PROPERTY StopReturns
CHECK_DEADLOCK FALSE
