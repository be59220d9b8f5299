SPECIFICATION QueueSpec
CONSTANTS
  t1 = t1  t2 = t2  t3 = t3  t4 = t4
  x1 = x1  x2 = x2  x3 = x3  x4 = x4
  Threads = {t1, t2, t3, t4}
  Items = {x1, x2, x3, x4}
  Clearers = {t1}
  kMaxSize_ = 2
  NULL = NULL
SYMMETRY QueueSymmetry
INVARIANTS PoppersServed OneOwner
