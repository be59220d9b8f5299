SPECIFICATION Spec
CONSTANTS
  t1 = t1  t2 = t2  t3 = t3
  Threads = {t1, t2, t3}
  FewThreads = {t1, t2}
  Modulus = 7
  Values = {1, 6}
  MaxHeld = 2
  MaxBuffer = 2
  NULL = NULL
INVARIANTS TypeOK ReferencesCounted LockExclusive
 
CHECK_DEADLOCK FALSE
