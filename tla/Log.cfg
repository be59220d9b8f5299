SPECIFICATION FairSpec
CONSTANTS
  p1 = p1  p2 = p2  writer = writer  main = main  l1 = l1  l2 = l2  l3 = l3  l4 = l4
  Printers = {p1, p2}
  Writer = writer
  Main = main
  Lines = {l1, l2, l3, l4}
  Muted = {l4}
  kMaxSize_ = 2
  NULL = NULL
INVARIANTS TypeOK WrittenInOrder
PROPERTIES PrintedIsWritten JoinReturnsUnlessLate
CHECK_DEADLOCK FALSE
