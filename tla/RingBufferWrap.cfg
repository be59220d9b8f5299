SPECIFICATION Spec
CONSTANTS
  p1 = p1  p2 = p2  c1 = c1  c2 = c2
  Producers = {p1, p2}
  Consumers = {c1, c2}
  size = 4
  Modulus = 16
  Start = 14
  MaxBatch = 2
  MaxUnits = 2
  Garbage = Garbage
INVARIANT SlotsExclusive
SYMMETRY ThreadSymmetry
