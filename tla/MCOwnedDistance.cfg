SPECIFICATION Spec
CONSTANTS
  t1 = t1
  t2 = t2
  w1 = w1
  w2 = w2
  e1 = e1
  e2 = e2
  Threads = {t1, t2}
  Wrappers = {w1, w2}
  Entities = {e1, e2}
  Authored = {0, 1, 4}
  Foreign = {1, 2}
  Multiplier = 2
  Coverage = 3
  Nobody = Nobody
  Closer = Closer
SYMMETRY MCSymmetry
INVARIANTS DistanceInv CleanShutdown
PROPERTIES ExtendedOnce
