SPECIFICATION Spec
CONSTANTS
  Threads = {t1, t2}
  BankCount = 1
  ContextCount = 2
  FrameDepth = 2
  Capacity = 3
  Authored = {2}
  Multiplier = 2
  MaxNest = 3
  MaxInstalls = 1
  Nobody = nobody
SYMMETRY Interchangeable
INVARIANT PlantInv
PROPERTY OldEntriesKeepStorage
CHECK_DEADLOCK FALSE
