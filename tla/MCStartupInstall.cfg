SPECIFICATION Spec
CONSTANTS
  main = main
  late = late
  Threads = {main, late}
  FirstThreads = {main}
  Requests <- MCRequests
  StableSnapshots = 2
  MaxSnapshots = 4
  MaxLoads = 2
  Files = {exe}
CHECK_DEADLOCK FALSE
INVARIANTS
  StartupInv
  StatusIsHonest
  ScaledByWholeInstall
PROPERTIES
  WritesAlone
  WorkerEnds
