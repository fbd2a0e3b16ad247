SPECIFICATION Spec
CONSTANTS
  main = main
  late = late
  Threads = {main}
  FirstThreads = {main}
  Requests <- MCRequests
  StableSnapshots = 2
  MaxSnapshots = 4
  MaxLoads = 1
  Files = {exe}
CHECK_DEADLOCK FALSE
PROPERTIES
  GateReleased
