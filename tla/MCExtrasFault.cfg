SPECIFICATION QueueSpec
CONSTANTS
  pa = pa
  pb = pb
  MaxRequests = 4
  Provider <- MCProvider
  Distance <- MCDistance
  ConeOn = TRUE
  SpawnOn = TRUE
  Capacity = 3
  ParkCap = 3
  ScanMax = 2
  CandMax = 2
  Release = 1
  Budget = 1
  SpawnMax = 3
  Near = 2
  Faults = TRUE

PROPERTY WholeQueueOnFault
