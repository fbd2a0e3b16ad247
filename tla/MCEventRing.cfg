SPECIFICATION Spec
CONSTANTS
  p1 = p1
  p2 = p2
  c1 = c1
  c2 = c2
  Producers = {p1, p2}
  Consumers = {c1}
  Capacity = 2
  CasRetries = 2
  DrainLimit = 2
  Wrap = 16
  Start = 14
  MaxEmits = 4
INVARIANTS
  RingInv
PROPERTIES
  EmitNeverWaits
  IsQueue
