SPECIFICATION Spec
CONSTANTS
  t1 = t1
  t2 = t2
  Threads <- MCThreads
  Hash <- MCHash
  Wrappers = {10, 11}
  Entities = {20, 21}
  Capacity = 2
  Probes = 2
  Retries = 2
  MaxToken = 5
  BareTokens = 5
  BareOperations = {"insert", "remove", "take"}
  LockedOperations = {"find_entity", "commit", "remove", "take", "find_wrapper"}
SYMMETRY MCSymmetry
INVARIANTS
  TypeOK
  SlotExclusive
  ReusableIsClear
  PublishedReachable
  LookupsSound
  OwnersAgree
PROPERTIES
  PublishedFrozen
