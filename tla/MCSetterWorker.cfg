SPECIFICATION FairSpec
CONSTANTS
  c1 = c1
  c2 = c2
  Callers = {c1, c2}
  MaxGeneration = 3
  MaxCalls = 1
  Attempts = 2
  StockNear = 0
  EngineFars = {3, 4, 9}
  Multiplier = 2
  FarLimit = 8
INVARIANTS WorkerInv DisableDrains RestoreGivesBack
PROPERTIES GenerationsAdvance WaitersAnswered
