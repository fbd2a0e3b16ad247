SPECIFICATION SourceSpec
CONSTANTS
  t1 = t1
  t2 = t2
  Scanners = {t1, t2}
  SourceBankCount = 2
  StockCapacity = 1
  SourceCapacity = 2
  MaxScans = 3
  MaxRuntimes = 1
  Unleased = unleased
SYMMETRY Interchangeable
INVARIANT SourceInv
PROPERTY SlotOutlivesFrames
