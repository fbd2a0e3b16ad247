SPECIFICATION Spec
CONSTANTS
  source_stubs = 5
  radius_sites = 3
  plant_stubs = 7
  max_patches = 64
  Preparations = 2
  Asked <- MCAsked
  grid = grid
  random = random
  other = other
  Definitions = {grid, random, other}
  Grid = {grid}
  Selections <- MCSelections
  DefinitionLoads = 2
  PopThreads = {t1, t2}
  provider_capacity = 4
  vanilla_capacity = 2
  builtin_count = 1
  extra_count = 3
  MaxRebuilds = 3
  Faulting = {f1, f2}
  threshold_probes = 2
CHECK_DEADLOCK FALSE
INVARIANTS
  PreparationInv
  ExtrasWhole
  DefinitionsInv
  PoolsInv
  WatchdogInv
PROPERTIES
  ScalesAsPromised
  HangIsReported
