SPECIFICATION Spec
CONSTANTS
  c1 = c1
  c2 = c2
  e1 = e1
  Callers = {c1, c2}
  Engine = {e1}
  SiteCount = 3
  Same = {2}
  Tracked = {1}
  MaxInstalls = 2
SYMMETRY Interchangeable
INVARIANTS InstallInv InstalledOrUntouched NoDanglingBranch
PROPERTY FreedStubsAreIdle
