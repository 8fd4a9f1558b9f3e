CONSTANTS
  Packages <- MCPackages
  Sessions <- MCSessions
  Worlds <- AddWhileRunning
SPECIFICATION Spec
INVARIANTS AddsLast
CHECK_DEADLOCK FALSE
