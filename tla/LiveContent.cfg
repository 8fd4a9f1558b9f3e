CONSTANTS
  Packages <- MCPackages
  Sessions <- MCSessions
  Worlds <- GcWhileRunning
SPECIFICATION Spec
INVARIANTS LiveContentIsKept
CHECK_DEADLOCK FALSE
