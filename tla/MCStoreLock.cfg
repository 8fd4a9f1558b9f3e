SPECIFICATION Spec
CONSTANTS
  Procs = {p1, p2, p3}
  Nobody = Nobody
  DeadPid = DeadPid
  MaxAttempts = 2
  PidReuse = FALSE
  CanSignal <- AllPairs
INVARIANTS
  TypeOK
  ExclusiveUntilRobbed
  NoLeakedLock
  TimeoutsHaveCauses
PROPERTIES
  ReleaseRemovesOwn
  AcquireReturns
  ImplementsExclusiveLock
