CONSTANTS
  Packages <- MCPackages
  Sessions <- MCSessions
  Worlds <- MCWorlds
SPECIFICATION Spec
INVARIANTS TypeOK LockAndIndexAgree AddedIsEverywhere OpensSucceed
PROPERTIES AloneTakesHold CommandsEnd
CHECK_DEADLOCK FALSE
