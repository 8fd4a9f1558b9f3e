CONSTANTS
  NoCall = NoCall
  MemberVersion = 1
  Names <- MCNames
  Versions <- MCVersions
  Ranges <- MCRanges
  Sat <- MCSat
  Members <- MCMembers
  Denied <- MCDenied
  Calls <- MCCalls
  Worlds <- MCWorlds
SPECIFICATION Spec
INVARIANTS TypeOK ResultSatisfies ReusesStored SealedModes OneResolutionPerKey FailuresAreExplained
PROPERTIES FrozenKeepsLock CallsReturn
CHECK_DEADLOCK FALSE
