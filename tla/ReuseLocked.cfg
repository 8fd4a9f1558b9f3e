CONSTANTS
  NoCall = NoCall
  MemberVersion = 1
  Names <- MCNames
  Versions <- MCVersions
  Ranges <- MCRanges
  Sat <- MCSat
  Members <- MCMembers
  Denied <- MCDenied
  Calls <- MCCalls
  Worlds <- MCWorlds
SPECIFICATION Spec
INVARIANTS ReusesLocked
CHECK_DEADLOCK FALSE
