CONSTANTS
  Unstated = 1
  Targets <- MCTargets
  Fields <- MCFields
  Depth <- MCDepth
  Starred <- MCStarred
  Outside <- MCOutside
  Bare <- MCBare
  Names <- MCNames
  NameOrder <- MCNameOrder
  Versions <- MCVersions
  TextOrder <- MCTextOrder
  Ranges <- MCRanges
  Sat <- MCSat
  PathOf <- MCPathOf
  SpecOf <- MCSpecOf
  Worlds <- MCWorlds
  World <- MCWorld
  Listing <- MCListing
  Asked <- MCAsked
SPECIFICATION Spec
INVARIANTS TypeOK LoadsWhatItDeclares SnapshotSuffices OnlyOverlapTears
PROPERTIES SnapshotAdvances
