CONSTANTS
  Signers = {"k", "ca"}
  Digests = {"d", "e"}
  Checkouts = {"app", "lib", "ci"}
  Machine <- MCMachine
  Clones <- MCClones
  Members <- MCMembers
  Packages = {"x", "y"}
  Processes = {p1, p2}
  MaxKeys = 2
  Responses <- MCResponses
  RootLists <- MCRootLists
  Worlds <- MCWorlds
SPECIFICATION Spec
SYMMETRY Alike
INVARIANTS TypeOK TrustMeansSigned PublisherIsVouched
PROPERTIES TrustIsKept
