SPECIFICATION Spec
CONSTANTS
  a = a
  b = b
  c1 = c1
  c2 = c2
  c3 = c3
  i1 = i1
  p1 = p1
  p2 = p2
  Ids = {i1}
  Projects = {p1, p2}
  Procs = {a, b}
  Calls = {c1, c2, c3}
  Owner <- MCOwner
  Scenarios <- RegisterBesideGc
  NoCall = NoCall
  NoId = NoId
  LossyLocks = FALSE
  RotIds = {}
  BadIndexes = {}
PROPERTIES
  GcNeverDeletesListed
CHECK_DEADLOCK FALSE
