CONSTANTS
  x1 = x1  x2 = x2  y = y
  p1 = p1  p2 = p2  q1 = q1  q2 = q2
  None = None
  Artifacts = {y}
  SameMod <- MCSameMod
  SamePackage <- MCSameMod
  SameBytes <- MCSameBytes
  Profiles = {p1}
  Active = p1
  Quarantines = {q1}
  MaxRevision = 3
  Faults = {"crash"}
SPECIFICATION Spec
INVARIANTS StartsAgain
CHECK_DEADLOCK FALSE
