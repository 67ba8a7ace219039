CONSTANTS
  p1 = p1  p2 = p2
  m1 = m1  m2 = m2  u = u
  Absent = Absent
  NoReceipt = NoReceipt
  Paths = {p1}
  Files = {m1, m2, u}
  Desired <- MCOneFile
  InitialFiles = {u, Absent}
  UserEdits <- MCEdits
  Disposable = {m1, m2}
  MaxPreviews = 1
  Faults = {}
  Windows = FALSE
SPECIFICATION Spec
INVARIANTS DriftSeenAtApply
CHECK_DEADLOCK FALSE
