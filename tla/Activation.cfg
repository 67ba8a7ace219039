CONSTANTS
  p1 = p1  p2 = p2
  m1 = m1  m2 = m2  u = u
  Absent = Absent
  NoReceipt = NoReceipt
  Paths = {p1, p2}
  Files = {m1, m2, u}
  Desired <- MCDesired
  InitialFiles = {u, Absent}
  UserEdits <- MCEdits
  Disposable = {m1, m2}
  MaxPreviews = 1
  Faults = {"crash"}
  Windows = FALSE
SPECIFICATION Spec
INVARIANTS
  RecoveryNeverStuck UndoNeverMeetsDrift RollbackComplete
  DisplacedBackedUp UserFilesSurvive
PROPERTIES
  LiveChangesAreJournaled CommitIsFinal SwitchesProfiles
CHECK_DEADLOCK FALSE
